------------------------------ MODULE McpBroker ------------------------------
(* integration/mcp_broker.py: one session of the broker after another. A    *)
(* client writes lines of JSON-RPC; the broker reads them through a bounded  *)
(* readline, answers each before it reads the next, and calls two tools.     *)
(*                                                                          *)
(* A line is [size, ending, method, id, good]: the bytes before its line     *)
(* end, and what they say. An answer is the number of the line it is for    *)
(* (that stands for its id; 0 for the null id) and its code.                *)
EXTENDS Integers, Sequences

CONSTANTS
  MaxLine,  \* MAX_LINE_BYTES
  Items,    \* what a capture can say
  MaxLines  \* bound on the lines of a session

VARIABLES
  asked,       \* the lines of the session, in order
  left,        \* the bytes of the last of them that are still unread
  state,       \* "line", "drain", "handle" or "end"
  initializeSeen,
  initialized,
  answers,
  recorded     \* the items that pending capture holds

vars == <<asked, left, state, initializeSeen, initialized, answers, recorded>>

Tools == {"capture_pending", "reconcile_if_due"}
Methods == {"initialize", "ping"} \cup Tools

Messages(methods, ids, good, items) ==
  [size : {1}, ending : {1}, method : methods, id : ids, good : good, item : items]

(* The lines of requests, of notifications, of what is not a request, and   *)
(* pings of any size and line end: "\n", "\r\n" or none at the end of input. *)
Lines ==
  Messages(Methods, {TRUE}, BOOLEAN, {"none"})
  \cup Messages({"capture_pending"}, {TRUE}, {TRUE}, Items)
  \cup Messages({"initialized"}, {FALSE}, BOOLEAN, {"none"})
  \cup Messages({"unknown"}, BOOLEAN, {TRUE}, {"none"})
  \cup Messages({"invalid_request", "invalid_json"}, {FALSE}, {FALSE}, {"none"})
  \cup [size : 1..(2 * MaxLine + 3), ending : 0..2, method : {"ping"}, id : {TRUE},
        good : {TRUE}, item : {"none"}]

Line == asked[Len(asked)]

Init ==
  /\ asked = <<>> /\ left = 0 /\ state = "line"
  /\ initializeSeen = FALSE /\ initialized = FALSE
  /\ answers = <<>> /\ recorded = {}

session == <<initializeSeen, initialized, recorded>>

Answer(to, code) == answers' = Append(answers, [to |-> to, code |-> code])

----------------------------------------------------------------------------
(* _read_line: at most MaxLine + 2 bytes at a time.                         *)

Read(n) == IF n < MaxLine + 2 THEN n ELSE MaxLine + 2

(* The client writes a line, and the broker reads the first chunk of it. A  *)
(* chunk without its line end that fills the buffer has more to come, which *)
(* is drained; a whole line may be too long by one byte.                    *)
ReadLine ==
  /\ state = "line" /\ left = 0 /\ Len(asked) < MaxLines
  /\ \E line \in Lines :
       LET all == line.size + line.ending
           part == Read(all)
           ended == part = all /\ line.ending > 0
           content == IF ended THEN all - line.ending ELSE part
       IN /\ asked' = Append(asked, line)
          /\ left' = all - part
          /\ state' = IF ~ended /\ part = Read(MaxLine + 2) THEN "drain"
                      ELSE IF content > MaxLine THEN "refuse" ELSE "handle"
  /\ UNCHANGED <<session, answers>>

DrainLine ==
  /\ state = "drain"
  /\ LET part == Read(left)
     IN /\ left' = left - part
        /\ state' = IF left' > 0 THEN "drain" ELSE "refuse"
  /\ UNCHANGED <<asked, session, answers>>

Resume == IF Line.ending = 0 THEN "end" ELSE "line"

RefuseLine ==
  /\ state = "refuse"
  /\ Answer(0, "request_too_large")
  /\ state' = Resume
  /\ UNCHANGED <<asked, left, session>>

----------------------------------------------------------------------------
(* _handle.                                                                 *)

Handle(methods) == state = "handle" /\ Line.method \in methods
Handled == state' = Resume /\ UNCHANGED <<asked, left>>

Malformed ==
  /\ Handle({"invalid_json", "invalid_request"})
  /\ Answer(0, Line.method)
  /\ Handled /\ UNCHANGED session

(* Mutant: a client may say it is initialized before it has asked to be.    *)
EarlyNotification == TRUE

InTurn == initializeSeen

(* Every other notification is ignored.                                     *)
HandleNotification ==
  /\ state = "handle" /\ ~Line.id /\ Line.method \in {"initialized", "unknown"}
  /\ initialized' = (initialized \/ (Line.method = "initialized" /\ InTurn /\ Line.good))
  /\ Handled /\ UNCHANGED <<initializeSeen, answers, recorded>>

ValidParams == Line.good

Initialize ==
  /\ Handle({"initialize"})
  /\ initializeSeen' = (initializeSeen \/ ValidParams)
  /\ Answer(Len(asked), IF initializeSeen THEN "already_initialized"
                        ELSE IF Line.good THEN "result" ELSE "invalid_params")
  /\ Handled /\ UNCHANGED <<initialized, recorded>>

UnknownMethod ==
  /\ Handle({"unknown"}) /\ Line.id
  /\ Answer(Len(asked), "method_not_found")
  /\ Handled /\ UNCHANGED session

NotInitialized ==
  /\ Handle({"ping"} \cup Tools) /\ ~initialized
  /\ Answer(Len(asked), "not_initialized")
  /\ Handled /\ UNCHANGED session

(* So are the tools listed.                                                 *)
Ping ==
  /\ Handle({"ping"}) /\ initialized
  /\ Answer(Len(asked), IF Line.good THEN "result" ELSE "invalid_params")
  /\ Handled /\ UNCHANGED session

(* A tool is given valid arguments or none is called; its container may be   *)
(* unavailable, and it may fail with or without having done its work.       *)
CallTool ==
  /\ Handle(Tools) /\ initialized
  /\ \/ Answer(Len(asked), "tool") /\ UNCHANGED recorded
     \/ /\ Line.good /\ Line.method = "capture_pending" /\ Line.item # "none"
        /\ recorded' = recorded \cup {Line.item}
        /\ \/ Answer(Len(asked), IF Line.item \in recorded THEN "duplicate" ELSE "queued")
           \/ Answer(Len(asked), "tool")
  /\ Handled /\ UNCHANGED <<initializeSeen, initialized>>

(* The input ends, the client goes away (an answer it does not get is in    *)
(* answers or not), or the process is killed; a new session begins.         *)
NewSession ==
  /\ asked # <<>>
  /\ asked' = <<>> /\ left' = 0 /\ state' = "line"
  /\ initializeSeen' = FALSE /\ initialized' = FALSE
  /\ answers' = <<>>
  /\ UNCHANGED recorded

Next ==
  \/ ReadLine \/ DrainLine \/ RefuseLine
  \/ Malformed \/ HandleNotification \/ Initialize \/ UnknownMethod
  \/ NotInitialized \/ Ping \/ CallTool
  \/ NewSession

Spec == Init /\ [][Next]_vars

----------------------------------------------------------------------------
(* What the k-th line of a session is owed, by what was sent before it.     *)
Accepted(k) == \E i \in 1..(k - 1) : asked[i].method = "initialize" /\ asked[i].good
                                     /\ asked[i].size <= MaxLine
Ready(k) == \E j \in 1..(k - 1) :
              asked[j].method = "initialized" /\ asked[j].good
              /\ asked[j].size <= MaxLine /\ Accepted(j)

Owed(k) ==
  LET line == asked[k]
  IN IF line.size > MaxLine THEN {<<0, "request_too_large">>}
     ELSE IF line.method \in {"invalid_json", "invalid_request"} THEN {<<0, line.method>>}
     ELSE IF line.method = "initialize"
     THEN {<<k, IF Accepted(k) THEN "already_initialized"
                ELSE IF line.good THEN "result" ELSE "invalid_params">>}
     ELSE IF line.method = "unknown" THEN {<<k, "method_not_found">>}
     ELSE IF ~Ready(k) THEN {<<k, "not_initialized">>}
     ELSE IF line.method \in Tools THEN {k} \X {"tool", "queued", "duplicate"}
     ELSE {<<k, IF line.good THEN "result" ELSE "invalid_params">>}

IsRequest(line) == line.id \/ line.method \in {"invalid_json", "invalid_request"}
                   \/ line.size > MaxLine

(* Whatever their sizes, every line up to the one being read has got the    *)
(* one answer it is owed, in order and under its own id, and a notification *)
(* none: a line is never read as a part of another, the null id goes to the *)
(* lines that cannot be read only, and no tool runs for a client that has    *)
(* not been through the handshake. The n-th answer is for line request[n]. *)
(* (mcp_broker.py:139-290, 389-415)                                         *)
Done == IF state \in {"line", "end"} THEN Len(asked) ELSE Len(asked) - 1

AnswersTo(request) ==
  /\ \A n, m \in DOMAIN answers : n < m => request[n] < request[m]
  /\ \A k \in 1..Done : IsRequest(asked[k]) <=> \E n \in DOMAIN answers : request[n] = k
  /\ \A n \in DOMAIN answers : <<answers[n].to, answers[n].code>> \in Owed(request[n])

OneAnswerPerLine == \E request \in [DOMAIN answers -> 1..Done] : AnswersTo(request)
=============================================================================
