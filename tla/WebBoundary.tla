----------------------------- MODULE WebBoundary -----------------------------
(* security/web.py: server processes agree on the one local access token;   *)
(* in one of them, requests come in concurrently, are let through for a     *)
(* session only, stream their bodies into forms with files of their own,     *)
(* and end with one response.                                               *)
EXTENDS Naturals, Sequences, SequencesExt, FiniteSets

CONSTANTS
  Servers,
  Main,        \* the server whose requests are followed
  Requests,
  MaxSessions, \* the size of the session store
  MaxChunks,   \* WebRequestLimits.max_chunks
  MaxMade,     \* bound on tokens and sessions made
  NONE

VARIABLES
  file,      \* the token file: [token, whole], NONE when there is none
  server,    \* server -> [pc, token]
  tokens,    \* the number of tokens generated
  withdrawn, \* a whole token was taken away again
  sessions,  \* the session store, least recently used first
  made,      \* the number of sessions made
  request    \* request -> [pc, safe, csrf, alive, sent, received, form, status]

vars == <<file, server, tokens, withdrawn, sessions, made, request>>
boundary == <<sessions, made, request>>

Off == [pc |-> "off", token |-> 0]

Waiting == [pc |-> "none", safe |-> TRUE, csrf |-> 0, alive |-> FALSE, sent |-> 0,
            received |-> 0, form |-> FALSE, status |-> 0]

Init ==
  /\ file = NONE /\ server = [w \in Servers |-> Off] /\ tokens = 0 /\ withdrawn = FALSE
  /\ sessions = <<>> /\ made = 0 /\ request = [r \in Requests |-> Waiting]

----------------------------------------------------------------------------
(* LocalAccessToken.                                                        *)

At(w, step) == server[w].pc = step
Goes(w, step) == server' = [server EXCEPT ![w].pc = step]
Serves(w) == server' = [server EXCEPT ![w] = [pc |-> "serving", token |-> file.token]]

(* A process starts with load_or_create; a file that is there must be whole. *)
LoadToken(w) ==
  /\ At(w, "off")
  /\ IF file = NONE THEN Goes(w, "create")
     ELSE IF file.whole THEN Serves(w)
     ELSE UNCHANGED server
  /\ UNCHANGED <<file, tokens, withdrawn, boundary>>

CreatesFile == file = NONE

CreateToken(w) ==
  /\ At(w, "create")
  /\ IF CreatesFile
     THEN /\ tokens < MaxMade
          /\ file' = [token |-> tokens + 1, whole |-> FALSE] /\ tokens' = tokens + 1
          /\ Goes(w, "write")
     ELSE Goes(w, "race") /\ UNCHANGED <<file, tokens>>
  /\ UNCHANGED <<withdrawn, boundary>>

(* A failed write or sync unlinks the file again.                           *)
WriteToken(w) ==
  /\ At(w, "write") /\ file # NONE
  /\ \/ file' = [file EXCEPT !.whole = TRUE] /\ Goes(w, "sync")
     \/ file' = NONE /\ Goes(w, "off")
  /\ UNCHANGED <<tokens, withdrawn, boundary>>

SyncToken(w) ==
  /\ At(w, "sync") /\ file # NONE
  /\ \/ Serves(w) /\ UNCHANGED <<file, withdrawn>>
     \/ file' = NONE /\ withdrawn' = TRUE /\ Goes(w, "off")
  /\ UNCHANGED <<tokens, boundary>>

ReadsWhole == file # NONE /\ file.whole

(* _load_after_create_race: some attempts, and then it gives up.            *)
LoadAfterRace(w) ==
  /\ At(w, "race")
  /\ IF ReadsWhole THEN Serves(w) ELSE Goes(w, "off")
  /\ UNCHANGED <<file, tokens, withdrawn, boundary>>

(* A process ends or is killed, and its sessions and requests with it.      *)
Stop(w) ==
  /\ ~At(w, "off")
  /\ server' = [server EXCEPT ![w] = Off]
  /\ IF w = Main THEN sessions' = <<>> /\ request' = [r \in Requests |-> Waiting]
                 ELSE UNCHANGED <<sessions, request>>
  /\ UNCHANGED <<file, tokens, withdrawn, made>>

----------------------------------------------------------------------------
(* LocalWebBoundary.                                                        *)

token == <<file, server, tokens, withdrawn>>

Respond(r, status) ==
  request' = [request EXCEPT ![r].pc = "ended", ![r].status = status, ![r].form = FALSE]

(* GET /?token=...: a new session, and the least recently used one goes     *)
(* when the store is full.                                                  *)
LogIn(r, supplied) ==
  /\ At(Main, "serving") /\ request[r].pc = "none"
  /\ IF supplied = server[Main].token
     THEN /\ made < MaxMade /\ made' = made + 1
          /\ sessions' = LET all == Append(sessions, made + 1)
                         IN IF Len(all) > MaxSessions THEN Tail(all) ELSE all
          /\ Respond(r, 303)
     ELSE Respond(r, 401) /\ UNCHANGED <<sessions, made>>
  /\ UNCHANGED token

(* Mutant: any session that was ever made is let through.                   *)
EverMade(cookie) == cookie \in 1..made

HasSession(cookie) == cookie \in ToSet(sessions)

(* A request with a cookie and, unless its method is safe, an origin. The    *)
(* CSRF value of its session goes with it from here on, whatever becomes of *)
(* the session; a body with a safe method is refused.                       *)
Enter(r, cookie, safe, body, sameOrigin) ==
  /\ At(Main, "serving") /\ request[r].pc = "none"
  /\ IF ~HasSession(cookie) THEN Respond(r, 401) /\ UNCHANGED sessions
     ELSE /\ sessions' = Append(SelectSeq(sessions, LAMBDA s : s # cookie), cookie)
          /\ IF safe /\ body THEN Respond(r, 400)
             ELSE IF ~safe /\ ~sameOrigin THEN Respond(r, 403)
             ELSE request' = [request EXCEPT ![r].pc = IF safe THEN "handle" ELSE "receive",
                                             ![r].safe = safe, ![r].csrf = cookie,
                                             ![r].alive = (cookie \in ToSet(sessions))]
  /\ UNCHANGED <<token, made>>

OverLimit(received) == received > MaxChunks

(* _LimitedReceive, under the form's parser: a chunk, whose file part goes   *)
(* to a private temporary. A disconnect, a limit or a part that is refused  *)
(* closes the files.                                                        *)
ReceiveChunk(r) ==
  /\ request[r].pc = "receive"
  /\ \/ Respond(r, 400)
     \/ IF OverLimit(request[r].received + 1)
        THEN Respond(r, 413)
        ELSE request' = [request EXCEPT ![r].received = @ + 1, ![r].form = TRUE]
  /\ UNCHANGED <<token, sessions, made>>

CsrfMatches(r, supplied) == supplied = request[r].csrf

(* require_csrf, with the value in the form or in a header.                 *)
RequireCsrf(r, supplied) ==
  /\ request[r].pc = "receive" /\ request[r].received > 0
  /\ IF CsrfMatches(r, supplied)
     THEN request' = [request EXCEPT ![r].pc = "handle", ![r].sent = supplied]
     ELSE Respond(r, 403)
  /\ UNCHANGED <<token, sessions, made>>

(* The handler ends with a response, or fails before or after it has begun  *)
(* one; the form is closed in any case.                                     *)
Handle(r) ==
  /\ request[r].pc = "handle"
  /\ \E begun \in {0, 200} :
       request' = [request EXCEPT ![r].pc = IF begun = 0 THEN "failed" ELSE "begun",
                                  ![r].status = begun]
  /\ UNCHANGED <<token, sessions, made>>

(* An error page is sent only when nothing was.                             *)
StatusOf(r) == IF request[r].pc = "begun" THEN request[r].status ELSE 500

EndRequest(r) ==
  /\ request[r].pc \in {"failed", "begun"}
  /\ Respond(r, StatusOf(r))
  /\ UNCHANGED <<token, sessions, made>>

Again(r) ==
  /\ request[r].pc = "ended"
  /\ request' = [request EXCEPT ![r] = Waiting]
  /\ UNCHANGED <<token, sessions, made>>

Next ==
  \/ \E w \in Servers : \/ LoadToken(w) \/ CreateToken(w) \/ WriteToken(w) \/ SyncToken(w)
                        \/ LoadAfterRace(w) \/ Stop(w)
  \/ \E r \in Requests :
       \/ \E supplied \in 1..MaxMade : LogIn(r, supplied) \/ RequireCsrf(r, supplied)
       \/ \E cookie \in 1..MaxMade, safe, body, sameOrigin \in BOOLEAN :
            Enter(r, cookie, safe, body, sameOrigin)
       \/ ReceiveChunk(r) \/ Handle(r) \/ EndRequest(r) \/ Again(r)

Spec == Init /\ [][Next]_vars

----------------------------------------------------------------------------
(* All servers of a runtime that are up answer to one token, the one in its *)
(* file, however they raced to make it and whichever died on the way -      *)
(* unless a sync failed after another had read it. (web.py:98-197)          *)
OneToken ==
  ~withdrawn => \A w \in Servers :
    At(w, "serving") => file # NONE /\ file.whole /\ file.token = server[w].token

(* A request reaches its handler only from a session that was alive when   *)
(* it came in; one that changes something only with the CSRF value of that  *)
(* very session, within the limits, and even when the session is evicted or *)
(* another logs in while the body is read. (web.py:378-427, 465-490)        *)
HandledForItsSession ==
  \A r \in Requests :
    request[r].pc \in {"handle", "begun", "failed"} =>
      /\ request[r].alive
      /\ ~request[r].safe => /\ request[r].sent = request[r].csrf
                            /\ request[r].received \in 1..MaxChunks
=============================================================================
