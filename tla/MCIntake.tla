------------------------------ MODULE MCIntake ------------------------------
(* Session files, archives and directory trees for Intake.                  *)
EXTENDS Intake, Sequences, TLC

(* The lines of a Codex session and the files they make up.                 *)
Meta(s, i) == [type |-> "meta", session |-> s, id |-> i, size |-> 1]
Ctx(t, c, m) == [type |-> "context", turn |-> t, cwd |-> c, model |-> m, size |-> 1]
Done(t, b) == [type |-> "end", turn |-> t, captured |-> b, size |-> 1]
Other(t, n) == [type |-> t, size |-> n]
MCLines == <<Meta(NONE, "s"), Meta("s", "x"), Meta(NONE, "x"),
  Ctx(2, "a", "m"), Ctx(2, "a", "n"), Ctx(1, "a", "n"), Ctx(3, "a", "m"), Ctx(1, "b", "m"),
  Done(2, TRUE), Other("unsafe", 1), Other("ignored", 2),
  [Ctx(3, "a", "m") EXCEPT !.size = 3]>>
MCScripts == {
  <<1, 4, 11, 9>>, <<1, 4, 5, 9>>, <<1, 4, 10, 9>>, <<1, 4, 8, 9>>, <<2, 4, 3, 9>>,
  <<1, 4, 12, 9>>, <<1, 4, 9, 4, 9>>, <<1, 4, 6, 7, 9>>}
MCThreads == {"s", "x"}
MCWeight(c) == IF c.cwd = NONE THEN 1 ELSE IF c.cwd = "b" THEN 4 ELSE 2

(* The archives, and a project that lies within the other.                  *)
Node(p, cs, t, r, l) == [parent |-> p, children |-> cs, time |-> t, role |-> r, labels |-> l]
(* A question, an abandoned answer and a later one, or one with a bad label. *)
Tree(labels) ==
  <<Node(NONE, {2, 3}, 0, "user", "none"), Node(1, {}, 1, "assistant", "stated"),
    Node(1, {}, 2, "assistant", labels)>>
Cyclic == <<Node(2, {2}, 0, "user", "none"), Node(1, {1}, 1, "assistant", "stated")>>
About(id, v, ps, rs, ns) ==
  [id |-> id, version |-> v, nodes |-> Tree("stated"),
   mentions |-> [paths |-> ps, remotes |-> rs, names |-> ns, coding |-> TRUE]]
C1(v) == About("c1", v, {"inner", "outer"}, {}, {"outer"})
MCArchives == [a1 |-> <<C1(1), About("c2", 1, {}, {"outer"}, {"inner"}),
                        About(NONE, 1, {}, {}, {})>>,
               a2 |-> <<[C1(2) EXCEPT !.nodes = Cyclic], C1(2)>>,
               a3 |-> <<C1(2), [About("c2", 1, {"outer"}, {}, {}) EXCEPT !.nodes = Tree("invalid")]>>]
MCWithin(p, q) == p = "inner" /\ q = "outer"

MCSymmetry == Permutations(Importers)
=============================================================================
