--------------------------- MODULE PierSuccession ---------------------------
(***************************************************************************)
(* What the owner of a member is promised of its pier: one container after *)
(* the other has it, and the next one is created only when the one before  *)
(* has ended cleanly and was removed.                                      *)
(***************************************************************************)
EXTENDS Integers

CONSTANTS Member, MaxGen

VARIABLE life  \* of each container of each member's pier

Container == Member \X (1 .. MaxGen)

Init == life = [c \in Container |-> IF c[2] = 1 THEN "running" ELSE "absent"]

Becomes(c, from, to) == life[c] = from /\ life' = [life EXCEPT ![c] = to]

Create(c) ==
    /\ c[2] > 1 /\ life[<<c[1], c[2] - 1>>] = "removed"
    /\ Becomes(c, "absent", "created")
Start(c)  == Becomes(c, "created", "running")
End(c)    == Becomes(c, "running", "clean") \/ Becomes(c, "running", "unclean")
Remove(c) == Becomes(c, "clean", "removed")

Next == \E c \in Container : Create(c) \/ Start(c) \/ End(c) \/ Remove(c)

Spec == Init /\ [][Next]_life
=============================================================================
