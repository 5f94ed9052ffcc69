----------------------------- MODULE MCJTIStore -----------------------------
(* Instances of JTIStore for TLC: three or four requests race on one token. *)
EXTENDS JTIStore, TLC

CONSTANTS j1, r1, r2, r3, r4

MCJtis == {j1}
MCThree == {r1, r2, r3}
MCFour == {r1, r2, r3, r4}
MCJti == [r \in Requests |-> j1]
\* A token that expires two seconds after the model's clock starts.
MCExp == [j \in Jtis |-> 2]

\* The requests are interchangeable: nothing compares or orders them.
RequestsSymmetry == Permutations(MCFour)

=============================================================================
