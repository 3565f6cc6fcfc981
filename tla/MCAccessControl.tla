---------------------------- MODULE MCAccessControl ----------------------------
(***************************************************************************)
(* A small instance of AccessControl: a REGISTER and a response to it in   *)
(* one transaction, an INVITE in none.                                     *)
(***************************************************************************)
EXTENDS AccessControl, TLC

CONSTANTS register, response, stray, t1, lan, phones, trunk

ProfileSymmetry == Permutations(Profile)

MCTrnOf == [m \in Message |-> IF m = stray THEN Nil ELSE t1]

MCMethodOf == [m \in Message |-> CASE m = register -> "REGISTER"
                                   [] m = stray -> "INVITE"
                                   [] m = response -> None]

MCNetworksOf == [m \in Message |-> {lan}]

MCString == {"p", "a", "b"}

Entry(value, requestType) == [name |-> "p", value |-> value, requestType |-> requestType]

MCProperty == {Entry("a", Undefined), Entry("b", "REGISTER"), Entry(Other, "*")}

=============================================================================
