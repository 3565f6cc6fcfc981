------------------------------ MODULE MCSbcDeploy ------------------------------
(***************************************************************************)
(* Small instances of SbcDeploy.                                           *)
(***************************************************************************)
EXTENDS SbcDeploy

\* The default ports of sipxsbc.xml, and a change of all three of them.
TwoSettings == {[listener |-> 5060, base |-> 30000, max |-> 40000],
                [listener |-> 5080, base |-> 65536, max |-> 70000]}

=============================================================================
