---------------------------- MODULE MCOscStream -----------------------------
(* Instances of OscStreamPacket for TLC.                                   *)
EXTENDS OscStreamPacket, TLC

OneAddress      == {"/a"}
OneLength       == "/a" :> 2
TagAndWord      == {[tag |-> "T", length |-> 0], [tag |-> "i", length |-> 0]}

MCAddresses     == {"/a", "/abc"}
MCAddressLength == "/a" :> 2 @@ "/abc" :> 4
MCArguments     == {[tag |-> "T", length |-> 0], [tag |-> "h", length |-> 0],
                    [tag |-> "s", length |-> 4], [tag |-> "b", length |-> 0]}
=============================================================================
