--------------------------- MODULE MCEncoderCache ---------------------------
(***************************************************************************)
(* Two goroutines and the types of                                         *)
(*     type Node struct { Next *Node; Val interface{} }                    *)
(* where Val may hold any of the types, also a channel.                    *)
(***************************************************************************)
EXTENDS EncoderCache

TwoThreads == {"g1", "g2"}

MCTypes == {"Node", "PtrNode", "Any", "Chan"}
MCKind == [t \in MCTypes |->
    CASE t = "Node" -> "struct" [] t = "PtrNode" -> "ptr" [] t = "Any" -> "iface" [] OTHER -> "unsupported"]
MCKids == [t \in MCTypes |->
    CASE t = "Node" -> <<"PtrNode", "Any">> [] t = "PtrNode" -> <<"Node">> [] OTHER -> <<>>]
=============================================================================
