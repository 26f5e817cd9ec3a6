------------------------------- MODULE Devices -------------------------------
(* The modules that talk to a device, side by side: the console's line       *)
(* editor, the file system on its disk, the network card and a TCP socket.   *)
(* They share no state.                                                      *)
EXTENDS LineEditor, Storage, Nic, TcpSocket

DevicesSpec == EditorSpec /\ StorageSpec /\ NicSpec /\ TcpSpec

(* Each component's state is well-formed; for the editor and the rings this  *)
(* is the absence of an index out of bounds.                                 *)
DevicesTypeOK == EditorTypeOK /\ StorageTypeOK /\ NicTypeOK /\ TcpTypeOK
=============================================================================
