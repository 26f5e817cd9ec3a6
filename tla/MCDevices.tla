------------------------------ MODULE MCDevices ------------------------------
(* The modules that talk to a device, checked side by side: the console's    *)
(* line editor, the file system on its disk, the network card and a TCP      *)
(* socket.  They share no state; focus names the one that moves.             *)
EXTENDS Devices

VARIABLE focus

MCChar == {"a", " "}
MCCommands == {<< "a", "a" >>, << "a", " ", "a" >>}
MCPaths == << "version" >>
MCPieces == {"x", "y"}
MCFrame == {"m", "t"}
MCKindOf == [m |-> "mdns", t |-> "tcp"]

Init ==
  /\ focus \in {"editor", "storage", "nic", "tcp"}
  /\ EditorInit /\ StorageInit /\ NicInit /\ TcpInit

Next ==
  /\ focus' = focus
  /\ \/ focus = "editor" /\ EditorNext /\ UNCHANGED << storageVars, nicVars, tcpVars >>
     \/ focus = "storage" /\ StorageNext /\ UNCHANGED << editorVars, nicVars, tcpVars >>
     \/ focus = "nic" /\ NicNext /\ UNCHANGED << editorVars, storageVars, tcpVars >>
     \/ focus = "tcp" /\ TcpNext /\ UNCHANGED << editorVars, storageVars, nicVars >>

Spec == Init /\ [][Next]_<< focus, editorVars, storageVars, nicVars, tcpVars >>
=============================================================================
