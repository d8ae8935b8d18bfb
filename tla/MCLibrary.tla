------------------------------ MODULE MCLibrary ------------------------------
(***************************************************************************)
(* The single-threaded parts of the library, which share no state: a       *)
(* behaviour belongs to one of them, and the others stay in one initial    *)
(* state.                                                                  *)
(***************************************************************************)
EXTENDS WPacket, SocketTable, LinkList, DList, RBTree, HashMap, MinHeap,
        RecvStream

VARIABLE part

HashCodes == <<0, 4, 1, 3>>

libraryVars == <<part, pvars, svars, lvars, dl, rb, hashVars, hvars, vars>>

LibraryInit ==
  /\ part \in {"packet", "socket", "link_list", "list", "tree", "hash", "heap", "recv"}
  /\ PacketInit /\ InitHandleMgr /\ LinkInit /\ ListInit /\ RBInit /\ HashInit
  /\ HeapInit /\ Init
  /\ part # "packet" => w = wpacket_create(8, FALSE)
  /\ part # "heap" => \A e \in Ele : rank[e] = 1
  /\ part # "recv" => ~raw

\* The other parts keep still.
LibraryNext ==
  \/ part = "packet" /\ PacketNext
     /\ UNCHANGED <<part, svars, lvars, dl, rb, hashVars, hvars, vars>>
  \/ part = "socket" /\ SocketNext
     /\ UNCHANGED <<part, pvars, lvars, dl, rb, hashVars, hvars, vars>>
  \/ part = "link_list" /\ LinkNext
     /\ UNCHANGED <<part, pvars, svars, dl, rb, hashVars, hvars, vars>>
  \/ part = "list" /\ ListNext
     /\ UNCHANGED <<part, pvars, svars, lvars, rb, hashVars, hvars, vars>>
  \/ part = "tree" /\ RBNext
     /\ UNCHANGED <<part, pvars, svars, lvars, dl, hashVars, hvars, vars>>
  \/ part = "hash" /\ HashNext
     /\ UNCHANGED <<part, pvars, svars, lvars, dl, rb, hvars, vars>>
  \/ part = "heap" /\ HeapNext
     /\ UNCHANGED <<part, pvars, svars, lvars, dl, rb, hashVars, vars>>
  \/ part = "recv" /\ Next
     /\ UNCHANGED <<part, pvars, svars, lvars, dl, rb, hashVars, hvars>>

LibrarySpec == LibraryInit /\ [][LibraryNext]_libraryVars
=============================================================================
