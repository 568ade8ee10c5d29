------------------------ MODULE MCProcessCoordination ------------------------
(* Three children, each issuing three transfers, with a key counter of 4:  *)
(* child 2 starts at 2 and wraps to 4 on its third key.                    *)
EXTENDS ProcessCoordination

MCNumChildren == 3
MCChildTransfers == 3
MCMaxCounter == 4

=============================================================================
