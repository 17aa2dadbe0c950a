-------------------------- MODULE MCDiscoverWindow --------------------------
(***************************************************************************)
(* TLC instances of DiscoverWindow.                                        *)
(***************************************************************************)
EXTENDS DiscoverWindow

\* An rc_visard and a device of another make that sorts above it by name.
VisardAndOther ==
  [name : {2}, model : {"rc_visard"}, mac : {101}, iface : {11}] \union
  [name : {1}, model : {"other"}, mac : {102}, iface : {11}]

\* An rc_visard that is reached over two interfaces.
VisardOnly == [name : {2}, model : {"rc_visard"}, mac : {101}, iface : {11, 12}]

NoText == {<<>>}

=============================================================================
