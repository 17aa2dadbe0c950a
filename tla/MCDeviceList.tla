---------------------------- MODULE MCDeviceList ----------------------------
(***************************************************************************)
(* TLC instances of DeviceList.  All names are equal in one instance, so   *)
(* that rows with equal cells occur.                                       *)
(***************************************************************************)
EXTENDS DeviceList

\* A camera on two interfaces, a device of another make on one of them.
CameraAndOther ==
  [name : {2}, model : {"rc_visard"}, mac : {101}, iface : {11, 12}] \union
  [name : {1}, model : {"other"}, mac : {102}, iface : {12}]

\* Three devices of the same name, one of them on two interfaces.
SameNames ==
  [name : {1}, model : {"rc_visard"}, mac : {103}, iface : {11, 12}] \union
  [name : {1}, model : {"rc_other"}, mac : {102}, iface : {11}] \union
  [name : {1}, model : {"other"}, mac : {101}, iface : {12}]

NoText == {<<>>}
NameOrIfaces == {<<>>, <<1>>, <<11, 12>>}

=============================================================================
