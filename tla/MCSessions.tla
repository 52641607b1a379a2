------------------------------ MODULE MCSessions ------------------------------
(* Finite instances of Sessions for TLC. *)
EXTENDS Sessions

TabLines == Tabs \X {"refresh", "form"}
=============================================================================
