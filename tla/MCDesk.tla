-------------------------------- MODULE MCDesk --------------------------------
(* Small instances of Desk. *)
EXTENDS Desk, TLC

CONSTANTS u1, u2

AreaOps == [sessions |-> 4, roles |-> 3, incidents |-> 5, notices |-> 1]

ChannelsOf == u1 :> <<"push", "email">> @@ u2 :> <<"email">>
RecipientLists == {<<u1>>, <<u1, u2>>}
=============================================================================
