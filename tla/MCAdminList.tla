----------------------------- MODULE MCAdminList -----------------------------
(* A small instance of AdminList: two requests for a table ordered by its     *)
(* time and its id, which may be absent, lack the time, or be complete, and   *)
(* the timeouts of the code in ticks of two and a half seconds.               *)
EXTENDS AdminList

MCOrderBy == <<[column |-> "created_at", way |-> "DESC"], [column |-> "id", way |-> "DESC"]>>
MCTables  == {{}, {"id"}, {"id", "created_at"}}
=============================================================================
