----------------------------- MODULE MCStartup ------------------------------
(* Startup on a small instance: at most one number setting is not the default,
   or the two URLs take every form for some sizes of the pool. *)
EXTENDS Startup

Defaults == [s \in Number |-> 2]

Unset    == [kind |-> "unset", n |-> 0]
Forms    == {[kind |-> k, n |-> 0] : k \in {"unset", "blank", "garbage", "value"}}
Value(n) == [kind |-> "value", n |-> n]

Environments ==
  LET With(s, v, d, r) ==
        [t \in Number \cup Url |-> CASE t = s              -> v
                                     [] t = "DATABASE_URL" -> d
                                     [] t = "REDIS_URL"    -> r
                                     [] OTHER              -> Unset]
  IN  {With(s, v, Unset, Value(0)) : s \in Number, v \in Forms \cup {Value(-1), Value(3)}}
      \cup {With("DB_MAX_CONNS", v, d, r) :
              v \in {Unset} \cup {Value(n) : n \in {3, 4, 8, 9}}, d, r \in Forms}
=============================================================================
