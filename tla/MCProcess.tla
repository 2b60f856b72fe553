----------------------------- MODULE MCProcess -----------------------------
(* An instance of Process for TLC. *)
EXTENDS Process
LOCAL INSTANCE TLC

\* A server with users 3 to 4, and one that no longer announces a highest id.
Other == <<"other", "header">>
Header(slot, colon, n) == [slot |-> slot, colon |-> colon, n |-> n]
TwoServers ==
  { << Header(Other, FALSE, 0), Header(<<"user", "highest">>, TRUE, 3),
       Header(<<"user", "lowest">>, TRUE, 2) >>,
    << Header(<<"group", "lowest">>, TRUE, 2), Header(Other, TRUE, 0),
       Header(<<"user", "highest">>, TRUE, -1) >> }

\* Two threads of one process of root, another one, and a process of a user.
ThreeProcesses ==
  [t \in Loaders |-> IF t = "c1" THEN "c" ELSE IF t = "b1" THEN "b" ELSE "a"]

\* One field of each kind the code treats in its own way.
K(n, m, d) == [name |-> n, method |-> m, default |-> d]
Fields == << K("api_endpoint", "toml_rtos", "string"), K("ssl_verify", "temporary", "number"),
             K("auth_token", "toml_rtos", "null"), K("use_cached", "toml_rtob", "number"),
             K("cached_enable", "toml_rtob", "number"), K("uid_shift", "toml_rtoi", "number") >>

Symmetric == Permutations(Threads)
=============================================================================
