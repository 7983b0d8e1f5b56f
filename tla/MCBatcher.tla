----------------------------- MODULE MCBatcher ------------------------------
(* An instance of the batcher for TLC: two names, a host or none, and tag  *)
(* lists over three tags of the form key:value, in both orders, with a     *)
(* repeated tag, and without tags.  Datadog's tags need no value: one list *)
(* has two tags without, which are the parts of another list's one tag.    *)
EXTENDS Batcher

Env   == <<1, 2>>
Stage == <<1, 3>>
Team  == <<4, 2>>

SomeTagLists ==
  {<<>>, <<Env>>, <<Env, Team>>, <<Team, Env>>, <<Env, Stage>>, <<Env, Env>>,
   <<<<1>>, <<2>>>>}

=============================================================================
