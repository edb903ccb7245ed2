------------------------------ MODULE MCStream ------------------------------
(* Commands with an argument that is short, holds a line end, or is empty (in
   the middle or at the end); answers of every type, a nested one and one that
   is nested too deeply for MaxRESPDepth = 2.  A simple string and an error hold
   a line end, behind which another value seems to follow or nothing does; one
   holds a CR that ends no line. *)
EXTENDS Stream

D == <<"D">>

MCCommands == {<<D, <<"x">>>>, <<D, <<CR, LF>>>>, <<D, <<>>, D>>, <<D, <<>>>>}

MCAnswers ==
    {Simple(<<"K", CR>>), Simple(<<"K", CR, LF, ":", "1">>), Error(<<"E">>),
     Error(<<"E", LF>>), Int64(-12), NullBulk, NullArray,
     Bulk(<<"$", "1", CR, LF>>), Bulk(<<>>), Array(<<>>),
     Array(<<Bulk(<<"0">>), Array(<<Int64(0), NullBulk>>)>>),
     Array(<<Array(<<Array(<<>>)>>)>>)}
=============================================================================
