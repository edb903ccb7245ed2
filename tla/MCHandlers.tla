---------------------------- MODULE MCHandlers ----------------------------
(* Commands for the instance of Handlers that TLC checks, one set per type of
   object: objects of different types share nothing. *)
EXTENDS Handlers

CONSTANTS c1, c2, k1, k2, a, b, x, y

Cmd(op, args) == [op |-> op, key |-> k1, args |-> args, opt |-> "none"]
CmdOpt(op, args, opt) == [Cmd(op, args) EXCEPT !.opt = opt]

Strings ==
    {Cmd("SET", << <<k1, <<a>>>> >>),
     CmdOpt("SET", << <<k2, <<b>>>> >>, "EX"),
     CmdOpt("SET", << <<k1, <<b>>>> >>, "PX"),
     Cmd("MSET", << <<k1, <<b>>>>, <<k2, <<a>>>> >>),
     Cmd("MSETNX", << <<k1, <<b>>>>, <<k2, <<b>>>> >>),
     Cmd("DEL", <<k2, k1>>),
     Cmd("APPEND", << <<a>> >>),
     Cmd("MGET", <<k1, k2>>)}

Hashes ==
    {Cmd("HSET", << <<x, a>>, <<y, b>> >>), Cmd("HSET", << <<x, b>> >>),
     Cmd("HDEL", <<y, x>>), Cmd("HSET", <<>>)}

Lists ==
    {Cmd("LPUSH", <<a, b>>), Cmd("RPUSH", <<b, b, a>>),
     Cmd("LPOP", <<>>), Cmd("RPOP", <<>>)}

Sets ==
    {Cmd("SADD", <<x, x, y>>), Cmd("SADD", <<y>>), Cmd("SREM", <<x>>)}

SortedSets ==
    {Cmd("ZADD", << <<1, x>>, <<2, y>> >>), Cmd("ZADD", << <<1, y>> >>),
     Cmd("ZADD", << <<3, x>>, <<BadScore, y>> >>), Cmd("ZREM", <<x, y>>)}

ClientSymmetry == Permutations(Clients)

MCWorkloads == {Strings, Hashes, Lists, Sets, SortedSets}
=============================================================================
