------------------------------ MODULE MCKeyspace ------------------------------
(***************************************************************************)
(* Small instances of Keyspace: the commands, and every database with       *)
(* bounded values.                                                          *)
(***************************************************************************)
EXTENDS Keyspace

CONSTANTS MaxLen,    \* bound on the length of a list before the command
          k1, k2, v1, v2

Cmd(op, ks, vs, n, m) == [op |-> op, keys |-> ks, vals |-> vs, n |-> n, m |-> m]
Each(ops, keyss, valss, ns) ==
    {Cmd(op, ks, vs, n, 0) : op \in ops, ks \in keyss, vs \in valss, n \in ns}

Pairs == {<<k1, k2>>, <<k2, k1>>, <<k1, k1>>}

\* Every command of the server, on one, two or three key arguments.
AllCommands ==
         Each({"LPOP", "RPOP", "LLEN", "SCARD", "SMEMBERS", "TYPE"}, {<<k1>>}, {<<>>}, {0})
    \cup Each({"LPUSH", "RPUSH", "LPUSHX", "RPUSHX", "SADD", "SREM"},
              {<<k1>>}, {<<v1>>, <<v1, v2>>}, {0})
    \cup Each({"LINDEX"}, {<<k1>>}, {<<>>}, {-1, 1})
    \cup Each({"LSET"}, {<<k1>>}, {<<v1>>}, {-1, 1})
    \cup Each({"LREM"}, {<<k1>>}, {<<v1>>}, {-1, 0, 1})
    \cup Each({"LINSERT"}, {<<k1>>}, {<<v1, v2>>}, {-1, 1})
    \cup Each({"LRANGE", "LTRIM"}, {<<k1>>}, {<<>>}, {0, 1})
    \cup Each({"BLPOP", "BRPOP", "DEL", "EXISTS"}, {<<k1>>, <<k2, k1>>}, {<<>>}, {0})
    \cup Each({"RPOPLPUSH", "BRPOPLPUSH", "RENAME", "RENAMENX"}, Pairs, {<<>>}, {0})
    \cup Each({"SMOVE"}, Pairs, {<<v1>>}, {0})
    \cup Each({"SDIFF", "SINTER", "SUNION"}, Pairs, {<<>>}, {0})
    \cup Each({"SDIFFSTORE", "SINTERSTORE", "SUNIONSTORE"},
              {<<k1, k1, k2>>, <<k1, k2>>, <<k2, k2, k1>>}, {<<>>}, {0})
    \cup Each({"SISMEMBER"}, {<<k1>>}, {<<v1>>}, {0})
    \cup {Cmd("KEYS", ks, <<>>, 0, m) : ks \in {<<k1>>, <<k2, k1>>}, m \in {0, 1}}
    \cup {Cmd("SSCAN", <<k1>>, <<v1>>, n, m) : n \in {0, 1}, m \in {0, 1}}
    \cup {Cmd("SCAN", <<k1>>, <<>>, n, m) : n \in {0, 1}, m \in {0, 1}}
    \cup {Cmd(op, <<k1>>, <<>>, n, m) : op \in {"SPOP", "SRANDMEMBER"},
                                        n \in {-1, 0, 1, 2}, m \in {0, 1}}
    \cup {Cmd("SPOP", <<k1>>, <<>>, 0, 2)}
    \cup Each({"MOVE"}, {<<k1>>}, {<<>>}, {0, 1})
    \cup Each({"RANDOMKEY", "DBSIZE", "FLUSHDB", "FLUSHALL", "UNWATCH"}, {<<>>}, {<<>>}, {0})

\* The commands with indexes and counts, on all ints.
IndexCommands ==
         {Cmd(op, <<k1>>, <<>>, n, m) : op \in {"LRANGE", "LTRIM"}, n \in Int64, m \in Int64}
    \cup Each({"LREM", "LSET"}, {<<k1>>}, {<<v1>>}, Int64)
    \cup Each({"LINSERT"}, {<<k1>>}, {<<v1, v2>>, <<v2, v2>>}, {-1, 1})

\* The methods of the Go API.
MethodCalls ==
         Each({"List", "Lpop", "Pop", "Members", "Del", "Type", "Exists"}, {<<k1>>}, {<<>>}, {0})
    \cup Each({"Lpush", "IsMember"}, {<<k1>>}, {<<v1>>}, {0})
    \cup Each({"Push", "SetAdd", "SRem"}, {<<k1>>}, {<<>>, <<v1>>, <<v1, v2>>}, {0})
    \cup Each({"Keys"}, {<<k1, k2>>}, {<<>>}, {0})
    \cup Each({"FlushDB", "FlushAll"}, {<<k1>>}, {<<>>}, {0})

EveryCommand == AllCommands \cup IndexCommands \cup MethodCalls

ListsOf(n) == [1..n -> Val]

\* The contents of a key: absent, a list, a set; the empty ones included.
Contents ==
         {<<"", Nil, Nil>>}
    \cup {<<"list", l, Nil>> : l \in ListsOf(0) \cup ListsOf(1) \cup ListsOf(2)}
    \cup {<<"set", Nil, s>> : s \in SUBSET Val}

FewContents == {<<"", Nil, Nil>>, <<"list", <<v1>>, Nil>>, <<"set", Nil, {v1}>>}
Absent      == [k \in Key |-> <<"", Nil, Nil>>]

\* Version 4 can be reached with any contents: by pushes, LSETs, SADDs and a DEL
\* or an SDIFFSTORE.
With(f) == [keys       |-> [k \in Key |-> f[k][1]],
            listKeys   |-> [k \in Key |-> f[k][2]],
            setKeys    |-> [k \in Key |-> f[k][3]],
            keyVersion |-> [k \in Key |-> 4]]

\* Database 0 holds any two of these things, the others the same thing under each
\* key; or database 0 holds one long list.
AnyStart ==
         {[d \in DB |-> With(IF d = 0 THEN f ELSE [k \in Key |-> g])] :
             f \in [Key -> Contents], g \in FewContents}
    \cup {[d \in DB |-> With(IF d = 0 THEN [Absent EXCEPT ![k1] = <<"list", l, Nil>>]
                             ELSE Absent)] :
             l \in UNION {ListsOf(n) : n \in 3..MaxLen}}
=============================================================================
