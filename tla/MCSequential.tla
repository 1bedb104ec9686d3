---------------------------- MODULE MCSequential ----------------------------
(* The containers, the lines of a file, the log and the start of the        *)
(* program, side by side: none of them runs concurrently with another, so a *)
(* behaviour is one of a part and the others keep their first state.        *)
EXTENDS SyncAgent, HashSet, CfuHash, RbTree, Queues, PropertyLine

CONSTANT Parts    \* the parts of a run

VARIABLE part     \* the part that moves

MCKeyHash == [k \in Keys |-> CASE k = 1 -> 6 [] k = 2 -> 14 [] k = 3 -> 7 [] OTHER -> 3]

MCRowArgs == {-1, -2, -3, 1}

(* Both sides of the boundaries of the buckets and of the tables. *)
MCSizes ==
  UNION {{b - 1, b, b + 1} : b \in
    {1, 2, 3, 4, 5, 8, 16, 64, 1024, 8185, 8192, 8256, 65473, 65536, 66560, 1047552,
     1048576, 1179648, 134086656, 134217728, 135266304, 1072693248, 1073741824,
     2000000000}}

(* Two names find no memory: one is in the middle of a list, one at its end. *)
MCFailing == {{}, {2, 4}}

Line(k, v) == [key |-> k, val |-> v]

Entry(h, ps) == [host |-> h, paths |-> ps]

MCLines ==
  {Line("daemon", "yes"), Line("daemon", "maybe"),
   Line("log_level", 2), Line("log_level", -1),
   Line("log_dst", "file"), Line("log_dst", "syslog"), Line("log_file", "run.log"),
   Line("mode", "server"), Line("mode", "client"), Line("port", 9901),
   Line("watch_path", <<1, 2, 4>>), Line("watch_path", <<4>>), Line("watch_path", <<3>>),
   Line("subscribe_path", <<>>), Line("subscribe_path", <<Entry(1, <<2>>)>>),
   Line("subscribe_path", <<Entry(1, <<2, 3>>), Entry(2, <<1>>), Entry(1, <<3, 4>>)>>),
   Line("subscribe_path", <<Entry(2, <<3>>), Entry(NoKey, <<4>>)>>),
   Line("server_list", <<1, 2>>), Line("server_list", <<4>>),
   Line("comment", ""), Line("color", "red")}

(* A file of the form of conf/sync_server.conf. *)
Conf(daemon, dst, mode, servers) ==
  <<Line("comment", ""), Line("daemon", daemon), Line("log_level", 0), Line("log_dst", dst),
    Line("log_file", "run.log"), Line("mode", mode), Line("port", 9901),
    Line("watch_path", <<1, 2, 3>>),
    Line("subscribe_path", <<Entry(1, <<2>>), Entry(3, <<2, 3>>)>>),
    Line("server_list", servers)>>

(* All files of up to two lines, and whole ones. *)
MCFiles ==
  UNION {[1..n -> MCLines] : n \in 0..2}
  \cup {Conf(d, dst, mode, s) : d \in {"yes", "no"}, dst \in {"console", "file"},
          mode \in {"server", "client", "both"}, s \in {<<1, 2>>, <<3>>}}

Init ==
  /\ part \in Parts
  /\ SetInit /\ HashsetInit /\ CfuInit /\ RbInit /\ QueuesInit /\ LineInit
  /\ IF part = "prime" THEN PrimeInit ELSE nearest = PrimeCalled(2)
  /\ IF part = "hashmap" THEN HmInit ELSE hm = HashmapNew(-1) /\ walk = NoWalk
  /\ IF part = "agent" THEN AgentInit
     ELSE agent = [pc |-> "args", file |-> <<>>] /\ std = <<>> /\ ElogInit

Next ==
  \/ /\ part = "set" /\ SetNext
     /\ UNCHANGED <<part, text, hset, nearest, hmVars, cfu, rbVars, queuesVars, agentVars>>
  \/ /\ part = "hashset" /\ HashsetNext
     /\ UNCHANGED <<part, text, setVars, nearest, hmVars, cfu, rbVars, queuesVars, agentVars>>
  \/ /\ part = "prime" /\ PrimeNext
     /\ UNCHANGED <<part, text, setVars, hset, hmVars, cfu, rbVars, queuesVars, agentVars>>
  \/ /\ part = "hashmap" /\ HmNext
     /\ UNCHANGED <<part, text, setVars, hset, nearest, cfu, rbVars, queuesVars, agentVars>>
  \/ /\ part = "cfuhash" /\ CfuhashNext
     /\ UNCHANGED <<part, text, setVars, hset, nearest, hmVars, rbVars, queuesVars, agentVars>>
  \/ /\ part = "rbtree" /\ RbNext
     /\ UNCHANGED <<part, text, setVars, hset, nearest, hmVars, cfu, queuesVars, agentVars>>
  \/ /\ part = "queues" /\ QueuesNext
     /\ UNCHANGED <<part, text, setVars, hset, nearest, hmVars, cfu, rbVars, agentVars>>
  \/ /\ part = "log" /\ ElogNext
     /\ UNCHANGED <<part, text, setVars, hset, nearest, hmVars, cfu, rbVars, queuesVars, agent, std>>
  \/ /\ part = "agent" /\ AgentNext
     /\ UNCHANGED <<part, text, setVars, hset, nearest, hmVars, cfu, rbVars, queuesVars>>
  \/ /\ part = "line" /\ LineNext
     /\ UNCHANGED <<part, setVars, hset, nearest, hmVars, cfu, rbVars, queuesVars, agentVars>>

vars == <<part, text, setVars, hset, nearest, hmVars, cfu, rbVars, queuesVars, agentVars>>

Spec == Init /\ [][Next]_vars

----------------------------------------------------------------------------
(* Properties for the behaviours of one part: the other parts keep a state  *)
(* that one of those behaviours starts with. The properties of the other    *)
(* parts hold in all states.                                                *)

(* prime_table.c: the number of rows that a size gets is near it, or is     *)
(* none.                                                                    *)
MCNearestPrimeSound == part = "prime" => NearestPrimeSound
=============================================================================
