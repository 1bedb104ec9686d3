----------------------------- MODULE SyncAgent -----------------------------
(***************************************************************************)
(* The start of the program: main() and create_daemon_process()            *)
(* (src/src/agent/sync_agent.c), the reading of the configuration          *)
(* (sync_config.c, property_read() of eproperty.c), over the containers    *)
(* and the log.                                                            *)
(* A line is a record of its key and its value; a list value is the        *)
(* sequence of its elements between commas, of which Empty may be one, and *)
(* an entry of subscribe_path is [host, paths], with NoKey for the host of *)
(* an entry without a ':'.  Names of paths, hosts and addresses are Keys.  *)
(* malloc() may fail where the code looks at its result or goes on without *)
(* harm; where it follows the NULL the process ends there, which is out of *)
(* the model.                                                              *)
(***************************************************************************)
EXTENDS SimpleSet, HashMap, Elog

CONSTANTS
  Files,          \* the configuration files
  Empty,          \* the key that is the empty string
  HashmapNodes,   \* HASHMAP_NODES, scaled down
  HostIps         \* the addresses get_ip() may return

ASSUME AgentAssumption ==
  /\ Empty \in Keys /\ HostIps \subseteq Keys
  /\ Rows(HashmapNodes) \in Nat \ {0}

(* The lists of a file are lists of names. *)
ASSUME FilesAssumption ==
  \A f \in Files :
    /\ Len(f) \in Nat /\ DOMAIN f = 1..Len(f)
    /\ \A i \in 1..Len(f) :
         /\ f[i].key \in {"watch_path", "server_list"} => f[i].val \in Seq(Keys)
         /\ f[i].key = "subscribe_path" =>
              f[i].val \in Seq([host : Keys \cup {NoKey}, paths : Seq(Keys)])

VARIABLES
  agent,          \* the process: program counter, file, config, result ...
  std             \* where its standard streams lead: "tty" or "null"

agentVars == <<agent, std, lg>>

Unset == NoKey

(* bzero(config) *)
NewConfig ==
  [daemon |-> FALSE, log_level |-> LOG_LEVEL_DEBUG, log_dst |-> "console",
   log_file |-> Unset, mode |-> Unset, port |-> Unset, watch_path |-> Unset,
   watch_set |-> Unset, subscribe_path |-> Unset, subscribe_map |-> Unset,
   server_list |-> Unset]

(* A loop of set_add(), whose result is not looked at. *)
AddAllKeys(s, ks, fails) ==
  LET turn[i \in 0..Len(ks)] ==
        IF i = 0 THEN s ELSE SetAdd(turn[i - 1], ks[i], ks[i] \in fails).set
  IN turn[Len(ks)]

(* watch_set_handler(): an element per comma and one after the last. *)
WatchSet(elements, fails) == AddAllKeys(EmptySet, elements, fails)

(* Mutant: the paths of a host that comes again are not added. *)
SubscribeEntryOnce(t, e, fails) ==
  HashmapAdd(t, e.host, AddAllKeys(EmptySet, e.paths, fails), e.host \in fails).t

(* One turn of the loop of subscribe_map_handler(): the set of the host is  *)
(* extended where it is, and hashmap_add() then finds the host present.     *)
(* The result of hashmap_add() is not looked at either.                     *)
SubscribeEntry(t, e, fails) ==
  IF Found(t, e.host)
  THEN LET s == AddAllKeys(t.data[e.host], e.paths, fails)
       IN [HashmapAdd(t, e.host, s, FALSE).t EXCEPT !.data[e.host] = s]
  ELSE HashmapAdd(t, e.host, AddAllKeys(EmptySet, e.paths, fails), e.host \in fails).t

SubscribeMap(entries, fails) ==
  LET turn[i \in 0..Len(entries)] ==
        IF i = 0 THEN HashmapNew(HashmapNodes)
        ELSE SubscribeEntry(turn[i - 1], entries[i], fails)
  IN turn[Len(entries)]

(* strstr() finds no ':' in an entry, or only that of a later one, so that  *)
(* a length is negative: a SIGSEGV in strncpy().                            *)
Unsplit(line) ==
  line.key = "subscribe_path" /\ \E i \in DOMAIN line.val : line.val[i].host = NoKey

(* The lines whose value is copied first; without memory they are refused.  *)
Copied == {"log_file", "mode", "watch_path", "subscribe_path"}

ListKeys == {"watch_path", "subscribe_path", "server_list"}

(* The values sync_config_item_handler() takes; it knows no other key.      *)
(* log_level_int() gives -1, which is refused, for what is no level.        *)
Takes(line) ==
  CASE line.key = "daemon" -> line.val \in {"yes", "no"}
    [] line.key = "log_level" -> line.val \in LOG_LEVEL_DEBUG..LOG_LEVEL_ERROR
    [] line.key = "log_dst" -> line.val \in {"console", "file"}
    [] line.key \in {"log_file", "mode", "port", "watch_path", "subscribe_path",
                     "server_list"} -> TRUE
    [] OTHER -> FALSE

(* Its assignments; a path value of no characters leaves the set of an      *)
(* earlier line.                                                            *)
ConfigItem(c, line, fails) ==
  CASE line.key = "daemon" -> [c EXCEPT !.daemon = line.val = "yes"]
    [] line.key = "watch_path" /\ line.val # <<Empty>> ->
         [c EXCEPT !.watch_path = line.val, !.watch_set = WatchSet(line.val, fails)]
    [] line.key = "subscribe_path" /\ line.val # <<>> ->
         [c EXCEPT !.subscribe_path = line.val, !.subscribe_map = SubscribeMap(line.val, fails)]
    [] line.key = "server_list" -> [c EXCEPT !.server_list = WatchSet(line.val, fails)]
    [] OTHER -> [c EXCEPT ![line.key] = line.val]

----------------------------------------------------------------------------
(* result: the result of property_read() so far, at: the line it is at.     *)
(* session: whether create_daemon_process() has called setsid(). short is   *)
(* history: the names whose additions have failed, or might have.           *)
AgentInit ==
  /\ \E f \in Files, ip \in HostIps :
       agent = [pc |-> "args", file |-> f, at |-> 1, result |-> FALSE,
                config |-> Unset, ip |-> ip, status |-> 0, session |-> FALSE,
                short |-> {}]
  /\ std = [d \in 0..2 |-> "tty"]
  /\ ElogInit

To(pc) == agent' = [agent EXCEPT !.pc = pc]

ExitWith(n) == agent' = [agent EXCEPT !.pc = "done", !.status = n]

(* parse_args(): -v and -h exit, an unknown option returns -1. *)
ParseArgs ==
  /\ agent.pc = "args"
  /\ To("load") \/ ExitWith(0) \/ ExitWith(-1)
  /\ UNCHANGED <<std, lg>>

(* sync_config_load() up to the loop of property_read(): stat(), malloc()   *)
(* or fopen() may fail.                                                     *)
LoadConfig ==
  /\ agent.pc = "load"
  /\ \/ agent' = [agent EXCEPT !.pc = "read", !.config = NewConfig]
     \/ ExitWith(-1)
  /\ UNCHANGED <<std, lg>>

(* A turn of that loop: blank lines and comments leave result as it is, a   *)
(* line the handler refuses ends it. No signal handler is installed yet.    *)
ReadLine ==
  /\ agent.pc = "read" /\ agent.at <= Len(agent.file)
  /\ LET line == agent.file[agent.at]
     IN \/ line.key = "comment" /\ agent' = [agent EXCEPT !.at = @ + 1]
        \/ /\ line.key # "comment"
           /\ Takes(line) => line.key \in Copied
           /\ agent' = [agent EXCEPT !.at = Len(agent.file) + 1, !.result = FALSE]
        \/ /\ Takes(line) /\ ~Unsplit(line)
           /\ \E fails \in Failing :
                /\ line.key \notin ListKeys => fails = {}
                /\ agent' = [agent EXCEPT !.at = @ + 1, !.result = TRUE,
                                          !.config = ConfigItem(@, line, fails),
                                          !.short = @ \cup fails]
        \/ Takes(line) /\ Unsplit(line) /\ ExitWith(139)
  /\ UNCHANGED <<std, lg>>

(* The end of the file: without result the configuration is freed.          *)
ReadEnd ==
  /\ agent.pc = "read" /\ agent.at > Len(agent.file)
  /\ IF agent.result THEN To("log")
     ELSE agent' = [agent EXCEPT !.pc = "done", !.status = -1, !.config = Unset]
  /\ UNCHANGED <<std, lg>>

(* log_set_level() and, for a file, log_set_file(): open() of a NULL name   *)
(* fails.                                                                   *)
SetLog ==
  /\ agent.pc = "log"
  /\ LET l == LogSetLevel(lg, agent.config.log_level)
     IN \E ok \in BOOLEAN :
          /\ ok => agent.config.log_file # Unset
          /\ IF agent.config.log_dst = "file"
             THEN lg' = LogSetFile(l, ok) /\ IF ok THEN To("daemon") ELSE ExitWith(-1)
             ELSE lg' = l /\ To("daemon")
  /\ UNCHANGED std

(* Mutant: the check of the last dup2() is missing. *)
DaemonSkipsLast ==
  /\ agent.pc = "daemon" /\ agent.config.daemon
  /\ \E n \in 0..6 :
       /\ std' = [d \in 0..2 |-> IF n >= d + 4 THEN "null" ELSE "tty"]
       /\ agent' = [agent EXCEPT !.session = n >= 2, !.status = IF n < 5 THEN -1 ELSE 0,
                                 !.pc = IF n < 5 THEN "done" ELSE "mode"]
  /\ UNCHANGED lg

(* create_daemon_process() in the child, the parent has freed its copy and  *)
(* left: n of its steps succeed - fork(), setsid(), open() and one dup2()   *)
(* per stream - and main() returns when one does not.                       *)
CreateDaemon ==
  /\ agent.pc = "daemon" /\ agent.config.daemon
  /\ \E n \in 0..6 :
       /\ std' = [d \in 0..2 |-> IF n >= d + 4 THEN "null" ELSE "tty"]
       /\ agent' = [agent EXCEPT !.session = n >= 2, !.status = IF n < 6 THEN -1 ELSE 0,
                                 !.pc = IF n < 6 THEN "done" ELSE "mode"]
  /\ UNCHANGED lg

StayForeground ==
  /\ agent.pc = "daemon" /\ ~agent.config.daemon
  /\ To("mode")
  /\ UNCHANGED <<std, lg>>

(* strcasecmp(mode, "server") == 0 || set_contains(server_list, ip) *)
IsServer(c, ip) ==
  c.mode # "server" => SetContains(c.server_list, ip) = SET_TRUE

(* The choice of the mode. get_ip() may fail, which aborts; a NULL mode, or *)
(* a NULL list that is looked at, is followed, and the SIGSEGV handler that *)
(* install_signals() has just set exits with 0.                             *)
ChooseMode ==
  /\ agent.pc = "mode"
  /\ LET c == agent.config
         crash == c.mode = Unset \/ (c.mode # "server" /\ c.server_list = Unset)
     IN \/ ExitWith(134)
        \/ crash /\ ExitWith(0)
        \/ ~crash /\ IsServer(c, agent.ip) /\ To("server")
        \/ ~crash /\ ~IsServer(c, agent.ip) /\ To("client")
  /\ UNCHANGED <<std, lg>>

(* sync_client_run() prints a line; sync_server_run() is SyncServer. *)
RunClient == agent.pc = "client" /\ ExitWith(0) /\ UNCHANGED <<std, lg>>

AgentNext ==
  \/ ParseArgs \/ LoadConfig \/ ReadLine \/ ReadEnd \/ SetLog
  \/ CreateDaemon \/ StayForeground \/ ChooseMode \/ RunClient

AgentSpec == AgentInit /\ [][AgentNext]_agentVars

----------------------------------------------------------------------------
Loaded == agent.pc \in {"log", "daemon", "mode", "server", "client"}

(* The lines that say something, and of the first n the last of its key. *)
Counts(line) ==
  /\ line.key # "comment"
  /\ line.key = "watch_path" => line.val # <<Empty>>
  /\ line.key = "subscribe_path" => line.val # <<>>

IsLast(f, n, i) ==
  /\ i \in 1..n /\ Counts(f[i])
  /\ \A j \in i + 1..n : f[j].key = f[i].key => ~Counts(f[j])

(* The paths of a host in the entries of subscribe_path. *)
PathsOf(v, h) == UNION {Range(v[i].paths) : i \in {j \in DOMAIN v : v[j].host = h}}

(* What a line says of a configuration, but for the names in short.         *)
Agrees(c, line, short) ==
  CASE line.key = "daemon" -> c.daemon = (line.val = "yes")
    [] line.key = "server_list" ->
         IsBetween(Range(line.val) \ short, c.server_list, Range(line.val))
    [] line.key = "watch_path" ->
         IsBetween(Range(line.val) \ short, c.watch_set, Range(line.val))
    [] line.key = "subscribe_path" ->
         LET m == c.subscribe_map.data
             hosts == {line.val[i].host : i \in DOMAIN line.val}
         IN /\ hosts \ short \subseteq DOMAIN m /\ DOMAIN m \subseteq hosts
            /\ \A h \in DOMAIN m :
                 IsBetween(IF h \in short THEN {} ELSE PathsOf(line.val, h) \ short,
                         m[h], PathsOf(line.val, h))
    [] OTHER -> c[line.key] = line.val

(* The key of the lines that set a field. *)
SetBy(field) ==
  CASE field = "watch_set" -> "watch_path"
    [] field = "subscribe_map" -> "subscribe_path"
    [] OTHER -> field

(* A configuration is in use only if every line of its file is one that the *)
(* handler takes, there is at least one, and no entry of subscribe_path is  *)
(* without a ':' (the process has died of it); and it says what the file    *)
(* says: of each key the last line, the elements of the lists as sets, for  *)
(* a host all the paths of all its entries, and nothing for a key without a *)
(* line. Only the names whose addition found no memory may be missing from  *)
(* the lists, silently: the handlers look at no result of set_add() and     *)
(* hashmap_add(). What sync_config.h:28 says of log_dst, "the console, a    *)
(* file and syslog", is not claimed: a line that asks for syslog is refused *)
(* (sync_config.c:129-132).                                                 *)
ConfigIsFile ==
  Loaded =>
    LET f == agent.file
        c == agent.config
    IN /\ \A i \in 1..Len(f) : f[i].key = "comment" \/ (Takes(f[i]) /\ ~Unsplit(f[i]))
       /\ \E i \in 1..Len(f) : f[i].key # "comment"
       /\ \A i \in 1..Len(f) : IsLast(f, Len(f), i) => Agrees(c, f[i], agent.short)
       /\ \A field \in DOMAIN NewConfig :
            (\A i \in 1..Len(f) : f[i].key # SetBy(field)) => c[field] = NewConfig[field]

(* When the process takes its side, the log has the level and the file it   *)
(* was told to have, and a daemon has its own session and none of the       *)
(* terminal's streams, so that a log on the console is lost.               *)
StartsAsConfigured ==
  agent.pc \in {"server", "client"} =>
    LET c == agent.config
    IN /\ lg.level = c.log_level
       /\ c.log_dst = "file" => lg.fds[lg.fd] = "log"
       /\ c.log_dst = "console" => lg.fd = STDOUT_FILENO
       /\ c.daemon => agent.session /\ \A d \in 0..2 : std[d] = "null"
       /\ ~c.daemon => \A d \in 0..2 : std[d] = "tty"

(* conf/sync_server.conf:13 and sync_config.h:30: "the working mode of the  *)
(* agent (server|client)"; and sync_agent.c:341 has an error for any other. *)
SideIsMode == agent.pc \in {"server", "client"} => agent.pc = agent.config.mode
=============================================================================
