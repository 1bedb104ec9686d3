-------------------------------- MODULE Elog --------------------------------
(***************************************************************************)
(* The log (src/src/core/base/elog.c) and its syslog back end (esyslog.c): *)
(* a level, a destination, a file descriptor and a datagram socket, in a   *)
(* process whose other parts open and close descriptors too.  The kernel   *)
(* gives the lowest free descriptor.  The text of a line is left out.      *)
(***************************************************************************)
EXTENDS Integers, FiniteSetsExt

CONSTANTS
  MaxFd,          \* bound: descriptors are 0..MaxFd
  LevelArgs       \* the arguments of log_set_level()

ASSUME ElogAssumption == MaxFd \in Nat /\ MaxFd >= 3 /\ LevelArgs \subseteq Int

VARIABLE lg       \* the statics of elog.c and esyslog.c, and the descriptors

STDOUT_FILENO == 1
LOG_LEVEL_DEBUG == 0
LOG_LEVEL_INFO == 1
LOG_LEVEL_WARN == 2
LOG_LEVEL_ERROR == 3

(* fds: who holds a descriptor.  lost is history: a log_set_file() has      *)
(* closed log_fd and then failed.                                           *)
ElogStart ==
  [level |-> LOG_LEVEL_INFO, fd |-> STDOUT_FILENO, dst |-> "console",
   sock |-> -1, facility |-> FALSE,
   fds |-> [d \in 0..MaxFd |-> IF d <= 2 THEN "std" ELSE "free"],
   lost |-> FALSE]

FreeFd(fds) == {d \in DOMAIN fds : fds[d] = "free"}

Opened(fds, who) == [fds EXCEPT ![Min(FreeFd(fds))] = who]

(* Mutant: the old file is left open. *)
LogSetFileLeaks(l, ok) ==
  IF ~ok THEN l
  ELSE [l EXCEPT !.fds = Opened(@, "log"), !.fd = Min(FreeFd(l.fds)), !.dst = "file"]

(* log_set_file(): the old file is closed first, whatever log_fd says; ok   *)
(* is whether the new one opens, and the result.                            *)
LogSetFile(l, ok) ==
  LET c == IF l.fd # STDOUT_FILENO THEN [l EXCEPT !.fds[l.fd] = "free"] ELSE l
  IN IF ok
     THEN [c EXCEPT !.fds = Opened(@, "log"), !.fd = Min(FreeFd(c.fds)), !.dst = "file"]
     ELSE [c EXCEPT !.lost = @ \/ l.fd # STDOUT_FILENO]

SyslogOutcomes == {"arguments", "socket", "facility", "ok"}

(* syslog_open(): 0 for a missing argument, -1 when the socket cannot be    *)
(* made or the facility is refused (the socket is made by then).            *)
SyslogOpen(l, how) ==
  CASE how = "arguments" -> l
    [] how = "socket" -> [l EXCEPT !.sock = -1]
    [] OTHER -> [l EXCEPT !.sock = Min(FreeFd(l.fds)), !.fds = Opened(@, "socket"),
                          !.facility = @ \/ how = "ok"]

(* log_set_syslog(): -1 passes for success. *)
LogSetSyslog(l, how) ==
  LET o == SyslogOpen(l, how)
  IN IF how = "arguments" THEN o ELSE [o EXCEPT !.dst = "syslog"]

SyslogClose(l) ==
  IF l.sock < 0 THEN l ELSE [l EXCEPT !.fds[l.sock] = "free", !.sock = -1]

(* log_close(): the destination is kept. *)
LogClose(l) ==
  IF l.dst = "syslog" THEN SyslogClose(l)
  ELSE IF l.fd < 3 THEN l
  ELSE [l EXCEPT !.fds[l.fd] = "free", !.fd = STDOUT_FILENO]

(* Mutant: the argument is stored only while the old level is the lowest. *)
LogSetLevelOnce(l, n) == IF l.level > LOG_LEVEL_DEBUG THEN l ELSE [l EXCEPT !.level = n]

(* log_set_level(): it is the old level that is brought into range. *)
LogSetLevel(l, n) ==
  IF l.level < LOG_LEVEL_DEBUG THEN [l EXCEPT !.level = LOG_LEVEL_DEBUG]
  ELSE IF l.level > LOG_LEVEL_ERROR THEN [l EXCEPT !.level = LOG_LEVEL_ERROR]
  ELSE [l EXCEPT !.level = n]

(* syslog_write(): where the datagram goes and the result; sent is whether  *)
(* sendto() succeeds.                                                       *)
SyslogWrite(l, sent) ==
  IF l.sock < 0 \/ ~sent THEN [to |-> "dropped", ret |-> 0]
  ELSE [to |-> l.fds[l.sock], ret |-> 1]

(* log_by_level(): where a line goes, a descriptor, or that it is dropped,  *)
(* and the result; sent is whether write() or sendto() takes it.  The       *)
(* result of write() is not looked at.                                      *)
LogByLevel(l, level, sent) ==
  CASE level < l.level -> [to |-> "dropped", ret |-> 1]
    [] level >= l.level /\ l.dst = "syslog" -> SyslogWrite(l, sent)
    [] OTHER -> [to |-> IF sent THEN l.fds[l.fd] ELSE "dropped", ret |-> 1]

log_debug(l, sent) == LogByLevel(l, LOG_LEVEL_DEBUG, sent)
log_info(l, sent) == LogByLevel(l, LOG_LEVEL_INFO, sent)
log_warn(l, sent) == LogByLevel(l, LOG_LEVEL_WARN, sent)
log_error(l, sent) == LogByLevel(l, LOG_LEVEL_ERROR, sent)

----------------------------------------------------------------------------
ElogInit == lg = ElogStart

ElogSetFile == \E ok \in BOOLEAN :
  /\ ok => FreeFd(lg.fds) # {}
  /\ lg' = LogSetFile(lg, ok)

(* A second syslog_open() forgets the first socket. *)
ElogSetSyslog == \E how \in SyslogOutcomes :
  /\ how \in {"facility", "ok"} => FreeFd(lg.fds) # {}
  /\ lg' = LogSetSyslog(lg, how)

ElogClose == lg' = LogClose(lg)

ElogSetLevel == \E n \in LevelArgs : lg' = LogSetLevel(lg, n)

OtherOpens == FreeFd(lg.fds) # {} /\ lg' = [lg EXCEPT !.fds = Opened(@, "other")]

OtherCloses == \E d \in 0..MaxFd :
  lg.fds[d] = "other" /\ lg' = [lg EXCEPT !.fds[d] = "free"]

ElogNext ==
  \/ ElogSetFile \/ ElogSetSyslog \/ ElogClose \/ ElogSetLevel
  \/ OtherOpens \/ OtherCloses

ElogSpec == ElogInit /\ [][ElogNext]_lg

----------------------------------------------------------------------------
(* log_fd is the only file the log holds, at any time: none is leaked.  As  *)
(* long as no log_set_file() has failed after closing its file, the log     *)
(* closes only what it opened, through every change of the destination, and *)
(* a line of any of the four calls goes to what the log holds or nowhere,   *)
(* never to a descriptor of another part of the program.  A result of 0     *)
(* means that the line went nowhere; 1 does not mean that it went anywhere, *)
(* whatever elog.h:66-67 says, because elog.c:139 and the four others look  *)
(* at no result of write().                                                 *)
LogKeepsItsDescriptors ==
  /\ \A d \in 0..MaxFd : lg.fds[d] = "log" => d = lg.fd
  /\ ~lg.lost =>
       /\ lg.fds[lg.fd] \in {"std", "log"}
       /\ lg.sock >= 0 => lg.fds[lg.sock] = "socket"
       /\ \A sent \in BOOLEAN :
            \A w \in {log_debug(lg, sent), log_info(lg, sent), log_warn(lg, sent),
                       log_error(lg, sent)} :
              /\ w.to \in {"std", "log", "socket", "dropped"}
              /\ w.ret = 0 => w.to = "dropped"
=============================================================================
