----------------------------- MODULE ConfigSearch -----------------------------
(***************************************************************************)
(* Where upki's configuration comes from (upki/src/lib.rs):                *)
(* ConfigPath::new decides on a path, Config::from_file_or_user_default    *)
(* reads the file there or makes up a default configuration.               *)
(*                                                                         *)
(* The search asks the file system one question after another, each with a *)
(* system call of its own, while files and directories come and go.  The   *)
(* programs that search (CommandLine, ServerVerifier) say what comes next. *)
(***************************************************************************)
EXTENDS Naturals

CONSTANTS
    Procs,       \* processes that load a configuration
    Dirs,        \* the cache directories, the two default ones among them
    Named,       \* the cache directories that a configuration file may name
    Datasets,    \* what a cache directory may hold
    Certs,       \* the certificates that are presented
    Says,        \* Says[s][c]: Index::check of certificate c with dataset s
    Missing,     \* there is no usable index.bin in the directory
    NoDir,       \* the directory does not exist
    Absent,      \* the file does not exist
    Bad,         \* the file cannot be read, or does not parse
    Hosts,       \* the machines to begin with: [conf, cache]
    MaxChanges,  \* bound on changes from outside
    MaxRuns      \* bound on loaded configurations

UserCache == "user cache"
SystemCache == "system cache"
\* The user's file, the system's file, and one named by the caller.
Files == {"user", "system", "given"}
Host == [conf : [Files -> Named \cup {Absent, Bad}],
         cache : [Dirs -> Datasets \cup {Missing, NoDir}]]

\* A certificate is a record of what webpki finds: does it chain to a root, is
\* it valid for the name, and how do its SCTs parse.
CertFacts == [path : BOOLEAN, name : BOOLEAN, scts : {"none", "some", "malformed"}]
RevocationStatus == {"NotRevoked", "NotCoveredByRevocationData", "CertainlyRevoked"}

ASSUME DataAssumption ==
    /\ Certs \subseteq CertFacts /\ Certs # {}
    /\ Says \in [Datasets -> [Certs -> RevocationStatus]]
ASSUME HostAssumption ==
    /\ {UserCache, SystemCache} \cup Named \subseteq Dirs
    /\ {Absent, Bad} \cap Dirs = {} /\ {Missing, NoDir} \cap Datasets = {}
    /\ Hosts \subseteq Host
    /\ MaxChanges \in Nat /\ MaxRuns \in Nat

VARIABLES
    conf,      \* conf[f]: the cache-dir that the file f sets
    cache,     \* cache[d]: what is in the cache directory d
    changes,   \* how many changes came from outside
    runs,      \* how many configurations were loaded
    proc       \* proc[p]: the process p

host == <<conf, cache, changes>>

Exists(f) == conf[f] # Absent
DirExists(d) == cache[d] # NoDir
Usable(d) == cache[d] \in Datasets

IdleProc == [pc |-> "idle", cmd |-> "none", in |-> Absent, given |-> FALSE,
             path |-> "none", config |-> "none", from |-> "none", snap |-> Missing, exit |-> "none"]
SearchInit ==
    /\ \E h \in Hosts : conf = h.conf /\ cache = h.cache
    /\ changes = 0
    /\ runs = 0
    /\ proc = [p \in Procs |-> IdleProc]

(***************************************************************************)
(* The outside: somebody edits a file, the cache is filled, replaced,      *)
(* emptied or removed.                                                     *)
(***************************************************************************)
EditConfig ==
    /\ changes < MaxChanges
    /\ changes' = changes + 1
    /\ \E f \in Files, v \in Named \cup {Absent, Bad} :
         v # conf[f] /\ conf' = [conf EXCEPT ![f] = v]
    /\ UNCHANGED <<cache, runs, proc>>
CacheChanges ==
    /\ changes < MaxChanges
    /\ changes' = changes + 1
    /\ \E d \in Dirs, s \in Datasets \cup {Missing, NoDir} :
         s # cache[d] /\ cache' = [cache EXCEPT ![d] = s]
    /\ UNCHANGED <<conf, runs, proc>>

(***************************************************************************)
(* ConfigPath::new                                                         *)
(***************************************************************************)
Exit(e) == [IdleProc EXCEPT !.exit = e]

\* A path given by the caller is taken as it is.
Search(p, cmd, in, given) ==
    /\ proc[p].pc = "idle"
    /\ runs < MaxRuns
    /\ runs' = runs + 1
    /\ proc' = [proc EXCEPT ![p] = [IdleProc EXCEPT
                  !.pc = IF given THEN "chosen" ELSE "user",
                  !.path = IF given THEN "given" ELSE "none",
                  !.cmd = cmd, !.in = in, !.given = given]]
    /\ UNCHANGED host

\* project_dirs() fails without a home directory; the user's file comes first.
\* Mutant: the system's does.
ProbeSystemFirst(p) ==
    /\ proc[p].pc = "user"
    /\ \/ proc' = [proc EXCEPT ![p] = Exit("1")]
       \/ /\ Exists("system")
          /\ proc' = [proc EXCEPT ![p].pc = "chosen", ![p].path = "system"]
       \/ /\ ~Exists("system")
          /\ proc' = [proc EXCEPT ![p].pc = "chosen", ![p].path = "user"]
    /\ UNCHANGED <<host, runs>>
ProbeUser(p) ==
    /\ proc[p].pc = "user"
    /\ \/ proc' = [proc EXCEPT ![p] = Exit("1")]
       \/ /\ Exists("user")
          /\ proc' = [proc EXCEPT ![p].pc = "chosen", ![p].path = "user"]
       \/ /\ ~Exists("user")
          /\ proc' = [proc EXCEPT ![p].pc = "system"]
    /\ UNCHANGED <<host, runs>>

ProbeSystem(p) ==
    /\ proc[p].pc = "system"
    /\ proc' = [proc EXCEPT ![p].pc = "chosen",
                            ![p].path = IF Exists("system") THEN "system" ELSE "user"]
    /\ UNCHANGED <<host, runs>>

(***************************************************************************)
(* Config::from_file_or_user_default, from_file and try_default            *)
(***************************************************************************)
\* A default path may have no file (any more); a given one is just read.
ProbeChosen(p) ==
    /\ proc[p].pc = "chosen"
    /\ proc' = [proc EXCEPT ![p].pc =
                  IF proc[p].path = "given" \/ Exists(proc[p].path)
                  THEN "read" ELSE "user_cache"]
    /\ UNCHANGED <<host, runs>>

Found(p, d, f) == [proc EXCEPT ![p].pc = "found", ![p].config = d, ![p].from = f]

ReadConfig(p) ==
    /\ proc[p].pc = "read"
    /\ proc' = IF conf[proc[p].path] \in {Absent, Bad}
               THEN [proc EXCEPT ![p] = Exit("1")]
               ELSE Found(p, conf[proc[p].path], proc[p].path)
    /\ UNCHANGED <<host, runs>>

ProbeUserCache(p) ==
    /\ proc[p].pc = "user_cache"
    /\ proc' = IF DirExists(UserCache) THEN Found(p, UserCache, "default")
               ELSE [proc EXCEPT ![p].pc = "system_cache"]
    /\ UNCHANGED <<host, runs>>

ProbeSystemCache(p) ==
    /\ proc[p].pc = "system_cache"
    /\ proc' = Found(p, IF DirExists(SystemCache) THEN SystemCache ELSE UserCache,
                     "default")
    /\ UNCHANGED <<host, runs>>

SearchStep(p) ==
    \/ ProbeUser(p) \/ ProbeSystem(p) \/ ReadConfig(p)
    \/ ProbeUserCache(p) \/ ProbeSystemCache(p)
    \/ proc[p].cmd # "show-config-path" /\ ProbeChosen(p)
===============================================================================
