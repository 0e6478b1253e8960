---------------------------- MODULE PopenRequest ----------------------------
(***************************************************************************)
(* The request that the local scheduler makes of an application, role by   *)
(* role (_to_popen_request of torchx/schedulers/local_scheduler.py): one   *)
(* ReplicaParam per replica of each role, with the paths of its log        *)
(* directory and its error file and with its macros substituted.           *)
(*                                                                         *)
(* A role is a record of its name, image, number of replicas, and whether  *)
(* its env has an entrypoint or sets TORCHELASTIC_ERROR_FILE.  A path is a *)
(* tuple of its components below the log directory of the application.     *)
(***************************************************************************)
EXTENDS Integers, Sequences

AppRoles ==
  [name : STRING, image : STRING, entrypoint : STRING, replicas : Int, errorFile : BOOLEAN]

\* Runner.dryrun: a ValueError for an application that is not one
WellFormed(app) ==
  /\ app # <<>>
  /\ \A i \in DOMAIN app : app[i].entrypoint # "" /\ app[i].replicas > 0

\* LocalDirectoryImageProvider.fetch raises for a relative path and for what
\* is not a directory; DockerImageProvider.fetch takes what docker cannot pull
Fetches(imageType, role) == imageType = "dir" => role.image = "directory"

\* what macros.Values.apply puts for ${replica_id} in the args and the env of a
\* copy of the role
MacroId(role, id) == id

MutantErrorFile(role, id) ==           \* one for all replicas of the role
  IF role.errorFile THEN <<"env", role.name>> ELSE <<role.name, "error.json">>

\* the env of the role comes after, and so over, that of the scheduler
ErrorFile(role, id) ==
  IF role.errorFile THEN <<"env", role.name>> ELSE <<role.name, id, "error.json">>

\* the parameters of one replica; only with a log_dir in the configuration is
\* its output redirected
ReplicaParam(role, id, redirect) ==
  [logDir |-> <<role.name, id>>, id |-> MacroId(role, id),
   errorFile |-> ErrorFile(role, id), redirect |-> redirect]

ReplicaParams(role, redirect) ==
  [k \in 1 .. role.replicas |-> ReplicaParam(role, k - 1, redirect)]

\* role_params and role_log_dirs, as the sequence of their entries: schedule
\* goes through the names in the order in which they were added
Entry(name, params) == [name |-> name, params |-> params]

MutantWithRole(request, role, redirect) ==  \* a role replaces its namesake
  IF \E i \in DOMAIN request : request[i].name = role.name
    THEN [i \in DOMAIN request |->
            IF request[i].name = role.name
              THEN Entry(role.name, ReplicaParams(role, redirect))
              ELSE request[i]]
    ELSE Append(request, Entry(role.name, ReplicaParams(role, redirect)))

\* the request with one more role: setdefault finds the entry of a namesake, and
\* the replicas come after those of it
WithRole(request, role, redirect) ==
  IF \E i \in DOMAIN request : request[i].name = role.name
    THEN [i \in DOMAIN request |->
            IF request[i].name = role.name
              THEN Entry(role.name, request[i].params \o ReplicaParams(role, redirect))
              ELSE request[i]]
    ELSE Append(request, Entry(role.name, ReplicaParams(role, redirect)))
=============================================================================
