--------------------------- MODULE ControlServer ---------------------------
(***************************************************************************)
(* The local control server (daemon/control/ControlServer.cpp): WebSocket  *)
(* connections from control clients, the commands they send, and the      *)
(* heartbeat that pushes the daemon's configuration and state to every    *)
(* connection.                                                             *)
(*                                                                         *)
(* Each handler runs as one step, on the server's io_service.  The        *)
(* heartbeat is a PeriodicProcess, whose source is not in the tree:       *)
(* invoke_post queues one run of send_heartbeat, and invoke_after arms    *)
(* the one timer again, replacing a wait already armed.  A connection is  *)
(* validated, then opened or failed; an open one closes from either side, *)
(* passing through "closing" until the close handler runs.                *)
(*                                                                         *)
(* What a heartbeat carries is abstracted to the globals and the folder   *)
(* set; the id, the JSON layout and the per-folder counters are data.     *)
(***************************************************************************)
EXTENDS Naturals, FiniteSets

CONSTANTS
    Conn,           \* connection handles
    Origin,         \* Origin header values a client may send
    LocalOrigin,    \* those accepted: empty, or host 127.0.0.1, ::1, localhost
    Folder,         \* folder configurations, identified by their secret
    Globals,        \* values of the global configuration
    MaxCommands,    \* commands the clients send in a behaviour
    None

ASSUME LocalOrigin \subseteq Origin /\ MaxCommands \in Nat

\* Every run of send_heartbeat is posted by the constructor, an open, a
\* disconnect, or a folder command, so this bounds the queued runs.
MaxPosts == 1 + 2 * Cardinality(Conn) + MaxCommands

VARIABLES
    conn,       \* per handle: "idle", "validated", "open", "closing", "closed"
    assigned,   \* ws_server_assignment_
    posted,     \* runs of send_heartbeat queued by invoke_post
    timer,      \* the invoke_after wait is armed
    globals,    \* Config globals
    folders,    \* configured folders
    seen,       \* per handle: the last control JSON it was sent, or None
    commands,   \* commands dispatched so far
    running     \* the server is not yet destroyed

vars == <<conn, assigned, posted, timer, globals, folders, seen, commands, running>>

\* make_state_json: the folder groups with their indexing, index counts and
\* peers.  Only which folders are reported is kept.
StateJson == folders

\* make_control_json: the globals, the configured folders and the state.
Reported == [globals |-> globals, folders |-> StateJson]

TypeOK ==
    /\ conn \in [Conn -> {"idle", "validated", "open", "closing", "closed"}]
    /\ assigned \subseteq Conn
    /\ posted \in 0..MaxPosts
    /\ timer \in BOOLEAN
    /\ globals \in Globals /\ folders \subseteq Folder
    /\ seen \in [Conn -> [globals: Globals, folders: SUBSET Folder] \cup {None}]
    /\ commands \in 0..MaxCommands
    /\ running \in BOOLEAN

\* The constructor: listen, start accepting, and invoke_post the heartbeat.
Init ==
    /\ conn = [c \in Conn |-> "idle"]
    /\ assigned = {} /\ posted = 1 /\ timer = FALSE
    /\ globals \in Globals /\ folders = {}
    /\ seen = [c \in Conn |-> None]
    /\ commands = 0 /\ running = TRUE

\* heartbeat_process_.invoke_post().
Post == posted' = posted + 1

-----------------------------------------------------------------------------
\* on_validate: a connection whose Origin is neither empty nor a loopback
\* host is refused; the refused handshake ends in the fail handler.
OnValidate(c, o) ==
    /\ running /\ conn[c] = "idle"
    /\ conn' = [conn EXCEPT ![c] = IF o \in LocalOrigin THEN "validated" ELSE "closing"]
    /\ UNCHANGED <<assigned, posted, timer, globals, folders, seen, commands, running>>

\* on_open: the connection joins ws_server_assignment_ and a heartbeat is
\* posted.
OnOpen(c) ==
    /\ running /\ conn[c] = "validated"
    /\ conn' = [conn EXCEPT ![c] = "open"]
    /\ assigned' = assigned \cup {c}
    /\ Post
    /\ UNCHANGED <<timer, globals, folders, seen, commands, running>>

\* on_disconnect, bound as both the fail and the close handler: the
\* connection leaves ws_server_assignment_ (if it was there) and a heartbeat
\* is posted.  A validated handshake may fail as well.
OnDisconnect(c) ==
    /\ running /\ conn[c] \in {"validated", "closing"}
    /\ conn' = [conn EXCEPT ![c] = "closed"]
    /\ assigned' = assigned \ {c}
    /\ Post
    /\ UNCHANGED <<timer, globals, folders, seen, commands, running>>

\* The client closes its end.
ClientClose(c) ==
    /\ running /\ conn[c] = "open"
    /\ conn' = [conn EXCEPT ![c] = "closing"]
    /\ UNCHANGED <<assigned, posted, timer, globals, folders, seen, commands, running>>

\* The messages a client may send: the three commands, a remove_folder whose
\* secret does not parse, a payload that is not a JSON object, and one with
\* no known command (a parse failure leaves a null value, whose command
\* reads as "").
Message ==
    [kind: {"set_config"}, globals: Globals]
    \cup [kind: {"add_folder", "remove_folder"}, folder: Folder]
    \cup [kind: {"bad_secret", "not_object", "unknown"}]

\* handle_add_folder_json: add_folder_signal, then invoke_post.
HandleAddFolderJson(m) == folders' = folders \cup {m.folder} /\ Post

\* handle_remove_folder_json: Secret(...) throws on a malformed secret;
\* otherwise remove_folder_signal, then invoke_post.
HandleRemoveFolderJson(m) == folders' = folders \ {m.folder} /\ Post

\* dispatch_control_json, for a message that does not throw.  set_config
\* replaces the globals and posts no heartbeat.
DispatchControlJson(m) ==
    \/ m.kind = "set_config" /\ globals' = m.globals /\ UNCHANGED <<folders, posted>>
    \/ m.kind = "add_folder" /\ HandleAddFolderJson(m) /\ UNCHANGED globals
    \/ m.kind = "remove_folder" /\ HandleRemoveFolderJson(m) /\ UNCHANGED globals
    \/ m.kind = "unknown" /\ UNCHANGED <<globals, folders, posted>>

\* on_message: parse and dispatch; an exception (operator[] of a value
\* that is not an object, or Secret's parse) closes the connection with a
\* protocol error.
OnMessage(c, m) ==
    /\ running /\ conn[c] = "open" /\ commands < MaxCommands
    /\ commands' = commands + 1
    /\ \/ m.kind \in {"bad_secret", "not_object"}
          /\ conn' = [conn EXCEPT ![c] = "closing"]
          /\ UNCHANGED <<globals, folders, posted>>
       \/ m.kind \notin {"bad_secret", "not_object"}
          /\ DispatchControlJson(m) /\ UNCHANGED conn
    /\ UNCHANGED <<assigned, timer, seen, running>>

\* Mutant: send_heartbeat without the closing invoke_after.
SendHeartbeatNoReschedule ==
    /\ running /\ (posted > 0 \/ timer)
    /\ \/ posted > 0 /\ posted' = posted - 1 /\ UNCHANGED timer
       \/ timer /\ timer' = FALSE /\ UNCHANGED posted
    /\ seen' = [c \in Conn |-> IF c \in assigned /\ conn[c] = "open" THEN Reported ELSE seen[c]]
    /\ UNCHANGED <<conn, assigned, globals, folders, commands, running>>

\* send_heartbeat, run from a queued post or from the timer: one control
\* JSON, sent to every assigned connection (send on a closing one fails
\* and is ignored), then invoke_after(1 s).
SendHeartbeat ==
    /\ running /\ (posted > 0 \/ timer)
    /\ \/ posted > 0 /\ posted' = posted - 1
       \/ timer /\ UNCHANGED posted
    /\ seen' = [c \in Conn |-> IF c \in assigned /\ conn[c] = "open" THEN Reported ELSE seen[c]]
    /\ timer' = TRUE
    /\ UNCHANGED <<conn, assigned, globals, folders, commands, running>>

\* The destructor: wait for the heartbeat, clear the assignment, stop
\* listening and stop the io_service.
Shutdown ==
    /\ running
    /\ running' = FALSE /\ assigned' = {} /\ posted' = 0 /\ timer' = FALSE
    /\ UNCHANGED <<conn, globals, folders, seen, commands>>

Next ==
    \/ \E c \in Conn : \/ \E o \in Origin : OnValidate(c, o)
                       \/ OnOpen(c) \/ OnDisconnect(c) \/ ClientClose(c)
                       \/ \E m \in Message : OnMessage(c, m)
    \/ SendHeartbeat
    \/ Shutdown
    \/ ~running /\ UNCHANGED vars

\* The io_service keeps running the heartbeat while the server lives; the
\* clients and the destructor are under no obligation.
Spec == Init /\ [][Next]_vars /\ WF_vars(SendHeartbeat)

-----------------------------------------------------------------------------
\* Every open connection is eventually sent the configuration and folders
\* as they then are (the spec's push of the state once per second): a
\* set_config posts no heartbeat of its own, so only send_heartbeat's
\* rescheduling brings it to the clients.
ClientsCatchUp ==
    \A c \in Conn :
        conn[c] = "open" ~> (conn[c] # "open" \/ ~running \/ seen[c] = Reported)

=============================================================================
