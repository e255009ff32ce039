----------------------------- MODULE RemoteServer -----------------------------
(***************************************************************************)
(* The life of the embedded web server: a thread that the session starts,  *)
(* watches for five seconds until it listens, and at the end asks to exit  *)
(* and joins for five seconds.                                             *)
(***************************************************************************)

VARIABLES
    thread,     \* the server thread: "none", "starting", "listening", "ended"
    watch,      \* what the session thread waits for: "none", "start", "exit"
    held,       \* Repl._remote_server is set
    exitAsked,  \* uvicorn's should_exit
    givenUp     \* history: waits for the thread that ran out

serverVars == <<thread, watch, held, exitAsked, givenUp>>

ServerInit ==
    /\ thread = "none" /\ watch = "none"
    /\ held = FALSE /\ exitAsked = FALSE /\ givenUp = {}

StartThread ==
    /\ thread = "none"
    /\ thread' = "starting" /\ watch' = "start"
    /\ UNCHANGED <<held, exitAsked, givenUp>>

\* _run: uvicorn binds the socket, at any time, or cannot.
Listens ==
    /\ thread = "starting"
    /\ thread' = "listening"
    /\ UNCHANGED <<watch, held, exitAsked, givenUp>>

CannotListen ==
    /\ thread = "starting"
    /\ thread' = "ended"
    /\ UNCHANGED <<watch, held, exitAsked, givenUp>>

\* start returns True only for a server seen listening, and only then the
\* session keeps it.
SeenListening ==
    /\ watch = "start" /\ thread = "listening"
    /\ watch' = "none" /\ held' = TRUE
    /\ UNCHANGED <<thread, exitAsked, givenUp>>

SeenEnded ==
    /\ watch = "start" /\ thread = "ended"
    /\ watch' = "none"
    /\ UNCHANGED <<thread, held, exitAsked, givenUp>>

\* Five seconds are over; the thread is not told, and may listen afterwards.
StartGivenUp ==
    /\ watch = "start"
    /\ watch' = "none"
    /\ givenUp' = givenUp \cup {"start"}
    /\ UNCHANGED <<thread, held, exitAsked>>

\* stop, for a server that is held.
AskExit ==
    /\ held /\ watch = "none"
    /\ held' = FALSE /\ exitAsked' = TRUE
    /\ watch' = IF thread = "ended" THEN "none" ELSE "exit"
    /\ UNCHANGED <<thread, givenUp>>

Exits ==
    /\ exitAsked /\ thread = "listening"
    /\ thread' = "ended"
    /\ UNCHANGED <<watch, held, exitAsked, givenUp>>

Joined ==
    /\ watch = "exit" /\ thread = "ended"
    /\ watch' = "none"
    /\ UNCHANGED <<thread, held, exitAsked, givenUp>>

JoinGivenUp ==
    /\ watch = "exit"
    /\ watch' = "none"
    /\ givenUp' = givenUp \cup {"exit"}
    /\ UNCHANGED <<thread, held, exitAsked>>

\* Steps of the server's thread, and of the session thread that waits for it.
ServerWorld == Listens \/ CannotListen \/ Exits
Watches == SeenListening \/ SeenEnded \/ StartGivenUp \/ Joined \/ JoinGivenUp

ServerTypeOK ==
    /\ thread \in {"none", "starting", "listening", "ended"}
    /\ watch \in {"none", "start", "exit"}
    /\ held \in BOOLEAN /\ exitAsked \in BOOLEAN
    /\ givenUp \subseteq {"start", "exit"}
    /\ held => thread \in {"listening", "ended"}

=============================================================================
