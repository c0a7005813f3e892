--------------------------- MODULE Configuration ---------------------------
(***************************************************************************)
(* The way of a change of the configuration: from the file, through the    *)
(* watcher, or from a command over IPC or the menu, to the configuration   *)
(* actor (actor/config.rs), which commits it and tells the reactor, which  *)
(* tells the stack line, the menu bar and the window manager controller,   *)
(* which tells the event tap and the gesture tap.  Every party is a thread *)
(* or a task of its own and keeps a copy.  The actor, the reactor and the  *)
(* controller have queues; nothing depends on when the others, who only    *)
(* listen, adopt what they are sent, so they do it at once.                *)
(***************************************************************************)
EXTENDS Naturals, Sequences, SequencesExt

CONSTANTS Keys,         \* what [keys] may hold
          Settings,     \* the settings that the taps and the user interface read
          Contents,     \* what the user may write to the file
          Changes,      \* what a command may set
          MaxEdits,     \* bound: changes of the file, ...
          MaxCommands,  \* bound: ... commands over IPC and from the menu, ...
          MaxInputs,    \* bound: ... and both together
          None

(* What is told apart of a configuration: key bindings, a setting, whether *)
(* the title patterns of its rules compile, and settings.hot_reload.       *)
Configs == [keys : Keys, setting : Settings, compiles : BOOLEAN, hot : BOOLEAN]
Default == [keys |-> CHOOSE k \in Keys : TRUE, setting |-> CHOOSE s \in Settings : TRUE,
            compiles |-> TRUE, hot |-> TRUE]

(* The watcher's states are no key bindings, and what a command sets makes *)
(* a configuration of a configuration.                                     *)
ConfigurationAssumption ==
    /\ Keys # {} /\ Settings # {} /\ Keys \cap {"idle", "reload", "refresh"} = {}
    /\ Contents \subseteq Configs \cup {None} /\ None \notin Configs
    /\ \A change \in Changes, c \in Configs : change @@ c \in Configs

Taps    == {"event_tap", "gesture_tap"}
Panels  == {"stack_line", "menu"}
Keepers == Taps \cup Panels \cup {"config", "reactor", "wm"}

VARIABLES
    file,       \* the configuration file; None when it cannot be parsed or validated
    changed,    \* a debounced notification is on its way to the watcher
    watcher,    \* what the watcher waits for
    enabled,    \* ConfigWatcher.enabled
    asks,       \* the configuration actor's queue
    answers,    \* its answers that were not taken yet
    config,     \* each party's copy of the configuration
    inbox,      \* the queues of the reactor and of the controller
    wmKnown,    \* the reactor has handled RegisterWmSender
    installed,  \* hotkeys_installed
    hotkeys,    \* the bindings that the event tap has
    request,    \* the IPC request the main thread is blocked on
    told,       \* history: what the requests were told, in order
    done,       \* history: the requests that took effect
    edits,      \* changes of the file so far
    fresh,      \* history: no command has changed the configuration since the file did
    early       \* history: bindings changed before the controller was known

watching == <<changed, watcher, enabled>>
parties  == <<config, inbox, wmKnown, installed, hotkeys, early>>
asking   == <<request, told>>
vars     == <<file, watching, asks, answers, parties, asking, done, edits, fresh>>

(* What goes to the queues.  Requests are numbered from 1; the watcher's   *)
(* own have 0.                                                             *)
Ask(from, kind) == [from |-> from, kind |-> kind, change |-> <<>>]
Updated(c) == [kind |-> "updated", config |-> c]
Register   == [kind |-> "register", config |-> None]

Init ==
    /\ file = Default
    /\ changed = FALSE /\ watcher = "idle" /\ enabled = TRUE
    /\ asks = <<>> /\ answers = <<>>
    /\ config = [p \in Keepers |-> Default]
    /\ inbox = [p \in {"reactor", "wm"} |-> <<>>]
    /\ wmKnown = FALSE /\ installed = FALSE /\ hotkeys = None
    /\ request = 0 /\ told = <<>> /\ done = {}
    /\ edits = 0 /\ fresh = TRUE /\ early = FALSE

Number     == Len(told) + 1
MoreInputs == edits + Number <= MaxInputs

-----------------------------------------------------------------------------
(* The user and the watcher.                                               *)

(* A file may be written in several steps, and be broken in between.       *)
Edit(content) ==
    /\ edits < MaxEdits /\ MoreInputs /\ content # file
    /\ file' = content
    /\ changed' = TRUE /\ edits' = edits + 1 /\ fresh' = TRUE
    /\ UNCHANGED <<watcher, enabled, asks, answers, parties, asking, done>>

(* A notification: with hot reloading the watcher asks for a reload; else  *)
(* it reads the file, and asks for the current bindings first.             *)
Notice ==
    /\ watcher = "idle" /\ changed
    /\ changed' = FALSE
    /\ IF ~enabled /\ file = None THEN UNCHANGED <<watcher, asks>>
       ELSE /\ watcher' = IF enabled THEN "reload" ELSE file.keys
            /\ asks' = Append(asks, Ask(0, IF enabled THEN "reload" ELSE "query"))
    /\ UNCHANGED <<file, enabled, answers, parties, asking, done, edits, fresh>>

Reply == Head(answers)
Heard(from) ==
    /\ answers # <<>> /\ Reply.to = from
    /\ answers' = Tail(answers)
    /\ UNCHANGED <<file, changed, parties, asking, done, edits, fresh>>

(* Only new bindings justify a reload without hot reloading.               *)
Compare ==
    /\ watcher \in Keys /\ Heard(0)
    /\ IF Reply.config.keys # watcher
       THEN watcher' = "reload" /\ asks' = Append(asks, Ask(0, "reload"))
       ELSE watcher' = "idle" /\ UNCHANGED asks
    /\ UNCHANGED enabled

(* A reload that worked is followed by a query, ...                        *)
Reloaded ==
    /\ watcher = "reload" /\ Heard(0)
    /\ IF Reply.ok THEN watcher' = "refresh" /\ asks' = Append(asks, Ask(0, "query"))
       ELSE watcher' = "idle" /\ UNCHANGED asks
    /\ UNCHANGED enabled

(* ... which tells whether the next change is to be reloaded.              *)
Refresh ==
    /\ watcher = "refresh" /\ Heard(0)
    /\ enabled' = Reply.config.hot
    /\ watcher' = "idle"
    /\ UNCHANGED asks

-----------------------------------------------------------------------------
(* Commands: over IPC, where the main thread is blocked until the answer   *)
(* comes or five seconds are over, and a reload from the menu, whose       *)
(* answer nobody waits for.                                                *)
Command(kind, change) ==
    /\ request = 0 /\ Number <= MaxCommands /\ MoreInputs
    /\ request' = Number
    /\ asks' = Append(asks, [Ask(Number, kind) EXCEPT !.change = change])
    /\ UNCHANGED <<file, watching, answers, parties, told, done, edits, fresh>>

Menu ==
    /\ request = 0 /\ Number <= MaxCommands /\ MoreInputs
    /\ told' = Append(told, "nothing")
    /\ asks' = Append(asks, Ask(Number, "reload"))
    /\ UNCHANGED <<file, watching, answers, parties, request, done, edits, fresh>>

(* An answer goes to the continuation of its own request, and one that     *)
(* comes after the time was up finds nobody.                               *)
Awaited(answer) == answer.to = request

Hear ==
    /\ answers # <<>> /\ Reply.to # 0
    /\ answers' = Tail(answers)
    /\ IF request # 0 /\ Awaited(Reply)
       THEN request' = 0 /\ told' = Append(told, IF Reply.ok THEN "ok" ELSE "error")
       ELSE UNCHANGED asking
    /\ UNCHANGED <<file, watching, asks, parties, done, edits, fresh>>

Timeout ==
    /\ request # 0
    /\ request' = 0 /\ told' = Append(told, "timeout")
    /\ UNCHANGED <<file, watching, asks, answers, parties, done, edits, fresh>>

-----------------------------------------------------------------------------
(* The configuration actor: handle_config_command.  Nothing is committed   *)
(* but a configuration that was validated, which a file that counts as     *)
(* readable here is.  validate() does not compile the title patterns.      *)
Made(ask) ==
    CASE ask.kind = "reload" -> file
      [] ask.kind = "set" -> ask.change @@ config["config"]
      [] OTHER -> config["config"]

Commits(ask) == ask.kind \in {"reload", "set"} /\ Made(ask) # None

Act ==
    /\ asks # <<>>
    /\ asks' = Tail(asks)
    /\ LET ask == Head(asks)
       IN  /\ IF Commits(ask)
              THEN /\ config' = [config EXCEPT !["config"] = Made(ask)]
                   /\ inbox' = [inbox EXCEPT !["reactor"] = Append(@, Updated(Made(ask)))]
              ELSE UNCHANGED <<config, inbox>>
           /\ IF ask.kind = "save" THEN file' = config["config"] /\ changed' = TRUE
              ELSE UNCHANGED <<file, changed>>
           /\ answers' = Append(answers, [to |-> ask.from, ok |-> Made(ask) # None, config |-> Made(ask)])
           /\ done' = IF Made(ask) = None THEN done ELSE done \cup {ask.from}
           /\ fresh' = (fresh /\ ask.kind # "set")
    /\ UNCHANGED <<watcher, enabled, wmKnown, installed, hotkeys, early, asking, edits>>

-----------------------------------------------------------------------------
(* Those who follow.                                                       *)
Following == UNCHANGED <<file, watching, asks, answers, asking, done, edits, fresh>>

(* main() tells the reactor of the controller when the configuration actor *)
(* and the watcher are running already.                                    *)
StartUp ==
    /\ ~wmKnown /\ Register \notin ToSet(inbox["reactor"])
    /\ inbox' = [inbox EXCEPT !["reactor"] = Append(@, Register)]
    /\ UNCHANGED <<config, wmKnown, installed, hotkeys, early>> /\ Following

Take(p, kind) == inbox[p] # <<>> /\ Head(inbox[p]).kind = kind
Passed(p, to) ==
    [q \in DOMAIN inbox |-> IF q = p THEN Tail(inbox[q])
                            ELSE IF q \in to THEN Append(inbox[q], Head(inbox[p])) ELSE inbox[q]]

Introduce ==
    /\ Take("reactor", "register")
    /\ wmKnown' = TRUE
    /\ inbox' = Passed("reactor", {})
    /\ UNCHANGED <<config, installed, hotkeys, early>> /\ Following

(* Mutant of Told: the bindings are compared after the new ones are kept.  *)
FaultyTold(new) == {}

(* handle_config_updated tells the panels of every change, and the         *)
(* controller only of new bindings.                                        *)
Told(new) == IF new.keys # config["reactor"].keys /\ wmKnown THEN {"wm"} ELSE {}
Adopted(by, new) == [p \in Keepers |-> IF p \in by THEN new ELSE config[p]]

ConfigUpdated ==
    /\ Take("reactor", "updated")
    /\ LET new == Head(inbox["reactor"]).config
       IN  IF new.compiles
           THEN /\ config' = Adopted({"reactor"} \cup Panels, new)
                /\ inbox' = Passed("reactor", Told(new))
                /\ early' = (early \/ (~wmKnown /\ new.keys # config["reactor"].keys))
           ELSE inbox' = Passed("reactor", {}) /\ UNCHANGED <<config, early>>
    /\ UNCHANGED <<wmKnown, installed, hotkeys>> /\ Following

(* The controller passes it on, and the bindings when they are new; before *)
(* AppEventsRegistered it leaves those for later.                          *)
WmUpdated ==
    /\ Take("wm", "updated")
    /\ LET new == Head(inbox["wm"]).config
       IN  /\ config' = Adopted({"wm"} \cup Taps, new)
           /\ hotkeys' = IF installed /\ new.keys # config["wm"].keys THEN new.keys ELSE hotkeys
    /\ inbox' = Passed("wm", {})
    /\ UNCHANGED <<wmKnown, installed, early>> /\ Following

AppEventsRegistered ==
    /\ ~installed
    /\ installed' = TRUE /\ hotkeys' = config["wm"].keys
    /\ UNCHANGED <<config, inbox, wmKnown, early>> /\ Following

Next ==
    \/ \E content \in Contents : Edit(content)
    \/ Notice \/ Compare \/ Reloaded \/ Refresh
    \/ \E kind \in {"reload", "save"} : Command(kind, <<>>)
    \/ \E change \in Changes : Command("set", change)
    \/ Menu \/ Hear \/ Timeout \/ Act
    \/ StartUp \/ Introduce \/ ConfigUpdated \/ WmUpdated \/ AppEventsRegistered

Spec == Init /\ [][Next]_vars

-----------------------------------------------------------------------------
Settled ==
    /\ ~changed /\ watcher = "idle" /\ asks = <<>> /\ request = 0 /\ installed /\ wmKnown
    /\ \A p \in DOMAIN inbox : inbox[p] = <<>>

(* Once all is quiet the reactor has the last configuration that compiles, *)
(* the panels have the reactor's, and the event tap has its bindings,      *)
(* unless they changed before the controller was known.                    *)
EveryoneFollows ==
    Settled =>
        /\ config["config"].compiles => config["reactor"] = config["config"]
        /\ \A p \in Panels : config[p] = config["reactor"]
        /\ \/ hotkeys = config["reactor"].keys
           \/ early

(* A change of the file is taken over however it meets the reload of an    *)
(* earlier one, if hot reloading was on all the time and no command has    *)
(* set something since.                                                    *)
FileIsLoaded ==
    Settled /\ fresh /\ enabled /\ config["config"].hot /\ file # None => config["config"] = file

(* A request that was told of success took effect, and one that was told   *)
(* of an error did not, whatever requests before it ran out of time.       *)
TheTruthIsTold ==
    \A n \in DOMAIN told : (told[n] = "ok" => n \in done) /\ (told[n] = "error" => n \notin done)

(* What does not hold: the taps have the settings that the reactor has,    *)
(* ...                                                                     *)
TapsFollow == Settled => \A p \in Taps : config[p] = config["reactor"]

(* ... the watcher knows whether hot reloading is on, ...                  *)
WatcherFollows == Settled => enabled = config["config"].hot

(* ... and what was committed is used.                                     *)
CommittedIsUsed == Settled => config["reactor"] = config["config"]
=============================================================================
