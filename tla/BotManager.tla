----------------------------- MODULE BotManager -----------------------------
(***************************************************************************)
(* The lifecycle of the Telegram bot, bot/manager.go.                      *)
(*                                                                         *)
(* current is the goroutine whose generation is m.generation, None once    *)
(* stopLocked has moved the generation on.  A goroutine that was cancelled *)
(* returns some time later, perhaps when another one is running.           *)
(***************************************************************************)
EXTENDS Integers, FiniteSets

CONSTANTS
    Tasks,  \* bot goroutines
    Off,    \* settings without a token or a chat, and no bot
    None

VARIABLES
    bot,        \* settings of m.bot
    running, current,
    alive, cancelled

botVars == <<bot, running, current, alive, cancelled>>

InitBot ==
    /\ bot = Off /\ running = FALSE /\ current = None
    /\ alive = {} /\ cancelled = {}

(* The contexts cancelled once stopLocked has run. *)
stopLocked == cancelled \cup (alive \cap {current})

BotStop ==
    /\ cancelled' = stopLocked
    /\ current' = None
    /\ bot' = Off
    /\ running' = FALSE
    /\ UNCHANGED alive

(* The candidate was built and is ready: only now is the old bot cancelled.  *)
BotStart(settings, t) ==
    /\ t \notin alive
    /\ cancelled' = stopLocked
    /\ alive' = alive \cup {t}
    /\ current' = t
    /\ bot' = settings
    /\ running' = TRUE

(* Apply that succeeds. *)
BotApply(settings) ==
    IF settings = Off THEN BotStop ELSE \E t \in Tasks : BotStart(settings, t)

(* Settings without token and chat are not validated and cannot fail. *)
BotApplyFails(settings) == settings # Off /\ UNCHANGED botVars

isCurrent_Any(t) == TRUE

isCurrent(t) == current = t

(* The goroutine returns: cancelled, or because polling stopped. *)
BotExits(t) ==
    /\ t \in alive
    /\ alive' = alive \ {t}
    /\ cancelled' = cancelled \ {t}
    /\ IF isCurrent(t)
       THEN bot' = Off /\ running' = FALSE /\ current' = None
       ELSE UNCHANGED <<bot, running, current>>

(* The process dies with its goroutines. *)
BotDies ==
    /\ bot' = Off /\ running' = FALSE /\ current' = None
    /\ alive' = {} /\ cancelled' = {}

(* At most one bot polls Telegram, and the manager reports exactly it as     *)
(* running, although replaced bots return late: the generation check of      *)
(* bot/manager.go:110.                                                       *)
OneBot ==
    /\ Cardinality(alive \ cancelled) <= 1
    /\ running <=> alive \ cancelled # {}
=============================================================================
