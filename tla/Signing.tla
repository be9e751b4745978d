------------------------------- MODULE Signing -------------------------------
(***************************************************************************)
(* prototype-certificate (app.js): the steps of signing a message, each    *)
(* behind a button that the steps before it enable.  Every step but        *)
(* "encode" awaits WebCrypto; runStep disables the button while it does    *)
(* and enables it afterwards, and the other buttons, the two selects and   *)
(* "Reset all" stay usable meanwhile.  What a step prints is left out, and *)
(* so is the outcome of a verification.  A Mutant is a plausible bug in    *)
(* the definition after it; no action uses one.                            *)
(***************************************************************************)
EXTENDS Naturals, FiniteSets

CONSTANTS
    Algo,       \* what the two selects may say
    NoKey,
    MaxSteps    \* bound: steps that run at the same time

ASSUME AlgoAssumption == NoKey \notin Algo

Awaited == {"gen", "exportPub", "exportPriv", "hash", "sign", "verify", "tamper"}
Button == Awaited \cup {"encode"}

VARIABLES
    focuses,    \* does a click focus a button in this browser?
    algo,       \* sigAlgo.value and hashAlgo.value
    keyPair,    \* the algorithm the key was generated for
    messageBytes,
    signature,
    enabled,    \* the enabled buttons
    running,    \* the steps that run, with the algorithm they were started for
    raced       \* history: was there a reset while a step ran?

signingVars == <<focuses, algo, keyPair, messageBytes, signature, enabled, running, raced>>

\* Does a step find what it needs?  One that does not fails before its await.
Able(s) ==
    CASE s = "gen" -> TRUE
      [] s \in {"exportPub", "exportPriv"} -> keyPair # NoKey
      [] s = "hash" -> messageBytes
      [] s = "sign" -> keyPair # NoKey /\ messageBytes
      [] OTHER -> keyPair # NoKey /\ messageBytes /\ signature

\* runStep up to its await: a button is disabled when it has the focus.  The
\* bound leaves out a second step of a kind that runs already.
Press(s) ==
    /\ s \in enabled /\ Able(s) /\ Cardinality(running) < MaxSteps
    /\ [step |-> s, spec |-> algo] \notin running
    /\ running' = running \cup {[step |-> s, spec |-> algo]}
    /\ enabled' = IF focuses THEN enabled \ {s} ELSE enabled
    /\ UNCHANGED <<focuses, algo, keyPair, messageBytes, signature, raced>>

\* The finally block of runStep, and the buttons the step enables.
Enable(a, more) ==
    enabled' = enabled \cup more \cup (IF focuses THEN {a.step} ELSE {})

\* Mutant: a new key enables "sign", message or not.
GeneratedSigns(a) ==
    /\ keyPair' = a.spec
    /\ Enable(a, {"exportPub", "exportPriv", "sign"})
    /\ UNCHANGED <<messageBytes, signature>>

Generated(a) ==
    /\ keyPair' = a.spec
    /\ Enable(a, {"exportPub", "exportPriv"} \cup (IF messageBytes THEN {"sign"} ELSE {}))
    /\ UNCHANGED <<messageBytes, signature>>

\* The page signs with the algorithm that the selects said when the key came:
\* a key of another hash signs with it, one of another kind fails.
Signed(a) ==
    /\ signature' = TRUE
    /\ Enable(a, {"verify", "tamper"})
    /\ UNCHANGED <<keyPair, messageBytes>>

Shown(a) == Enable(a, {}) /\ UNCHANGED <<keyPair, messageBytes, signature>>

\* A step ends; when it failed, nothing but its button changes.
StepEnds(a) ==
    /\ running' = running \ {a}
    /\ \/ a.step = "gen" /\ Generated(a)
       \/ a.step = "sign" /\ Signed(a)
       \/ Shown(a)
    /\ UNCHANGED <<focuses, algo, raced>>

\* TextEncoder does not wait for anything.
Encode8 ==
    /\ "encode" \in enabled
    /\ messageBytes' = TRUE
    /\ enabled' = enabled \cup {"hash"} \cup (IF keyPair # NoKey THEN {"sign"} ELSE {})
    /\ UNCHANGED <<focuses, algo, keyPair, signature, running, raced>>

\* Nothing stops the steps that run: they write their results afterwards.
Reset ==
    /\ keyPair' = NoKey
    /\ messageBytes' = FALSE /\ signature' = FALSE
    /\ enabled' = enabled \cap {"gen", "encode"}
    /\ raced' = (raced \/ running # {})

PressReset == Reset /\ UNCHANGED <<focuses, algo, running>>

AlgoChange(a) ==
    /\ a # algo /\ algo' = a
    /\ IF keyPair # NoKey
       THEN Reset
       ELSE UNCHANGED <<keyPair, messageBytes, signature, enabled, raced>>
    /\ UNCHANGED <<focuses, running>>

SigningInit ==
    /\ focuses \in BOOLEAN /\ algo \in Algo
    /\ keyPair = NoKey
    /\ messageBytes = FALSE /\ signature = FALSE
    /\ enabled = {"gen", "encode"}
    /\ running = {} /\ raced = FALSE

SigningNext ==
    \/ \E s \in Awaited : Press(s)
    \/ \E a \in running : StepEnds(a)
    \/ \E a \in Algo : AlgoChange(a)
    \/ Encode8 \/ PressReset

SigningSpec == SigningInit /\ [][SigningNext]_signingVars

(***************************************************************************)
(* Properties.                                                             *)
(***************************************************************************)
SigningTypeOK ==
    /\ focuses \in BOOLEAN /\ algo \in Algo
    /\ keyPair \in Algo \cup {NoKey}
    /\ messageBytes \in BOOLEAN /\ signature \in BOOLEAN
    /\ enabled \subseteq Button
    /\ running \subseteq [step : Awaited, spec : Algo]
    /\ raced \in BOOLEAN

Ready(b) ==
    CASE b \in {"gen", "encode"} -> TRUE
      [] b \in {"exportPub", "exportPriv"} -> keyPair # NoKey
      [] b = "hash" -> messageBytes
      [] b = "sign" -> keyPair # NoKey /\ messageBytes
      [] OTHER -> signature

\* As long as nothing is reset under a running step, every button tells the
\* state: it is enabled only when what its step reads is there, and it is
\* enabled then, unless its own step runs.  Two steps enable "sign", in either
\* order, and any number may run at once (app.js 125-147, 151-222, 280-300).
ButtonsTellState ==
    ~raced => \A b \in Button :
        /\ b \in enabled => Ready(b)
        /\ Ready(b) => b \in enabled \/ \E a \in running : a.step = b

=============================================================================
