-------------------------------- MODULE Roster --------------------------------
(***************************************************************************)
(* The roster of prototype-minimal (app.js): a pasted text is parsed into  *)
(* date blocks with numbered player slots, the signed-in user joins and    *)
(* leaves a block with its card, and the text is rewritten from the        *)
(* blocks.  A line is a date line, a player line with its slot, or any     *)
(* other line; a slot is free, or holds a name as typed or with the        *)
(* " (app)" suffix.  Numbers and spelling are left out: they are the       *)
(* line's position and follow from it.                                     *)
(*                                                                         *)
(* A sign-in (Vault.tla) sets the user before it awaits the password       *)
(* manager and renders after it, so the page may show the old user's cards *)
(* for a while.  A Mutant is a plausible bug in the definition after it;   *)
(* no action uses one.                                                     *)
(***************************************************************************)
EXTENDS Naturals, FiniteSets, Sequences, SequencesExt

CONSTANTS
    Person,     \* the people who sign in
    NoUser,     \* nobody signed in; also the name in a free slot
    Paper       \* bound: the texts that are pasted, the empty one among them

ASSUME PersonAssumption == NoUser \notin Person

Slots == [name : Person \cup {NoUser}, app : BOOLEAN]
Free == [name |-> NoUser, app |-> FALSE]
Line == [kind : {"date", "player", "other"}, slot : Slots]

ASSUME PaperAssumption == <<>> \in Paper /\ Paper \subseteq Seq(Line)

VARIABLES
    lines,      \* state.parsed.lines: the pasted text
    blocks,     \* state.parsed.blocks
    user,       \* state.username
    shown       \* the user at the last render(), whose cards are on screen

rosterVars == <<lines, blocks, user, shown>>

(***************************************************************************)
(* parseRoster: a block runs from its date line to the next one; start and *)
(* stop are its first and last player line (0 when it has none).           *)
(***************************************************************************)
InOrder(S) ==
    [k \in 1 .. Cardinality(S) |-> CHOOSE i \in S : Cardinality({j \in S : j < i}) = k - 1]

Dates(text) == InOrder({i \in DOMAIN text : text[i].kind = "date"})

BlockLines(text, i) ==
    LET dates == Dates(text)
        next == IF i < Len(dates) THEN dates[i + 1] ELSE Len(text) + 1
    IN {j \in dates[i] + 1 .. next - 1 : text[j].kind = "player"}

ParseRoster(text) ==
    [i \in DOMAIN Dates(text) |->
        LET at == InOrder(BlockLines(text, i))
        IN [start   |-> IF at = <<>> THEN 0 ELSE Head(at),
            stop    |-> IF at = <<>> THEN 0 ELSE Last(at),
            players |-> [j \in DOMAIN at |-> text[at[j]].slot]]]

PlayerLines(players) == [j \in DOMAIN players |-> [kind |-> "player", slot |-> players[j]]]

\* Mutant: the rewritten slots take the place of as many lines as there are
\* players now, not of the lines that were there.
SpliceByCount(b, out) ==
    IF b.start = 0 THEN out
    ELSE SubSeq(out, 1, b.start - 1) \o PlayerLines(b.players)
             \o SubSeq(out, b.start + Len(b.players), Len(out))

\* What stood between the first and the last player line is replaced.
Splice(b, out) ==
    IF b.start = 0 THEN out
    ELSE SubSeq(out, 1, b.start - 1) \o PlayerLines(b.players)
             \o SubSeq(out, b.stop + 1, Len(out))

\* Back to front, so that earlier positions stay valid.
RenderRoster(text, bs) ==
    LET out[n \in 0 .. Len(bs)] ==
            IF n = 0 THEN text ELSE Splice(bs[Len(bs) + 1 - n], out[n - 1])
    IN out[Len(bs)]

(***************************************************************************)
(* The slots of the signed-in user.                                        *)
(***************************************************************************)
IsSameUser(slot, u) == slot.name = u
IsUserIn(b, u) == u # NoUser /\ \E j \in DOMAIN b.players : IsSameUser(b.players[j], u)
Tagged(u) == [name |-> u, app |-> TRUE]

Put(b, u, slot) ==
    [b EXCEPT !.players = [j \in DOMAIN @ |-> IF IsSameUser(@[j], u) THEN slot ELSE @[j]]]

NormalizeUserSlots(bs, u) ==
    IF u = NoUser THEN bs ELSE [i \in DOMAIN bs |-> Put(bs[i], u, Tagged(u))]

\* Mutant: with no free slot left, the last one is taken over.
AddUserTakesLast(b, u) ==
    LET free == SelectInSeq(b.players, LAMBDA s : s = Free)
    IN IF free > 0 THEN [b EXCEPT !.players[free] = Tagged(u)]
       ELSE IF b.players # <<>> THEN [b EXCEPT !.players[Len(b.players)] = Tagged(u)]
       ELSE [b EXCEPT !.players = <<Tagged(u)>>]

AddUser(b, u) ==
    LET free == SelectInSeq(b.players, LAMBDA s : s = Free)
    IN IF free > 0 THEN [b EXCEPT !.players[free] = Tagged(u)]
       ELSE [b EXCEPT !.players = Append(@, Tagged(u))]

RemoveUser(b, u) == Put(b, u, Free)

(***************************************************************************)
(* Handlers.  Each of them ends in render(), which normalises the blocks.  *)
(***************************************************************************)
Render(bs, u) == blocks' = NormalizeUserSlots(bs, u) /\ shown' = u

Ingest(text) ==
    /\ lines' = text
    /\ Render(ParseRoster(text), user)
    /\ UNCHANGED user

\* The cards of the first two blocks; disabled while nobody is shown.
Toggle(i) ==
    LET b == blocks[i]
    IN /\ i \in DOMAIN blocks /\ i <= 2
       /\ shown # NoUser /\ user # NoUser
       /\ Render([blocks EXCEPT ![i] = IF IsUserIn(b, user) THEN RemoveUser(b, user)
                                                            ELSE AddUser(b, user)], user)
       /\ UNCHANGED <<lines, user>>

\* Signing in sets the user and renders later; signing out renders at once.
SetUser(u) == user' = u /\ UNCHANGED <<lines, blocks, shown>>

Rerender == Render(blocks, user) /\ UNCHANGED <<lines, user>>

SignOut == user' = NoUser /\ shown' = NoUser /\ UNCHANGED <<lines, blocks>>

RosterInit == lines = <<>> /\ blocks = <<>> /\ user = NoUser /\ shown = NoUser

RosterNext ==
    \/ \E text \in Paper : Ingest(text)
    \/ \E i \in 1 .. 2 : Toggle(i)
    \/ \E u \in Person : SetUser(u)
    \/ Rerender
    \/ SignOut

RosterSpec == RosterInit /\ [][RosterNext]_rosterVars

(***************************************************************************)
(* Properties.                                                             *)
(***************************************************************************)
RosterTypeOK ==
    /\ lines \in Seq(Line)
    /\ \A i \in DOMAIN blocks : /\ blocks[i].players \in Seq(Slots)
                                /\ blocks[i].start \in Nat /\ blocks[i].stop \in Nat
    /\ user \in Person \cup {NoUser} /\ shown \in Person \cup {NoUser}

Attendees(bs) ==
    [i \in DOMAIN bs |-> {bs[i].players[j].name : j \in DOMAIN bs[i].players} \ {NoUser}]
ReadAttendees(text) == Attendees(ParseRoster(text))

Group == INSTANCE Attendance WITH
             Read <- ReadAttendees, paper <- lines, me <- user, going <- Attendees(blocks)

\* Pressing a card changes the attendance of the signed-in user in that block
\* and of nobody else, and renders, sign-ins and sign-outs change nobody's,
\* whatever mixture of typed and tagged names the list holds (app.js 632-686).
KeepsAttendance == Group!Spec

Others(text) ==
    LET at == InOrder({j \in DOMAIN text : text[j].kind # "player"})
    IN [k \in DOMAIN at |-> text[at[k]]]

Contiguous(text, i) ==
    \A j, k \in BlockLines(text, i) : \A l \in j .. k : l \in BlockLines(text, i)

\* The text handed back says what the cards say: parsing it again gives the
\* players of every block that had a player line, and when no other line
\* stands between two players of a block, every other line survives (the
\* comments of app.js 614-616 and 667-672; a block with a gap, or without a
\* slot, is where they do not hold).
TextSaysWhatCardsSay ==
    LET out == RenderRoster(lines, blocks)
        again == ParseRoster(out)
    IN /\ DOMAIN again = DOMAIN blocks
       /\ \A i \in DOMAIN blocks :
             blocks[i].start > 0 => again[i].players = blocks[i].players
       /\ (\A i \in DOMAIN blocks : Contiguous(lines, i)) =>
             Others(out) = Others(lines)

=============================================================================
