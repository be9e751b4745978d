------------------------------- MODULE MqttChat -------------------------------
(***************************************************************************)
(* prototype-mqtt (app.js): one connection to a broker, one AES key, one   *)
(* message to send.  Importing a key and encrypting are awaited, and the   *)
(* user and the broker act while they run; a late result writes to the     *)
(* page as it then is.  What is published, and the pane for incoming       *)
(* messages, are left out: nothing else reads them.                        *)
(*                                                                         *)
(* mqtt.js is external: it reconnects until end() is called, and says      *)
(* nothing between end() and its callback but that the connection closed.  *)
(* A Mutant is a plausible bug in the definition after it; no action uses  *)
(* one.                                                                    *)
(***************************************************************************)
EXTENDS Naturals, FiniteSets

CONSTANTS
    Key,        \* valid keys
    BadKey,     \* a text that is not a key
    Message,    \* texts to send
    Blank,      \* an empty box; also "no key" and "no ciphertext"
    MaxAwaits   \* bound: encryptions and imports that are awaited at a time

ASSUME KeyAssumption == BadKey \notin Key /\ Blank \notin Key \cup Message \cup {BadKey}

BackoffMin == 1
BackoffMax == 30

VARIABLES
    client,     \* is there an mqtt.js client?
    up,         \* client.connected
    ending,     \* client.end() was called; its callback has not
    canConnect, \* btnConnect is enabled
    canEnd,     \* btnDisc is enabled
    backoff,    \* backoffMs, in seconds
    period,     \* options.reconnectPeriod without its jitter, in seconds
    keyBox,     \* the text in the key box
    imports,    \* keys that are being imported
    cryptoKey,
    plain,      \* the text to send
    previews,   \* encryptions for the preview: text and key
    sends,      \* encryptions for send()
    cipher,     \* what the ciphertext box shows an encryption of
    canSend     \* btnSend is enabled

connection == <<client, up, ending, canConnect, canEnd, backoff, period>>
keying == <<keyBox, imports, cryptoKey>>
writing == <<plain, previews, sends, cipher>>
mqttVars == <<connection, keying, writing, canSend>>

Sendable == client /\ up /\ cryptoKey # Blank /\ plain # Blank
UpdateSendButton == canSend' = Sendable'

Awaits == Cardinality(imports) + Cardinality(previews) + Cardinality(sends)

(***************************************************************************)
(* The connection.                                                         *)
(***************************************************************************)
Connect ==
    /\ canConnect /\ ~client
    /\ \/ /\ client' = TRUE /\ up' = FALSE
          /\ canConnect' = FALSE /\ canEnd' = TRUE
          /\ backoff' = BackoffMin /\ period' = BackoffMin
          /\ UNCHANGED ending
       \/ UNCHANGED connection      \* mqtt.connect throws: buttons as before
    /\ UNCHANGED <<keying, writing, canSend>>

Connected ==
    /\ client /\ ~up /\ ~ending
    /\ up' = TRUE /\ backoff' = BackoffMin /\ canEnd' = TRUE
    /\ UNCHANGED <<client, ending, canConnect, period, keying, writing>>
    /\ UpdateSendButton

Reconnecting ==
    /\ client /\ ~up /\ ~ending
    /\ period' = backoff
    /\ backoff' = IF 2 * backoff < BackoffMax THEN 2 * backoff ELSE BackoffMax
    /\ UNCHANGED <<client, up, ending, canConnect, canEnd, keying, writing, canSend>>

\* Mutant: the close handler only changes the pill.
ClosedPillOnly ==
    /\ client /\ up /\ up' = FALSE
    /\ UNCHANGED <<client, ending, canConnect, canEnd, backoff, period, keying, writing,
                   canSend>>

\* The "close" and "offline" handlers.
Closed ==
    /\ client /\ up /\ up' = FALSE
    /\ UNCHANGED <<client, ending, canConnect, canEnd, backoff, period, keying, writing>>
    /\ UpdateSendButton

Disconnect ==
    /\ canEnd /\ client
    /\ ending' = TRUE /\ canEnd' = FALSE
    /\ UNCHANGED <<client, up, canConnect, backoff, period, keying, writing, canSend>>

\* Mutant: a cancelled connect leaves the Connect button as it was.
EndedCancel ==
    /\ ending /\ ~up
    /\ client' = FALSE /\ ending' = FALSE
    /\ canConnect' \in {TRUE, canConnect} /\ canEnd' = FALSE
    /\ UNCHANGED <<up, backoff, period, keying, writing>>
    /\ UpdateSendButton

\* The callback of client.end().
Ended ==
    /\ ending /\ ~up
    /\ client' = FALSE /\ ending' = FALSE
    /\ canConnect' = TRUE /\ canEnd' = FALSE
    /\ UNCHANGED <<up, backoff, period, keying, writing>>
    /\ UpdateSendButton

(***************************************************************************)
(* The preview of the ciphertext, and the key.                             *)
(***************************************************************************)
\* refreshCipherPreview() up to its await, with the text and key given.
RefreshCipherPreview(text, k) ==
    IF text = Blank \/ k = Blank
    THEN cipher' = Blank /\ UpdateSendButton /\ UNCHANGED previews
    ELSE previews' = previews \cup {<<text, k>>} /\ UNCHANGED <<cipher, canSend>>

PreviewEnds(e) ==
    /\ previews' = previews \ {e} /\ cipher' \in {e, Blank}
    /\ UNCHANGED <<connection, keying, plain, sends>>
    /\ UpdateSendButton

\* setKeyFromInput() up to its await; a text that is no key fails at once.
SetKeyFromInput(b64) ==
    /\ keyBox' = b64
    /\ UNCHANGED <<connection, writing>>
    /\ IF b64 \in Key
       THEN imports' = imports \cup {b64} /\ UNCHANGED <<cryptoKey, canSend>>
       ELSE cryptoKey' = Blank /\ UNCHANGED imports /\ UpdateSendButton

\* importKey ends, or fails.  The page takes the key whatever the box says now.
ImportEnds(k) ==
    /\ imports' = imports \ {k}
    /\ cryptoKey' \in {k, Blank}
    /\ IF cryptoKey' = k /\ plain # Blank
       THEN previews' = previews \cup {<<plain, k>>} /\ UNCHANGED cipher
       ELSE UNCHANGED previews /\ cipher' = IF cryptoKey' = k THEN Blank ELSE cipher
    /\ UNCHANGED <<connection, keyBox, plain, sends>>
    /\ UpdateSendButton

(***************************************************************************)
(* The message.                                                            *)
(***************************************************************************)
Write(text) ==
    /\ plain' = text
    /\ UNCHANGED <<connection, keying, sends>>
    /\ RefreshCipherPreview(text, cryptoKey)

ClearTx ==
    /\ plain' = Blank /\ cipher' = Blank
    /\ UNCHANGED <<connection, keying, previews, sends>>
    /\ UpdateSendButton

Send ==
    /\ canSend /\ Sendable
    /\ sends' = sends \cup {<<plain, cryptoKey>>}
    /\ UNCHANGED <<connection, keying, plain, previews, cipher, canSend>>

\* The encryption for send() ends: the ciphertext is shown and published, or
\* it is too long, or the client is gone by now and the call throws.
SendEnds(e) ==
    /\ sends' = sends \ {e}
    /\ cipher' \in {e, cipher}
    /\ UNCHANGED <<connection, keying, plain, previews, canSend>>

MqttInit ==
    /\ client = FALSE /\ up = FALSE /\ ending = FALSE
    /\ canConnect = TRUE /\ canEnd = FALSE
    /\ backoff = BackoffMin /\ period = BackoffMin
    /\ keyBox = Blank /\ imports = {} /\ cryptoKey = Blank
    /\ plain = Blank /\ previews = {} /\ sends = {} /\ cipher = Blank
    /\ canSend = FALSE

MqttNext ==
    \/ Connect \/ Connected \/ Reconnecting \/ Closed \/ Disconnect \/ Ended
    \/ ClearTx
    \/ /\ Awaits < MaxAwaits
       /\ \/ \E k \in Key \cup {BadKey, Blank} : SetKeyFromInput(k)
          \/ \E text \in Message \cup {Blank} : Write(text)
          \/ Send
    \/ \E k \in imports : ImportEnds(k)
    \/ \E e \in previews : PreviewEnds(e)
    \/ \E e \in sends : SendEnds(e)

MqttSpec == MqttInit /\ [][MqttNext]_mqttVars

(***************************************************************************)
(* Properties.                                                             *)
(***************************************************************************)
MqttTypeOK ==
    /\ {client, up, ending, canConnect, canEnd, canSend} \subseteq BOOLEAN
    /\ {backoff, period} \subseteq BackoffMin .. BackoffMax
    /\ keyBox \in Key \cup {BadKey, Blank} /\ imports \subseteq Key
    /\ cryptoKey \in Key \cup {Blank}
    /\ plain \in Message \cup {Blank}
    /\ previews \subseteq Message \X Key /\ sends \subseteq Message \X Key
    /\ cipher \in (Message \X Key) \cup {Blank}

\* The Send button is enabled only when sending can work, and it is, unless
\* the preview of a text just typed is still being encrypted: a connection
\* that closes, a key that arrives late, a client that ends and a cleared box
\* each update it (app.js 171-174, and the handlers that call it).
SendButtonTells ==
    /\ canSend => Sendable
    /\ Sendable /\ previews = {} => canSend

\* There is always a way on: Connect is enabled whenever there is no client,
\* and Disconnect, or the end it began, whenever there is one (app.js 176-223,
\* 282-298).
NeverStuck == (canConnect <=> ~client) /\ (client => (canEnd \/ ending))

=============================================================================
