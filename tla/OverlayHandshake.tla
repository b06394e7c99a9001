-------------------------- MODULE OverlayHandshake --------------------------
(***************************************************************************)
(* checkOverlayHandshake() (src/overlay/handshake.ts) and the socket half  *)
(* of the handshake (handshake-socket.ts): every declared validator is     *)
(* dialled in turn, answers our HELLO, and may answer our AUTH.            *)
(*                                                                         *)
(* What arrives between two turns of the event loop is one packet, of one  *)
(* or more frames; the frame reader hands the first to whoever waits and   *)
(* keeps the last of the others.  The code that awaited a frame runs       *)
(* before the next packet.  A frame stands for its message and for whether *)
(* its signature or MAC verifies under the keys both sides derive.         *)
(***************************************************************************)
EXTENDS Naturals, Sequences, FiniteSets

CONSTANTS
    Validators,  \* number of [[VALIDATORS]] entries with a HOST and a PUBLIC_KEY
    MaxDefects,  \* bound on what is wrong with one peer
    None

ASSUME HandshakeAssumption == Validators \in Nat \ {0} /\ MaxDefects \in Nat

VARIABLES
    turn,       \* the entry being audited
    passphrase, \* the file states NETWORK_PASSPHRASE
    peer,       \* per entry: the peer that accepted the connection
    pc,         \* "dialing", "hello" or "auth": what the audit awaits
    wire,       \* frames under way from the peer
    sent,       \* the messages the peer has sent, "end" when it has closed
    stopped,    \* the step nobody has asked for yet
    armed,      \* the idle timer may still fire: its listener runs once
    outcome,    \* per entry: what performOverlayHandshake() returned
    findings,   \* per entry: the rules reported
    trouble,    \* per entry: the network failed (history)
    lost        \* per entry: the frame reader dropped an AUTH that verifies (history)

handshakeVars ==
    <<turn, passphrase, peer, pc, wire, sent, stopped, armed, outcome, findings, trouble, lost>>

Entries == 1..Validators

\* "otherKey": announces another node ID than the declared one; "unsigned": its
\* AuthCert is not signed by the node ID it announces; "otherNetwork";
\* "oldVersion"; "otherPort": listens elsewhere than it is published; "expired":
\* its AuthCert was signed for a time that is over; "replayed": it repeats the
\* HELLO of another node, and holds none of its keys.
Defects == {"otherKey", "unsigned", "otherNetwork", "oldVersion", "otherPort",
            "expired", "replayed"}

\* "hurried" sends AUTH without waiting for ours; "curve" announces a key that
\* X25519 refuses; "tampering" seals its AUTH under another key.
Manners == {"plain", "hurried", "silent", "hangUp", "garbage", "rejecting", "silentEcho",
            "tampering", "curve"}

Peers == {p \in [defects : SUBSET Defects, manner : Manners] : Cardinality(p.defects) <= MaxDefects}

Frames == {"hello", "auth", "forged", "other", "garbage", "error"}
Failures == {"timeout", "unreachable", "protocol", "authentication"}
HandshakeRules == {"handshake-timeout", "network-mismatch", "public-key-mismatch",
          "protocol-version-outdated"}
Outcomes == [failure : Failures \cup {"none"}, hello : BOOLEAN,
             authenticated : {"true", "false", "absent"}]

ASSUME NoneAssumption == None \notin Frames \cup Peers \cup Outcomes

HandshakeTypeOK ==
    /\ turn \in 1..(Validators + 1)
    /\ passphrase \in BOOLEAN
    /\ peer \in [Entries -> Peers \cup {None}]
    /\ pc \in {"dialing", "hello", "auth"}
    /\ wire \in Seq(Frames)
    /\ sent \subseteq {"hello", "auth", "other", "end"}
    /\ stopped \in Frames \cup {"timeout", "closed", None}
    /\ armed \in BOOLEAN
    /\ outcome \in [Entries -> Outcomes \cup {None}]
    /\ findings \in [Entries -> SUBSET HandshakeRules]
    /\ trouble \in [Entries -> BOOLEAN] /\ lost \in [Entries -> BOOLEAN]

-----------------------------------------------------------------------------
HandshakeInit ==
    /\ turn = 1 /\ passphrase \in BOOLEAN
    /\ peer = [e \in Entries |-> None]
    /\ pc = "dialing" /\ wire = <<>> /\ sent = {} /\ stopped = None /\ armed = TRUE
    /\ outcome = [e \in Entries |-> None]
    /\ findings = [e \in Entries |-> {}]
    /\ trouble = [e \in Entries |-> FALSE] /\ lost = [e \in Entries |-> FALSE]

Auditing == turn \in Entries

Failed(f) == [failure |-> f, hello |-> FALSE, authenticated |-> "absent"]
Greeted(echo) == [failure |-> "none", hello |-> TRUE, authenticated |-> echo]

\* helloFindings(): against a peer on another network nothing else is compared.
HelloFindings(p) ==
    IF passphrase /\ "otherNetwork" \in p.defects THEN {"network-mismatch"}
    ELSE {r \in HandshakeRules :
            \/ r = "public-key-mismatch" /\ "otherKey" \in p.defects
            \/ r = "protocol-version-outdated" /\ "oldVersion" \in p.defects
            \/ r = "network-mismatch" /\ "otherPort" \in p.defects}

\* failureFindings()
FailureFindings(f) ==
    IF f = "authentication" THEN {"public-key-mismatch"} ELSE {"handshake-timeout"}

\* The exchange with this validator is over; the next one gets a socket of its own.
Finish(result) ==
    /\ outcome' = [outcome EXCEPT ![turn] = result]
    /\ findings' = [findings EXCEPT ![turn] =
           IF result.hello THEN HelloFindings(peer[turn]) ELSE FailureFindings(result.failure)]
    /\ turn' = turn + 1
    /\ pc' = "dialing" /\ wire' = <<>> /\ sent' = {} /\ stopped' = None /\ armed' = TRUE

\* What the second answer says: negotiateAuthentication().
Echo(step) == CASE step = "auth" -> "true" [] step = "forged" -> "false" [] OTHER -> "absent"

\* Mutant: the signature is not looked at.
RefusedUnsigned(step) ==
    CASE step = "timeout" -> "timeout"
      [] step = "hello" -> IF peer[turn].manner = "curve" THEN "protocol" ELSE "none"
      [] OTHER -> "protocol"

\* Why the first answer, or the key exchange after it, ends the handshake.  Of
\* the certificate only the signature is checked: neither how long it is valid
\* nor whether this HELLO was ever meant for us.
Refused(step) ==
    CASE step = "timeout" -> "timeout"
      [] step = "hello" ->
            IF "unsigned" \in peer[turn].defects THEN "authentication"
            ELSE IF peer[turn].manner = "curve" THEN "protocol" ELSE "none"
      [] OTHER -> "protocol"

\* Mutant: a reader started per step, which has kept nothing.
ContinueAnew(step, kept, rest) ==
    IF pc = "hello" /\ Refused(step) # "none" THEN Finish(Failed(Refused(step)))
    ELSE IF pc = "hello"
    THEN /\ pc' = "auth" /\ wire' = rest
         /\ UNCHANGED <<turn, sent, stopped, armed, outcome, findings>>
    ELSE Finish(Greeted(Echo(step)))

\* The code that awaited step, up to the next frame that has not arrived yet.
\* kept is the step the reader could not hand to anybody, rest what has not arrived.
Continue(step, kept, rest) ==
    IF pc = "hello" /\ Refused(step) # "none" THEN Finish(Failed(Refused(step)))
    ELSE IF pc = "hello" /\ kept = None
    THEN /\ pc' = "auth" /\ wire' = rest
         /\ UNCHANGED <<turn, sent, stopped, armed, outcome, findings>>
    ELSE Finish(Greeted(Echo(IF pc = "hello" THEN kept ELSE step)))

-----------------------------------------------------------------------------
(* The dial.                                                               *)

\* Refused, or given up by the operating system.
DialFails ==
    /\ Auditing /\ pc = "dialing"
    /\ \E f \in {"unreachable", "timeout"} : Finish(Failed(f))
    /\ trouble' = [trouble EXCEPT ![turn] = TRUE]
    /\ UNCHANGED <<passphrase, peer, lost>>

\* The idle timer runs while the connection is made, but nobody listens yet.
DialIdle ==
    /\ Auditing /\ pc = "dialing" /\ armed
    /\ armed' = FALSE /\ stopped' = "timeout"
    /\ trouble' = [trouble EXCEPT ![turn] = TRUE]
    /\ UNCHANGED <<turn, passphrase, peer, pc, wire, sent, outcome, findings, lost>>

\* Mutant: what the reader kept during the dial is dropped.
ConnectedAnew ==
    /\ Auditing /\ pc = "dialing"
    /\ \E p \in Peers : peer' = [peer EXCEPT ![turn] = p]
    /\ pc' = "hello" /\ stopped' = None
    /\ UNCHANGED <<turn, passphrase, wire, sent, armed, outcome, findings, trouble, lost>>

\* The connection is made, and our HELLO written.
Connected ==
    /\ Auditing /\ pc = "dialing"
    /\ \E p \in Peers : peer' = [peer EXCEPT ![turn] = p]
    /\ IF stopped = None
       THEN /\ pc' = "hello"
            /\ UNCHANGED <<turn, wire, sent, stopped, armed, outcome, findings>>
       ELSE Finish(Failed("timeout"))
    /\ UNCHANGED <<passphrase, trouble, lost>>

-----------------------------------------------------------------------------
(* The peer.                                                               *)

Send(frame, tag) == wire' = Append(wire, frame) /\ sent' = sent \cup {tag}

Talking == Auditing /\ pc # "dialing" /\ "end" \notin sent
ours == <<turn, passphrase, peer, pc, stopped, armed, outcome, findings, trouble, lost>>

\* The answer to our HELLO.  (A node that checks our certificate against its own
\* network, when the file states no passphrase, is a rejecting one.)
PeerHello ==
    /\ Talking /\ "hello" \notin sent
    /\ CASE peer[turn].manner = "garbage" -> Send("garbage", "hello")
         [] peer[turn].manner = "rejecting" -> Send("error", "hello")
         [] peer[turn].manner \in {"silent", "hangUp"} -> FALSE
         [] OTHER -> Send("hello", "hello")
    /\ UNCHANGED ours

\* The AUTH of p, as our keys see it: only who holds the key its HELLO announces
\* can seal one that verifies.
Sealed(p) == IF p.manner = "tampering" \/ "replayed" \in p.defects THEN "forged" ELSE "auth"

PeerAuth ==
    /\ Talking /\ "hello" \in sent /\ "auth" \notin sent
    /\ \/ peer[turn].manner \in {"plain", "tampering"} /\ pc = "auth"
       \/ peer[turn].manner = "hurried"
    /\ Send(Sealed(peer[turn]), "auth")
    /\ UNCHANGED ours

\* A connected node goes on talking.
PeerGoesOn ==
    /\ Talking /\ "auth" \in sent /\ "other" \notin sent
    /\ Send("other", "other")
    /\ UNCHANGED ours

\* The peer ends the connection when it has no more to say.
PeerEnds ==
    /\ Talking
    /\ \/ "auth" \in sent
       \/ peer[turn].manner \in {"hangUp", "silentEcho", "garbage", "rejecting", "curve"}
    /\ peer[turn].manner \notin {"hangUp"} => "hello" \in sent
    /\ sent' = sent \cup {"end"}
    /\ UNCHANGED <<ours, wire>>

-----------------------------------------------------------------------------
(* The socket.                                                             *)

Awaiting == Auditing /\ pc \in {"hello", "auth"}

\* A packet of n frames: the last of those nobody waits for replaces the others.
Data(n) ==
    /\ Awaiting /\ n \in 1..Len(wire)
    /\ Continue(wire[1], IF n = 1 THEN None ELSE wire[n], SubSeq(wire, n + 1, Len(wire)))
    /\ lost' = [lost EXCEPT ![turn] = \E i \in 2..(n - 1) : wire[i] = "auth"]
    /\ UNCHANGED <<passphrase, peer, trouble>>

\* The connection is closed once everything the peer sent has arrived.
Close ==
    /\ Awaiting /\ "end" \in sent /\ wire = <<>>
    /\ Continue("closed", None, <<>>)
    /\ UNCHANGED <<passphrase, peer, trouble, lost>>

\* No activity for timeoutMs.
Timeout ==
    /\ Awaiting /\ armed
    /\ Continue("timeout", None, <<>>)
    /\ trouble' = [trouble EXCEPT ![turn] = TRUE]
    /\ UNCHANGED <<passphrase, peer, lost>>

\* The connection breaks, with whatever was under way.
Reset ==
    /\ Awaiting
    /\ Continue("closed", None, <<>>)
    /\ trouble' = [trouble EXCEPT ![turn] = TRUE]
    /\ UNCHANGED <<passphrase, peer, lost>>

HandshakeNext ==
    \/ DialFails \/ DialIdle \/ Connected
    \/ PeerHello \/ PeerAuth \/ PeerGoesOn \/ PeerEnds
    \/ Close \/ Timeout \/ Reset
    \/ \E n \in 1..3 : Data(n)

HandshakeSpec == HandshakeInit /\ [][HandshakeNext]_handshakeVars

-----------------------------------------------------------------------------
\* A validator without a finding answered with a HELLO that announces the
\* published key, carries a certificate signed by that key, and names the network
\* the file states, whatever came in one packet, was repeated, broke off or came
\* too late.  It says no more: the HELLO may be an old one repeated by somebody
\* else.  Only an AUTH that verifies shows the node itself at the other end, and
\* no finding depends on it.
CleanMeansVouched ==
    \A e \in Entries : outcome[e] # None =>
        /\ findings[e] = {} =>
               /\ peer[e] # None /\ outcome[e].hello
               /\ peer[e].defects \cap {"otherKey", "unsigned"} = {}
               /\ passphrase => "otherNetwork" \notin peer[e].defects
        /\ outcome[e].authenticated = "true" =>
               /\ peer[e] # None /\ peer[e].manner \in {"plain", "hurried"}
               /\ peer[e].defects \cap {"unsigned", "replayed"} = {}

\* What helloFindings() and verifyAuthCert() do not look at; who answers our HELLO.
Unchecked == {"expired", "replayed"}
Answering == {"plain", "hurried", "silentEcho", "tampering"}

\* A validator that is what the file says, or differs only in what is not
\* checked, gets no finding unless the network failed.  If it is what the file
\* says it is never said to have sealed its AUTH under another key, and its AUTH
\* is read, sent ahead of ours or not, unless the frame reader replaced it by a
\* later frame of the packet the HELLO came in.
NoFalseAlarm ==
    \A e \in Entries :
        outcome[e] # None /\ peer[e] # None /\ ~trouble[e] =>
            /\ peer[e].defects \subseteq Unchecked /\ peer[e].manner \in Answering
                   => findings[e] = {}
            /\ peer[e].defects = {} /\ peer[e].manner \in {"plain", "hurried"} /\ ~lost[e]
                   => outcome[e].authenticated = "true"
            /\ peer[e].defects = {} /\ peer[e].manner # "tampering"
                   => outcome[e].authenticated # "false"
=============================================================================
