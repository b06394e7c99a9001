------------------------ MODULE OverlayAuditsProofs ------------------------
(***************************************************************************)
(* What the findings of the overlay audits say of the peers, for any       *)
(* number of validators, nodes, seeds, defects and limits.                 *)
(***************************************************************************)
EXTENDS OverlayAudits, SequenceTheorems, FiniteSetTheorems, WellFoundedInduction, TLAPS

-----------------------------------------------------------------------------
(* The handshakes.                                                         *)

\* What is known of the exchange under way with peer p.  Until the first answer
\* is read, the frames under way are all the peer has sent, its AUTH second;
\* afterwards its AUTH is first in line.
Exchange(p) ==
    /\ \A i \in DOMAIN wire :
           wire[i] \in {"auth", "forged"} =>
               wire[i] = Sealed(p) /\ p.manner \in {"plain", "hurried", "tampering"}
    /\ "auth" \in sent \/ pc = "auth" => "hello" \in sent
    /\ "other" \in sent => "auth" \in sent
    /\ "end" \in sent => \/ "hello" \in sent /\ ("auth" \in sent \/ p.manner \notin {"plain", "hurried"})
                         \/ p.manner = "hangUp"
    /\ pc = "hello" => IF "hello" \in sent
                       THEN /\ wire # <<>>
                            /\ p.manner \notin {"garbage", "rejecting"} => wire[1] = "hello"
                       ELSE wire = <<>>
    /\ pc = "hello" => IF "auth" \in sent
                       THEN Len(wire) >= 2 /\ wire[2] = Sealed(p)
                       ELSE Len(wire) = IF "hello" \in sent THEN 1 ELSE 0
    /\ pc = "auth" => IF "auth" \in sent THEN wire # <<>> /\ wire[1] = Sealed(p) ELSE wire = <<>>
    /\ pc = "auth" => "unsigned" \notin p.defects

Underway ==
    /\ \A e \in Entries : e >= turn => outcome[e] = None
    /\ turn \in Entries /\ stopped # None => trouble[turn]
    /\ pc = "dialing" => wire = <<>> /\ sent = {}
    /\ turn \notin Entries => pc = "dialing"
    /\ pc # "dialing" => peer[turn] # None /\ Exchange(peer[turn])

HInv == HandshakeTypeOK /\ Underway /\ CleanMeansVouched /\ NoFalseAlarm

LEMMA PeerParts ==
  ASSUME NEW p \in Peers
  PROVE  p.defects \subseteq Defects /\ p.manner \in Manners
  BY DEF Peers

LEMMA FailedOutcome ==
  ASSUME NEW f \in Failures
  PROVE  /\ Failed(f) \in Outcomes /\ ~Failed(f).hello /\ Failed(f).failure = f
         /\ Failed(f).authenticated = "absent"
  BY DEF Failed, Outcomes

LEMMA GreetedOutcome ==
  ASSUME NEW step
  PROVE  /\ Greeted(Echo(step)) \in Outcomes /\ Greeted(Echo(step)).hello
         /\ Greeted(Echo(step)).authenticated = Echo(step)
         /\ Echo(step) = "true" <=> step = "auth"
         /\ Echo(step) = "false" <=> step = "forged"
  BY DEF Greeted, Echo, Outcomes

\* An exchange that ends is recorded for the entry under audit, and only there.
LEMMA FinishKeeps ==
  ASSUME HandshakeTypeOK, Underway, turn \in Entries, NEW result \in Outcomes, Finish(result),
         UNCHANGED passphrase,
         peer' \in [Entries -> Peers \cup {None}], trouble' \in [Entries -> BOOLEAN],
         lost' \in [Entries -> BOOLEAN]
  PROVE  /\ HandshakeTypeOK' /\ Underway'
         /\ outcome'[turn] = result
         /\ findings'[turn] = IF result.hello THEN HelloFindings(peer[turn])
                              ELSE FailureFindings(result.failure)
         /\ \A e \in Entries \ {turn} : /\ outcome'[e] = outcome[e]
                                        /\ findings'[e] = findings[e]
<1>1. turn \in 1..Validators /\ Validators \in Nat /\ turn' = turn + 1
  BY HandshakeAssumption DEF Entries, Finish
<1>2. /\ outcome' = [outcome EXCEPT ![turn] = result]
      /\ findings' = [findings EXCEPT ![turn] =
             IF result.hello THEN HelloFindings(peer[turn]) ELSE FailureFindings(result.failure)]
      /\ pc' = "dialing" /\ wire' = <<>> /\ sent' = {} /\ stopped' = None /\ armed' = TRUE
  BY DEF Finish
<1>3. HelloFindings(peer[turn]) \subseteq HandshakeRules
      /\ FailureFindings(result.failure) \subseteq HandshakeRules
  BY DEF HelloFindings, FailureFindings, HandshakeRules
<1>4. /\ outcome'[turn] = result
      /\ findings'[turn] = IF result.hello THEN HelloFindings(peer[turn])
                           ELSE FailureFindings(result.failure)
      /\ \A e \in Entries \ {turn} : outcome'[e] = outcome[e] /\ findings'[e] = findings[e]
  BY <1>2 DEF HandshakeTypeOK
<1>5. HandshakeTypeOK'
  BY <1>1, <1>2, <1>3 DEF HandshakeTypeOK, Entries
<1>6. Underway'
  <2>1. \A e \in Entries : e >= turn' => outcome'[e] = None
    BY <1>1, <1>4 DEF Underway, Entries
  <2>. QED
    BY <1>2, <2>1 DEF Underway
<1>. QED
  BY <1>4, <1>5, <1>6

\* The claims about entry e.
Vouched(e) ==
    outcome[e] # None =>
        /\ findings[e] = {} =>
               /\ peer[e] # None /\ outcome[e].hello
               /\ peer[e].defects \cap {"otherKey", "unsigned"} = {}
               /\ passphrase => "otherNetwork" \notin peer[e].defects
        /\ outcome[e].authenticated = "true" =>
               /\ peer[e] # None /\ peer[e].manner \in {"plain", "hurried"}
               /\ peer[e].defects \cap {"unsigned", "replayed"} = {}

Fair(e) ==
    outcome[e] # None /\ peer[e] # None /\ ~trouble[e] =>
        /\ peer[e].defects \subseteq Unchecked /\ peer[e].manner \in Answering
               => findings[e] = {}
        /\ peer[e].defects = {} /\ peer[e].manner \in {"plain", "hurried"} /\ ~lost[e]
               => outcome[e].authenticated = "true"
        /\ peer[e].defects = {} /\ peer[e].manner # "tampering"
               => outcome[e].authenticated # "false"

LEMMA Claims == (CleanMeansVouched /\ NoFalseAlarm) <=> \A e \in Entries : Vouched(e) /\ Fair(e)
  BY DEF CleanMeansVouched, NoFalseAlarm, Vouched, Fair

\* A failed handshake is always reported.
LEMMA FailureFound == ASSUME NEW f PROVE FailureFindings(f) # {}
  BY DEF FailureFindings

\* A failed exchange leaves the claims true if the network, or a peer with a
\* defect or a manner of its own, is to blame.
LEMMA FailedKeeps ==
  ASSUME HInv, turn \in Entries, NEW f \in Failures, Finish(Failed(f)), UNCHANGED passphrase,
         peer' \in [Entries -> Peers \cup {None}], trouble' \in [Entries -> BOOLEAN],
         lost' \in [Entries -> BOOLEAN],
         \A e \in Entries \ {turn} :
             peer'[e] = peer[e] /\ trouble'[e] = trouble[e] /\ lost'[e] = lost[e],
         \/ trouble'[turn]
         \/ ~(peer'[turn].defects \subseteq Unchecked)
         \/ peer'[turn].manner \notin Answering
  PROVE  HInv'
<1>1. Failed(f) \in Outcomes /\ ~Failed(f).hello /\ Failed(f).authenticated = "absent"
  BY FailedOutcome
<1>2. /\ HandshakeTypeOK' /\ Underway'
      /\ outcome'[turn] = Failed(f) /\ findings'[turn] # {}
      /\ \A e \in Entries \ {turn} : outcome'[e] = outcome[e] /\ findings'[e] = findings[e]
  BY <1>1, FinishKeeps, FailureFound DEF HInv
<1>3. ASSUME NEW e \in Entries
      PROVE  Vouched(e)' /\ Fair(e)'
  <2>1. CASE e = turn
    BY <1>1, <1>2, <2>1 DEF Vouched, Fair, Unchecked, Answering
  <2>2. CASE e # turn
    BY <1>2, <2>2, Claims DEF HInv, Vouched, Fair
  <2>. QED
    BY <2>1, <2>2
<1>4. CleanMeansVouched' /\ NoFalseAlarm'
  BY <1>3 DEF CleanMeansVouched, NoFalseAlarm, Vouched, Fair
<1>. QED
  BY <1>2, <1>4 DEF HInv

\* An exchange that got as far as the first answer ends with what helloFindings()
\* says of the peer, and with an AUTH only if the peer has sent one.
LEMMA GreetedKeeps ==
  ASSUME HInv, turn \in Entries, pc # "dialing", NEW step, Finish(Greeted(Echo(step))),
         UNCHANGED <<passphrase, peer>>, trouble' \in [Entries -> BOOLEAN],
         lost' \in [Entries -> BOOLEAN],
         \A e \in Entries \ {turn} : trouble'[e] = trouble[e] /\ lost'[e] = lost[e],
         "unsigned" \notin peer[turn].defects,
         step \in {"auth", "forged"} =>
             /\ step = Sealed(peer[turn])
             /\ peer[turn].manner \in {"plain", "hurried", "tampering"},
         \/ trouble'[turn] \/ lost'[turn] \/ Sealed(peer[turn]) = "forged"
         \/ peer[turn].manner \in {"plain", "hurried"} => step = "auth"
  PROVE  HInv'
<1>. DEFINE r == Greeted(Echo(step))
<1>1. /\ r \in Outcomes /\ r.hello /\ r.authenticated = Echo(step)
      /\ Echo(step) = "true" <=> step = "auth"
      /\ Echo(step) = "false" <=> step = "forged"
  BY GreetedOutcome
<1>2. peer[turn] # None /\ peer' \in [Entries -> Peers \cup {None}]
  BY DEF HInv, Underway, HandshakeTypeOK
<1>3. /\ HandshakeTypeOK' /\ Underway'
      /\ outcome'[turn] = r /\ findings'[turn] = HelloFindings(peer[turn])
      /\ \A e \in Entries \ {turn} : outcome'[e] = outcome[e] /\ findings'[e] = findings[e]
  BY <1>1, <1>2, FinishKeeps DEF HInv
<1>4. ASSUME HelloFindings(peer[turn]) = {}
      PROVE  /\ peer[turn].defects \cap {"otherKey", "unsigned"} = {}
             /\ passphrase => "otherNetwork" \notin peer[turn].defects
  <2>1. passphrase => "otherNetwork" \notin peer[turn].defects
    BY <1>4 DEF HelloFindings
  <2>2. "otherKey" \notin peer[turn].defects
    <3>1. ASSUME "otherKey" \in peer[turn].defects
          PROVE  "public-key-mismatch" \in HelloFindings(peer[turn])
      BY <2>1, <3>1 DEF HelloFindings, HandshakeRules
    <3>. QED
      BY <1>4, <3>1
  <2>. QED
    BY <2>1, <2>2
<1>5. peer[turn].defects \subseteq Unchecked => HelloFindings(peer[turn]) = {}
  BY DEF HelloFindings, Unchecked
<1>8. /\ step = "auth" => /\ peer[turn].manner \in {"plain", "hurried"}
                         /\ peer[turn].defects \cap {"unsigned", "replayed"} = {}
      /\ step = "forged" => peer[turn].manner = "tampering" \/ peer[turn].defects # {}
      /\ Sealed(peer[turn]) = "forged" => peer[turn].manner = "tampering" \/ peer[turn].defects # {}
  BY DEF Sealed
<1>6. ASSUME NEW e \in Entries
      PROVE  Vouched(e)' /\ Fair(e)'
  <2>1. CASE e = turn
    <3>1. Vouched(e)'
      BY <1>1, <1>2, <1>3, <1>4, <1>8, <2>1 DEF Vouched
    <3>2. Fair(e)'
      BY <1>1, <1>2, <1>3, <1>5, <1>8, <2>1 DEF Fair
    <3>. QED
      BY <3>1, <3>2
  <2>2. CASE e # turn
    BY <1>3, <2>2, Claims DEF HInv, Vouched, Fair
  <2>. QED
    BY <2>1, <2>2
<1>7. CleanMeansVouched' /\ NoFalseAlarm'
  BY <1>6 DEF CleanMeansVouched, NoFalseAlarm, Vouched, Fair
<1>. QED
  BY <1>3, <1>7 DEF HInv

\* A step that decides nothing keeps the claims.
LEMMA UndecidedKeeps ==
  ASSUME HInv, HandshakeTypeOK', Underway', UNCHANGED <<passphrase, outcome, findings>>,
         \A e \in Entries : outcome[e] # None =>
             peer'[e] = peer[e] /\ trouble'[e] = trouble[e] /\ lost'[e] = lost[e]
  PROVE  HInv'
<1>1. ASSUME NEW e \in Entries
      PROVE  Vouched(e)' /\ Fair(e)'
  BY Claims DEF HInv, Vouched, Fair
<1>. QED
  BY <1>1 DEF HInv, CleanMeansVouched, NoFalseAlarm, Vouched, Fair

LEMMA DialFailsKeeps == ASSUME HInv, DialFails PROVE HInv'
<1>1. turn \in Entries /\ trouble' = [trouble EXCEPT ![turn] = TRUE] /\ peer' = peer
  BY DEF DialFails, Auditing
<1>2. PICK f \in {"unreachable", "timeout"} : Finish(Failed(f))
  BY DEF DialFails
<1>3. f \in Failures
  BY DEF Failures
<1>4. /\ peer' \in [Entries -> Peers \cup {None}] /\ trouble' \in [Entries -> BOOLEAN]
      /\ trouble'[turn] /\ \A e \in Entries \ {turn} : trouble'[e] = trouble[e]
      /\ lost' = lost /\ lost \in [Entries -> BOOLEAN]
  BY <1>1 DEF HInv, HandshakeTypeOK, DialFails
<1>. QED
  BY <1>1, <1>2, <1>3, <1>4, FailedKeeps DEF DialFails

LEMMA DialIdleKeeps == ASSUME HInv, DialIdle PROVE HInv'
<1>1. turn \in Entries /\ trouble' = [trouble EXCEPT ![turn] = TRUE] /\ outcome[turn] = None
  BY HandshakeAssumption DEF DialIdle, Auditing, HInv, Underway, Entries
<1>2. HandshakeTypeOK'
  BY <1>1 DEF HInv, HandshakeTypeOK, DialIdle
<1>3. Underway'
  BY <1>1 DEF HInv, HandshakeTypeOK, DialIdle, Underway
<1>. QED
  BY <1>1, <1>2, <1>3, UndecidedKeeps DEF DialIdle, HInv, HandshakeTypeOK

LEMMA ConnectedKeeps == ASSUME HInv, Connected PROVE HInv'
<1>1. turn \in Entries /\ outcome[turn] = None /\ pc = "dialing" /\ wire = <<>> /\ sent = {}
  BY HandshakeAssumption DEF Connected, Auditing, HInv, Underway, Entries
<1>2. PICK p \in Peers : peer' = [peer EXCEPT ![turn] = p]
  BY DEF Connected
<1>3. /\ peer' \in [Entries -> Peers \cup {None}] /\ peer'[turn] = p
      /\ \A e \in Entries \ {turn} : peer'[e] = peer[e]
  BY <1>1, <1>2 DEF HInv, HandshakeTypeOK
<1>4. CASE stopped = None
  <2>1. HandshakeTypeOK'
    BY <1>3, <1>4 DEF HInv, HandshakeTypeOK, Connected
  <2>2. Exchange(p)'
    BY <1>1, <1>4 DEF Connected, Exchange
  <2>3. Underway'
    <3>1. peer'[turn'] # None /\ Exchange(peer[turn])'
      BY <1>3, <1>4, <2>2, NoneAssumption DEF Connected, Exchange
    <3>. QED
      BY <1>1, <1>4, <3>1 DEF HInv, Underway, Connected
  <2>. QED
    BY <1>1, <1>3, <1>4, <2>1, <2>3, UndecidedKeeps DEF Connected
<1>5. CASE stopped # None
  <2>1. /\ trouble'[turn] /\ trouble' = trouble /\ trouble \in [Entries -> BOOLEAN]
        /\ lost' = lost /\ lost \in [Entries -> BOOLEAN]
    BY <1>1, <1>5 DEF Connected, HInv, Underway, HandshakeTypeOK
  <2>2. Finish(Failed("timeout")) /\ "timeout" \in Failures
    BY <1>5 DEF Connected, Failures
  <2>. QED
    BY <1>1, <1>3, <2>1, <2>2, FailedKeeps DEF Connected
<1>. QED
  BY <1>4, <1>5

\* A step of the peer keeps what is known of the exchange.
LEMMA PeerStepKeeps ==
  ASSUME HInv, Talking, UNCHANGED ours,
         wire' \in Seq(Frames), sent' \subseteq {"hello", "auth", "other", "end"},
         Exchange(peer[turn])'
  PROVE  HInv'
<1>1. HandshakeTypeOK'
  BY DEF HInv, HandshakeTypeOK, ours
<1>2. Underway'
  BY DEF HInv, Underway, Talking, Auditing, ours
<1>. QED
  BY <1>1, <1>2, UndecidedKeeps DEF ours

LEMMA Appended ==
  ASSUME NEW s \in Seq(Frames), NEW x \in Frames
  PROVE  /\ Append(s, x) \in Seq(Frames) /\ Append(s, x) # <<>>
         /\ Len(Append(s, x)) = Len(s) + 1 /\ Append(s, x)[Len(s) + 1] = x
         /\ \A i \in DOMAIN s : Append(s, x)[i] = s[i]
         /\ \A i \in DOMAIN Append(s, x) :
               Append(s, x)[i] = x \/ (i \in DOMAIN s /\ Append(s, x)[i] = s[i])
         /\ s = <<>> => Append(s, x)[1] = x
         /\ s # <<>> => Append(s, x)[1] = s[1]
  BY AppendProperties

LEMMA PeerHelloKeeps == ASSUME HInv, PeerHello PROVE HInv'
<1>. DEFINE p == peer[turn]
<1>1. /\ wire \in Seq(Frames) /\ sent \subseteq {"hello", "auth", "other", "end"}
      /\ Exchange(p) /\ pc = "hello" /\ wire = <<>> /\ "hello" \notin sent /\ "auth" \notin sent
  BY DEF PeerHello, Talking, Auditing, HInv, HandshakeTypeOK, Underway, Exchange
<1>2. PICK x \in {"garbage", "error", "hello"} :
          /\ Send(x, "hello")
          /\ p.manner \notin {"garbage", "rejecting"} => x = "hello"
  BY DEF PeerHello
<1>3. x \in Frames
  BY DEF Frames
<1>4. wire' = Append(wire, x) /\ sent' = sent \cup {"hello"}
  BY <1>2 DEF Send
<1>5. wire' \in Seq(Frames) /\ wire' # <<>> /\ Len(wire') = 1 /\ wire'[1] = x
      /\ \A i \in DOMAIN wire' : wire'[i] = x
  BY <1>1, <1>3, <1>4, Appended
<1>6. turn' = turn /\ pc' = pc /\ peer' = peer
  BY DEF PeerHello, ours
<1>7. Exchange(peer[turn])'
  BY <1>1, <1>2, <1>4, <1>5, <1>6 DEF Exchange, PeerHello, Talking
<1>. QED
  BY <1>1, <1>4, <1>5, <1>7, PeerStepKeeps DEF PeerHello

LEMMA PeerAuthKeeps == ASSUME HInv, PeerAuth PROVE HInv'
<1>. DEFINE p == peer[turn]
<1>1. /\ wire \in Seq(Frames) /\ sent \subseteq {"hello", "auth", "other", "end"}
      /\ Exchange(p) /\ "hello" \in sent /\ "auth" \notin sent /\ "end" \notin sent
  BY DEF PeerAuth, Talking, Auditing, HInv, HandshakeTypeOK, Underway
<1>. DEFINE x == Sealed(p)
<1>2. /\ Send(x, "auth")
      /\ p.manner \in {"plain", "hurried", "tampering"}
  BY DEF PeerAuth
<1>3. x \in Frames
  BY DEF Frames, Sealed
<1>4. wire' = Append(wire, x) /\ sent' = sent \cup {"auth"}
  BY <1>2 DEF Send
<1>5. /\ wire' \in Seq(Frames) /\ wire' # <<>>
      /\ \A i \in DOMAIN wire' : wire'[i] = x \/ (i \in DOMAIN wire /\ wire'[i] = wire[i])
      /\ wire = <<>> => wire'[1] = x
      /\ wire # <<>> => wire'[1] = wire[1]
      /\ Len(wire') = Len(wire) + 1 /\ wire'[Len(wire) + 1] = x
  BY <1>1, <1>3, <1>4, Appended
<1>6. turn' = turn /\ pc' = pc /\ peer' = peer
  BY DEF PeerAuth, ours
<1>8. pc = "hello" => Len(wire') = 2 /\ wire'[2] = x
  <2>. HIDE DEF x
  <2>1. pc = "hello" => Len(wire) = 1
    BY <1>1 DEF Exchange
  <2>2. Len(wire') = Len(wire) + 1 /\ wire'[Len(wire) + 1] = x
    BY <1>5
  <2>3. ASSUME Len(wire) = 1
        PROVE  Len(wire') = 2 /\ wire'[2] = x
    <3>1. Len(wire) + 1 = 2
      BY <2>3
    <3>. QED
      BY <2>2, <3>1
  <2>. QED
    BY <2>1, <2>3
<1>7. Exchange(peer[turn])'
  <2>. HIDE DEF x
  <2>1. Exchange(p)'
    BY <1>1, <1>2, <1>4, <1>5, <1>6, <1>8 DEF Exchange, x
  <2>. QED
    BY <1>6, <2>1
<1>. QED
  BY <1>1, <1>4, <1>5, <1>7, PeerStepKeeps DEF PeerAuth

LEMMA PeerGoesOnKeeps == ASSUME HInv, PeerGoesOn PROVE HInv'
<1>. DEFINE p == peer[turn]
<1>1. /\ wire \in Seq(Frames) /\ sent \subseteq {"hello", "auth", "other", "end"}
      /\ Exchange(p) /\ "auth" \in sent /\ "end" \notin sent
  BY DEF PeerGoesOn, Talking, Auditing, HInv, HandshakeTypeOK, Underway
<1>2. wire' = Append(wire, "other") /\ sent' = sent \cup {"other"} /\ "other" \in Frames
  BY DEF PeerGoesOn, Send, Frames
<1>3. /\ wire' \in Seq(Frames) /\ wire' # <<>>
      /\ \A i \in DOMAIN wire' :
            wire'[i] = "other" \/ (i \in DOMAIN wire /\ wire'[i] = wire[i])
      /\ wire # <<>> => wire'[1] = wire[1]
      /\ Len(wire') = Len(wire) + 1 /\ (Len(wire) >= 2 => wire'[2] = wire[2])
  BY <1>1, <1>2, Appended
<1>4. turn' = turn /\ pc' = pc /\ peer' = peer
  BY DEF PeerGoesOn, ours
<1>5. Exchange(peer[turn])'
  BY <1>1, <1>2, <1>3, <1>4 DEF Exchange
<1>. QED
  BY <1>1, <1>2, <1>3, <1>5, PeerStepKeeps DEF PeerGoesOn

LEMMA PeerEndsKeeps == ASSUME HInv, PeerEnds PROVE HInv'
<1>1. /\ wire \in Seq(Frames) /\ sent \subseteq {"hello", "auth", "other", "end"}
      /\ Exchange(peer[turn])
  BY DEF PeerEnds, Talking, Auditing, HInv, HandshakeTypeOK, Underway
<1>2. UNCHANGED ours /\ wire' = wire /\ sent' = sent \cup {"end"}
  BY DEF PeerEnds, ours
<1>3. Exchange(peer[turn])'
  BY <1>1, <1>2 DEF Exchange, PeerEnds, ours
<1>. QED
  BY <1>1, <1>2, <1>3, PeerStepKeeps DEF PeerEnds

\* Close, Timeout and Reset.
LEMMA BrokenKeeps ==
  ASSUME HInv, Awaiting, NEW step \in {"timeout", "closed"}, Continue(step, None, <<>>),
         UNCHANGED <<passphrase, peer, lost>>, trouble' \in [Entries -> BOOLEAN],
         \A e \in Entries \ {turn} : trouble'[e] = trouble[e],
         trouble'[turn] \/ ("end" \in sent /\ wire = <<>>)
  PROVE  HInv'
<1>1. turn \in Entries /\ pc # "dialing" /\ Exchange(peer[turn])
      /\ peer' \in [Entries -> Peers \cup {None}] /\ lost' \in [Entries -> BOOLEAN]
  BY DEF Awaiting, Auditing, HInv, Underway, HandshakeTypeOK
<1>2. CASE pc = "hello"
  <2>1. Refused(step) \in Failures /\ Refused(step) # "none"
    BY DEF Refused, Failures
  <2>2. Finish(Failed(Refused(step)))
    BY <1>2, <2>1 DEF Continue
  <2>3. trouble'[turn] \/ peer'[turn].manner \notin Answering
    BY <1>1, <1>2 DEF Exchange, Answering
  <2>. QED
    BY <1>1, <2>1, <2>2, <2>3, FailedKeeps
<1>3. CASE pc = "auth"
  <2>1. Finish(Greeted(Echo(step))) /\ "unsigned" \notin peer[turn].defects
    BY <1>1, <1>3 DEF Continue, Exchange
  <2>2. trouble'[turn] \/ peer[turn].manner \notin {"plain", "hurried"}
    BY <1>1, <1>3 DEF Exchange
  <2>. QED
    BY <1>1, <2>1, <2>2, GreetedKeeps
<1>. QED
  BY <1>2, <1>3 DEF Awaiting

LEMMA DataKeeps ==
  ASSUME HInv, NEW n \in 1..3, Data(n)
  PROVE  HInv'
<1>. DEFINE p == peer[turn]
            kept == IF n = 1 THEN None ELSE wire[n]
            rest == SubSeq(wire, n + 1, Len(wire))
<1>1. /\ turn \in Entries /\ pc # "dialing" /\ p # None /\ Exchange(p)
      /\ wire \in Seq(Frames) /\ 1 \in DOMAIN wire /\ n \in DOMAIN wire /\ n <= Len(wire)
      /\ peer' = peer /\ peer \in [Entries -> Peers \cup {None}]
      /\ trouble' = trouble /\ trouble \in [Entries -> BOOLEAN] /\ passphrase' = passphrase
      /\ lost' = [lost EXCEPT ![turn] = \E i \in 2..(n - 1) : wire[i] = "auth"]
      /\ lost \in [Entries -> BOOLEAN]
  BY DEF Data, Awaiting, Auditing, HInv, Underway, HandshakeTypeOK
<1>2. wire[n] # None
  BY <1>1, NoneAssumption
<1>7. /\ lost' \in [Entries -> BOOLEAN] /\ \A e \in Entries \ {turn} : lost'[e] = lost[e]
      /\ n = 3 /\ wire[2] = "auth" => lost'[turn]
  BY <1>1
<1>8. Sealed(p) \in {"auth", "forged"}
  BY DEF Sealed
<1>3. CASE pc = "hello" /\ Refused(wire[1]) # "none"
  <2>1. Finish(Failed(Refused(wire[1]))) /\ Refused(wire[1]) \in Failures
    BY <1>3 DEF Data, Continue, Refused, Failures
  <2>2. wire # <<>>
    BY <1>1
  <2>3. \/ ~(p.defects \subseteq Unchecked)
        \/ p.manner \notin Answering
    BY <1>1, <1>3, <2>2 DEF Refused, Exchange, Unchecked, Answering
  <2>. QED
    BY <1>1, <1>7, <2>1, <2>3, FailedKeeps
<1>4. CASE pc = "hello" /\ Refused(wire[1]) = "none" /\ n # 1
  <2>1. Finish(Greeted(Echo(wire[n])))
    BY <1>2, <1>4 DEF Data, Continue
  <2>2. "unsigned" \notin p.defects
    BY <1>1, <1>4 DEF Refused, Exchange
  <2>3. wire[n] \in {"auth", "forged"} =>
            wire[n] = Sealed(p) /\ p.manner \in {"plain", "hurried", "tampering"}
    BY <1>1 DEF Exchange
  <2>4. wire[2] = Sealed(p)
    BY <1>1, <1>4 DEF Exchange
  <2>5. wire[n] = "auth" \/ lost'[turn] \/ Sealed(p) = "forged"
    BY <1>4, <1>7, <1>8, <2>4
  <2>. QED
    BY <1>1, <1>7, <2>1, <2>2, <2>3, <2>5, GreetedKeeps
<1>5. CASE pc = "hello" /\ Refused(wire[1]) = "none" /\ n = 1
  <2>1. /\ pc' = "auth" /\ wire' = SubSeq(wire, 2, Len(wire))
        /\ UNCHANGED <<turn, sent, stopped, armed, outcome, findings>>
    BY <1>5 DEF Data, Continue
  <2>2. /\ wire' \in Seq(Frames)
        /\ \A i \in DOMAIN wire' : \E j \in DOMAIN wire : wire'[i] = wire[j]
        /\ Len(wire) <= 1 => wire' = <<>>
        /\ Len(wire) >= 2 => wire' # <<>> /\ wire'[1] = wire[2]
    <3>1. \A i \in 2..Len(wire) : wire[i] \in Frames
      BY <1>1
    <3>2. /\ wire' \in Seq(Frames)
          /\ Len(wire') = IF 2 <= Len(wire) THEN Len(wire) - 2 + 1 ELSE 0
          /\ \A i \in 1 .. Len(wire) - 2 + 1 : wire'[i] = wire[2 + i - 1]
      BY <1>1, <2>1, <3>1, SubSeqProperties
    <3>3. Len(wire) \in Nat /\ DOMAIN wire = 1..Len(wire) /\ DOMAIN wire' = 1..Len(wire')
      BY <1>1, <3>2
    <3>4. ASSUME NEW i \in DOMAIN wire'
          PROVE  \E j \in DOMAIN wire : wire'[i] = wire[j]
      <4>3. Len(wire) >= 2 /\ Len(wire') = Len(wire) - 2 + 1
        <5>1. i \in 1..Len(wire')
          BY <3>3
        <5>2. CASE ~(2 <= Len(wire))
          BY <3>2, <5>1, <5>2
        <5>3. CASE 2 <= Len(wire)
          BY <3>2, <3>3, <5>3
        <5>. QED
          BY <5>2, <5>3
      <4>1. i \in 1..(Len(wire) - 2 + 1) /\ i + 1 \in 1..Len(wire) /\ 2 + i - 1 = i + 1
        BY <3>3, <4>3
      <4>2. wire'[i] = wire[i + 1]
        BY <3>2, <4>1
      <4>. QED
        BY <3>3, <4>1, <4>2
    <3>5. ASSUME Len(wire) >= 2
          PROVE  wire' # <<>> /\ wire'[1] = wire[2]
      <4>1. 1 \in 1..(Len(wire) - 2 + 1) /\ 2 + 1 - 1 = 2 /\ Len(wire') # 0
        BY <3>2, <3>3, <3>5
      <4>2. wire'[1] = wire[2 + 1 - 1]
        BY <3>2, <4>1
      <4>. QED
        BY <4>1, <4>2
    <3>6. ASSUME Len(wire) <= 1
          PROVE  wire' = <<>>
      <4>1. ~(2 <= Len(wire))
        BY <3>3, <3>6
      <4>2. Len(wire') = 0
        BY <3>2, <4>1
      <4>. QED
        BY <3>2, <4>2, EmptySeq
    <3>. QED
      BY <3>2, <3>4, <3>5, <3>6
  <2>3. "hello" \in sent /\ "unsigned" \notin p.defects
    BY <1>1, <1>5 DEF Exchange, Refused
  <2>4. Exchange(peer[turn])'
    BY <1>1, <1>5, <2>1, <2>2, <2>3 DEF Exchange
  <2>5. HandshakeTypeOK'
    BY <1>1, <1>7, <2>1, <2>2 DEF HInv, HandshakeTypeOK
  <2>6. Underway'
    BY <1>1, <2>1, <2>4 DEF HInv, Underway
  <2>7. outcome[turn] = None
    BY <1>1, HandshakeAssumption DEF HInv, Underway, Entries
  <2>. QED
    BY <1>1, <1>7, <2>1, <2>5, <2>6, <2>7, UndecidedKeeps
<1>6. CASE pc = "auth"
  <2>1. Finish(Greeted(Echo(wire[1]))) /\ "unsigned" \notin p.defects
    BY <1>1, <1>6 DEF Data, Continue, Exchange
  <2>2. wire[1] = Sealed(p)
    BY <1>1, <1>6 DEF Exchange
  <2>3. wire[1] \in {"auth", "forged"} =>
            wire[1] = Sealed(p) /\ p.manner \in {"plain", "hurried", "tampering"}
    BY <1>1 DEF Exchange
  <2>4. wire[1] = "auth" \/ Sealed(p) = "forged"
    BY <1>8, <2>2
  <2>. QED
    BY <1>1, <1>7, <2>1, <2>3, <2>4, GreetedKeeps
<1>. QED
  BY <1>3, <1>4, <1>5, <1>6 DEF Data, Awaiting

LEMMA HandshakeInitHolds == HandshakeInit => HInv
  BY HandshakeAssumption DEF HandshakeInit, HInv, HandshakeTypeOK, Underway, Entries,
     CleanMeansVouched, NoFalseAlarm

LEMMA HandshakeStepKeeps == HInv /\ [HandshakeNext]_handshakeVars => HInv'
<1>. SUFFICES ASSUME HInv, [HandshakeNext]_handshakeVars PROVE HInv'
  OBVIOUS
<1>1. CASE DialFails \/ DialIdle \/ Connected
  BY <1>1, DialFailsKeeps, DialIdleKeeps, ConnectedKeeps
<1>2. CASE PeerHello \/ PeerAuth \/ PeerGoesOn \/ PeerEnds
  BY <1>2, PeerHelloKeeps, PeerAuthKeeps, PeerGoesOnKeeps, PeerEndsKeeps
<1>3. CASE Close
  BY <1>3, BrokenKeeps DEF Close, HInv, HandshakeTypeOK
<1>4. CASE Timeout \/ Reset
  <2>1. /\ trouble' \in [Entries -> BOOLEAN] /\ turn \in Entries /\ trouble'[turn]
        /\ \A e \in Entries \ {turn} : trouble'[e] = trouble[e]
    BY <1>4 DEF Timeout, Reset, Awaiting, Auditing, HInv, HandshakeTypeOK
  <2>. QED
    BY <1>4, <2>1, BrokenKeeps DEF Timeout, Reset
<1>5. CASE \E n \in 1..3 : Data(n)
  BY <1>5, DataKeeps
<1>6. CASE UNCHANGED handshakeVars
  BY <1>6 DEF handshakeVars, HInv, HandshakeTypeOK, Underway, Exchange,
     CleanMeansVouched, NoFalseAlarm
<1>. QED
  BY <1>1, <1>2, <1>3, <1>4, <1>5, <1>6 DEF HandshakeNext

LEMMA HandshakesHold == Spec => []HInv
<1>1. Init => HInv
  BY HandshakeInitHolds DEF Init
<1>2. [Next]_vars => [HandshakeNext]_handshakeVars
  BY DEF Next, Crawl, Handshake, vars
<1>. QED
  BY <1>1, <1>2, HandshakeStepKeeps, PTL DEF Spec

\* A validator without a finding is the declared one, for any number of
\* validators and defects, any packets, resets and timeouts.
THEOREM CleanIsVouched == Spec => []CleanMeansVouched
<1>1. HInv => CleanMeansVouched
  BY DEF HInv
<1>. QED
  BY <1>1, HandshakesHold, PTL

\* A finding is never made of a sound validator by a peer's pace or by how its
\* frames share packets.
THEOREM AlarmsAreReal == Spec => []NoFalseAlarm
<1>1. HInv => NoFalseAlarm
  BY DEF HInv
<1>. QED
  BY <1>1, HandshakesHold, PTL

-----------------------------------------------------------------------------
(* The crawls.                                                             *)

Waiting == {queue[i].address : i \in DOMAIN queue}

\* Every seed was dialled or waits; nothing is queued beyond what may be visited;
\* what the crawl knows of a node is what the node said.
Walk ==
    /\ Range(seeds) \subseteq visited \cup Waiting
    /\ Len(seeds) <= MaxNodes[audit] =>
           Len(queue) + Cardinality(visited) <= MaxNodes[audit]
    /\ \A a \in visited : a \in errors \/ adjacency[a] = names[a]
    /\ ~crawled => finding.rule = "none"

CInv == CrawlTypeOK /\ Walk /\ IsolationHonest

LEMMA FiniteParts ==
  ASSUME CrawlTypeOK
  PROVE  /\ IsFiniteSet(visited) /\ Cardinality(visited) \in Nat
         /\ MaxNodes[audit] \in Nat /\ seeds \in Seq(Addresses)
         /\ names \in [Addresses -> SUBSET Addresses]
  BY CrawlAssumption, FS_Subset, FS_CardinalityType DEF CrawlTypeOK

\* A sequence with an element in S has a first one.
LEMMA FirstExists ==
  ASSUME NEW s \in Seq(Addresses), NEW S, S # {}, S \subseteq Range(s)
  PROVE  \E i \in DOMAIN s : s[i] \in S /\ \A j \in 1..(i - 1) : s[j] \notin S
<1>. DEFINE T == {i \in DOMAIN s : s[i] \in S}
<1>1. T \subseteq Nat /\ T # {}
  BY DEF Range
<1>2. PICK i \in T : \A j \in T : ~(<<j, i>> \in OpToRel(<, Nat))
  BY <1>1, WFMin, NatLessThanWellFounded
<1>3. ASSUME NEW j \in 1..(i - 1), s[j] \in S PROVE FALSE
  <2>1. j \in T /\ i \in Nat /\ j \in Nat /\ j < i
    BY <1>1, <1>3
  <2>2. <<j, i>> \in OpToRel(<, Nat)
    BY <2>1 DEF OpToRel
  <2>. QED
    BY <1>2, <2>1, <2>2
<1>. QED
  BY <1>3

\* The first entry is taken, and s is queued behind the others.
LEMMA QueueKeeps ==
  ASSUME CrawlTypeOK, queue # <<>>, NEW d \in Nat, NEW n \in Nat, NEW s \in [1..n -> Addresses],
         queue' = Tail(queue) \o Queued(s, d)
  PROVE  /\ queue' \in Seq(Entry) /\ Len(queue') = Len(queue) - 1 + n
         /\ Waiting \subseteq Waiting' \cup {Head(queue).address}
<1>. DEFINE t == Tail(queue)
            q == Queued(s, d)
<1>1. queue \in Seq(Entry) /\ t \in Seq(Entry) /\ Len(t) = Len(queue) - 1
      /\ \A i \in 1..Len(t) : t[i] = queue[i + 1]
  BY HeadTailProperties DEF CrawlTypeOK
<1>2. q \in [1..n -> Entry]
  BY DEF Queued, Entry
<1>3. q \in Seq(Entry) /\ Len(q) = n
  BY <1>2
<1>4. /\ queue' \in Seq(Entry) /\ Len(queue') = Len(t) + n
      /\ \A i \in 1..(Len(t) + n) : queue'[i] = IF i <= Len(t) THEN t[i] ELSE q[i - Len(t)]
  BY <1>1, <1>3, ConcatProperties
<1>5. ASSUME NEW i \in DOMAIN queue
      PROVE  queue[i].address \in Waiting' \cup {Head(queue).address}
  <2>1. CASE i = 1
    BY <1>1, <2>1
  <2>2. CASE i # 1
    <3>1. i - 1 \in 1..Len(t) /\ queue[i] = t[i - 1] /\ i - 1 \in DOMAIN queue'
      BY <1>1, <1>4, <2>2
    <3>2. queue'[i - 1] = t[i - 1]
      BY <1>1, <1>4, <3>1
    <3>. QED
      BY <3>1, <3>2 DEF Waiting
  <2>. QED
    BY <2>1, <2>2
<1>. QED
  BY <1>1, <1>4, <1>5 DEF Waiting

\* A visited entry, or one that names nobody new, only shortens the queue.
LEMMA TailKeeps ==
  ASSUME CrawlTypeOK, queue # <<>>, queue' = Tail(queue)
  PROVE  /\ queue' \in Seq(Entry) /\ Len(queue') = Len(queue) - 1
         /\ Waiting \subseteq Waiting' \cup {Head(queue).address}
<1>1. queue \in Seq(Entry) /\ queue' \in Seq(Entry) /\ Len(queue') = Len(queue) - 1
      /\ \A i \in 1..Len(queue') : queue'[i] = queue[i + 1]
  BY HeadTailProperties DEF CrawlTypeOK
<1>2. ASSUME NEW i \in DOMAIN queue
      PROVE  queue[i].address \in Waiting' \cup {Head(queue).address}
  <2>1. CASE i = 1
    BY <1>1, <2>1
  <2>2. CASE i # 1
    <3>1. i - 1 \in DOMAIN queue' /\ queue'[i - 1] = queue[i]
      BY <1>1, <2>2
    <3>. QED
      BY <3>1 DEF Waiting
  <2>. QED
    BY <2>1, <2>2
<1>. QED
  BY <1>1, <1>2 DEF Waiting

LEMMA HeadParts ==
  ASSUME CrawlTypeOK, Crawling
  PROVE  /\ ~crawled /\ queue # <<>> /\ Len(queue) \in Nat /\ Len(queue) >= 1
         /\ Head(queue).address \in Addresses /\ Head(queue).depth \in Nat
<1>1. ~crawled /\ queue # <<>> /\ queue \in Seq(Entry)
  BY DEF CrawlTypeOK, Crawling
<1>2. Head(queue) \in Entry /\ Len(queue) \in Nat /\ Len(queue) >= 1
  BY <1>1, HeadTailProperties
<1>. QED
  BY <1>1, <1>2 DEF Entry

\* What a visit queues fits.
LEMMA DiscoveriesFit ==
  ASSUME CrawlTypeOK, NEW a \in Addresses, NEW d \in Nat, NEW s \in Discoveries(a, d)
  PROVE  \E n \in 0..Room : s \in [1..n -> Addresses]
<1>. DEFINE eligible == names[a] \ (visited \cup {a})
            many == IF Cardinality(eligible) < Room THEN Cardinality(eligible) ELSE Room
<1>1. eligible \subseteq Addresses
  BY FiniteParts
<1>2. Cardinality(eligible) \in Nat
  BY <1>1, CrawlAssumption, FS_Subset, FS_CardinalityType
<1>3. Room \in Nat
  <2>1. Len(queue) \in Nat /\ Cardinality(visited) \in Nat /\ MaxNodes[audit] \in Nat
    BY FiniteParts DEF CrawlTypeOK
  <2>. QED
    BY <2>1 DEF Room
<1>4. many \in 0..Room
  BY <1>2, <1>3
<1>5. CASE MayExpand(d)
  <2>1. s \in Injection(1..many, eligible)
    BY <1>5 DEF Discoveries
  <2>2. s \in [1..many -> Addresses]
    BY <1>1, <2>1 DEF Injection
  <2>. QED
    BY <1>4, <2>2
<1>6. CASE ~MayExpand(d)
  <2>1. s = <<>>
    BY <1>6 DEF Discoveries
  <2>2. s \in [1..0 -> Addresses]
    BY <2>1
  <2>. QED
    BY <1>3, <2>2
<1>. QED
  BY <1>5, <1>6

LEMMA OneMore ==
  ASSUME CrawlTypeOK, NEW a \in Addresses, a \notin visited
  PROVE  Cardinality(visited \cup {a}) = Cardinality(visited) + 1
  BY FiniteParts, FS_AddElement

LEMMA SkipKeeps == ASSUME CInv, Skip PROVE CInv'
<1>1. CrawlTypeOK /\ queue # <<>> /\ queue' = Tail(queue) /\ Len(queue) \in Nat
      /\ Head(queue).address \in visited
  BY HeadParts DEF CInv, Skip
<1>2. /\ queue' \in Seq(Entry) /\ Len(queue') = Len(queue) - 1
      /\ Waiting \subseteq Waiting' \cup {Head(queue).address}
  BY <1>1, TailKeeps
<1>3. CrawlTypeOK'
  BY <1>1, <1>2 DEF Skip, CrawlTypeOK
<1>4. Walk'
  BY <1>1, <1>2, FiniteParts DEF CInv, Walk, Skip
<1>. QED
  BY <1>3, <1>4 DEF CInv, IsolationHonest, Skip

\* Nothing is found before the crawl reports.
LEMMA NotYetFound ==
  ASSUME Walk, ~crawled, finding' = finding
  PROVE  IsolationHonest'
  BY DEF Walk, IsolationHonest

LEMMA AnsweredKeeps == ASSUME CInv, Answered PROVE CInv'
<1>. DEFINE a == Head(queue).address
            d == Head(queue).depth
<1>1. /\ CrawlTypeOK /\ Walk /\ ~crawled /\ queue # <<>> /\ Len(queue) \in Nat
      /\ a \in Addresses /\ d \in Nat /\ a \notin visited
      /\ visited' = visited \cup {a} /\ adjacency' = [adjacency EXCEPT ![a] = names[a]]
  BY HeadParts DEF CInv, Answered
<1>2. PICK s \in Discoveries(a, d) : queue' = Tail(queue) \o Queued(s, d + 1)
  BY DEF Answered
<1>3. PICK n \in 0..Room : s \in [1..n -> Addresses]
  BY <1>1, DiscoveriesFit
<1>4. Cardinality(visited) \in Nat /\ MaxNodes[audit] \in Nat
      /\ names \in [Addresses -> SUBSET Addresses]
  BY <1>1, FiniteParts
<1>5. Room \in Nat /\ (Room = 0 \/ Room + Len(queue) + Cardinality(visited) = MaxNodes[audit])
  BY <1>1, <1>4 DEF Room
<1>6. n \in Nat /\ n <= Room /\ d + 1 \in Nat
  BY <1>1, <1>5
<1>7. /\ queue' \in Seq(Entry) /\ Len(queue') = Len(queue) - 1 + n
      /\ Waiting \subseteq Waiting' \cup {a}
  BY <1>1, <1>2, <1>3, <1>6, QueueKeeps
<1>8. CrawlTypeOK'
  <2>1. names[a] \in SUBSET Addresses /\ adjacency \in [Addresses -> SUBSET Addresses]
    BY <1>1, <1>4 DEF CrawlTypeOK
  <2>2. adjacency' \in [Addresses -> SUBSET Addresses]
    BY <1>1, <2>1
  <2>3. visited' \subseteq Addresses /\ errors' \subseteq visited'
    BY <1>1 DEF Answered, CrawlTypeOK
  <2>4. UNCHANGED <<audit, names, seeds, tier1, errors, finding, paths, crawled>>
    BY DEF Answered
  <2>. QED
    BY <1>1, <1>7, <2>2, <2>3, <2>4 DEF CrawlTypeOK
<1>9. Cardinality(visited') = Cardinality(visited) + 1
  BY <1>1, OneMore
<1>10. Walk'
  <2>1. Range(seeds)' \subseteq visited' \cup Waiting'
    BY <1>1, <1>7 DEF Walk, Answered
  <2>2. Len(seeds)' <= MaxNodes[audit'] =>
           Len(queue') + Cardinality(visited') <= MaxNodes[audit']
    <3>1. seeds' = seeds /\ audit' = audit
      BY DEF Answered
    <3>. QED
      BY <1>1, <1>4, <1>5, <1>6, <1>7, <1>9, <3>1 DEF Walk
  <2>3. \A b \in visited' : b \in errors' \/ adjacency'[b] = names'[b]
    BY <1>1 DEF Walk, Answered, CrawlTypeOK
  <2>. QED
    BY <1>1, <2>1, <2>2, <2>3 DEF Walk, Answered
<1>. QED
  BY <1>1, <1>8, <1>10, NotYetFound DEF CInv, Answered

LEMMA UnansweredKeeps == ASSUME CInv, Unanswered PROVE CInv'
<1>. DEFINE a == Head(queue).address
<1>1. /\ CrawlTypeOK /\ Walk /\ ~crawled /\ queue # <<>> /\ Len(queue) \in Nat
      /\ a \in Addresses /\ a \notin visited
      /\ visited' = visited \cup {a} /\ errors' = errors \cup {a} /\ queue' = Tail(queue)
  BY HeadParts DEF CInv, Unanswered
<1>2. /\ queue' \in Seq(Entry) /\ Len(queue') = Len(queue) - 1
      /\ Waiting \subseteq Waiting' \cup {a}
  BY <1>1, TailKeeps
<1>3. CrawlTypeOK'
  BY <1>1, <1>2 DEF Unanswered, CrawlTypeOK
<1>4. Cardinality(visited') = Cardinality(visited) + 1 /\ Cardinality(visited) \in Nat
      /\ MaxNodes[audit] \in Nat
  BY <1>1, OneMore, FiniteParts
<1>5. Walk'
  <2>1. Range(seeds)' \subseteq visited' \cup Waiting'
    BY <1>1, <1>2 DEF Walk, Unanswered
  <2>2. Len(seeds)' <= MaxNodes[audit'] =>
           Len(queue') + Cardinality(visited') <= MaxNodes[audit']
    <3>1. seeds' = seeds /\ audit' = audit
      BY DEF Unanswered
    <3>. QED
      BY <1>1, <1>2, <1>4, <3>1 DEF Walk
  <2>. QED
    BY <1>1, <2>1, <2>2 DEF Walk, Unanswered
<1>6. IsolationHonest'
  BY <1>1, NotYetFound DEF Unanswered
<1>. QED
  BY <1>3, <1>5, <1>6 DEF CInv

\* What checkOverlayPeers() names is a seed of whose peers the crawl knows none
\* or few.
LEMMA PeersFindingNames ==
  ASSUME CrawlTypeOK
  PROVE  /\ PeersFinding \in [rule : CrawlRules, address : Addresses \cup {NoAddress}]
         /\ PeersFinding.rule = "isolated-node-zero-peers" =>
                /\ PeersFinding.address \in Range(seeds)
                /\ adjacency[PeersFinding.address] = {}
<1>. DEFINE first(S) == CHOOSE i \in DOMAIN seeds : seeds[i] \in S /\
                            \A j \in 1..(i - 1) : seeds[j] \notin S
            zero == {a \in Range(seeds) : adjacency[a] = {}}
            low == {a \in Range(seeds) : Cardinality(adjacency[a]) <= FewPeers}
<1>1. seeds \in Seq(Addresses) /\ Range(seeds) \subseteq Addresses
  BY FiniteParts DEF Range
<1>2. zero # {} => seeds[first(zero)] \in zero
  <2>1. zero \subseteq Range(seeds)
    OBVIOUS
  <2>2. zero # {} => \E i \in DOMAIN seeds : seeds[i] \in zero /\
                            \A j \in 1..(i - 1) : seeds[j] \notin zero
    BY <1>1, <2>1, FirstExists
  <2>. QED
    BY <2>2
<1>3. low # {} => seeds[first(low)] \in low
  <2>1. low \subseteq Range(seeds)
    OBVIOUS
  <2>2. low # {} => \E i \in DOMAIN seeds : seeds[i] \in low /\
                            \A j \in 1..(i - 1) : seeds[j] \notin low
    BY <1>1, <2>1, FirstExists
  <2>. QED
    BY <2>2
<1>4. CASE zero # {}
  <2>1. PeersFinding = [rule |-> "isolated-node-zero-peers", address |-> seeds[first(zero)]]
    BY <1>4 DEF PeersFinding
  <2>. QED
    BY <1>1, <1>2, <1>4, <2>1 DEF CrawlRules
<1>5. CASE zero = {} /\ low # {}
  <2>1. PeersFinding = [rule |-> "low-peer-count", address |-> seeds[first(low)]]
    BY <1>5 DEF PeersFinding
  <2>. QED
    BY <1>1, <1>3, <1>5, <2>1 DEF CrawlRules
<1>6. CASE zero = {} /\ low = {}
  <2>1. PeersFinding = [rule |-> "none", address |-> NoAddress]
    BY <1>6 DEF PeersFinding
  <2>. QED
    BY <2>1 DEF CrawlRules
<1>. QED
  BY <1>4, <1>5, <1>6

LEMMA ReportPeersKeeps == ASSUME CInv, ReportPeers PROVE CInv'
<1>1. CrawlTypeOK /\ Walk /\ finding' = PeersFinding /\ crawled' = TRUE
      /\ UNCHANGED <<audit, names, seeds, tier1, queue, visited, adjacency, errors, paths>>
  BY DEF CInv, ReportPeers
<1>2. CrawlTypeOK'
  BY <1>1, PeersFindingNames DEF CrawlTypeOK
<1>3. Walk'
  BY <1>1 DEF Walk, Waiting
<1>4. ASSUME Len(seeds) <= MaxNodes[audit] PROVE Range(seeds) \subseteq visited
  <2>1. /\ Len(queue) \in Nat /\ Cardinality(visited) \in Nat /\ MaxNodes[audit] \in Nat
        /\ queue \in Seq(Entry)
    BY <1>1, FiniteParts DEF CrawlTypeOK
  <2>2. queue = <<>> \/ Cardinality(visited) >= MaxNodes[audit]
    BY <2>1 DEF ReportPeers, Crawling
  <2>3. Len(queue) = 0
    BY <1>1, <1>4, <2>1, <2>2 DEF Walk
  <2>4. Waiting = {}
    BY <2>1, <2>3 DEF Waiting
  <2>. QED
    BY <1>1, <2>4 DEF Walk
<1>5. IsolationHonest'
  BY <1>1, <1>4, PeersFindingNames DEF Walk, IsolationHonest
<1>. QED
  BY <1>2, <1>3, <1>5 DEF CInv

LEMMA ReportTopologyKeeps == ASSUME CInv, ReportTopology PROVE CInv'
<1>1. CrawlTypeOK /\ Walk /\ paths' = Analyze(tier1) /\ crawled' = TRUE /\ ~crawled
      /\ UNCHANGED <<audit, names, seeds, tier1, queue, visited, adjacency, errors, finding>>
  BY DEF CInv, ReportTopology
<1>2. Analyze(tier1) \in [unreachable : SUBSET Addresses, far : SUBSET Addresses]
  <2>1. visited \cup UNION {adjacency[a] : a \in visited} \subseteq Addresses
    BY <1>1 DEF CrawlTypeOK
  <2>. QED
    BY <2>1 DEF Analyze
<1>3. CrawlTypeOK'
  BY <1>1, <1>2 DEF CrawlTypeOK
<1>4. Walk'
  BY <1>1 DEF Walk, Waiting
<1>. QED
  BY <1>1, <1>3, <1>4, NotYetFound DEF CInv

LEMMA CrawlInitHolds == CrawlInit => CInv
<1>. SUFFICES ASSUME CrawlInit PROVE CInv
  OBVIOUS
<1>1. seeds \in Seq(Addresses) /\ seeds # <<>>
  BY CrawlAssumption DEF CrawlInit
<1>2. queue \in Seq(Entry) /\ Len(queue) = Len(seeds) /\ Waiting = Range(seeds)
  <2>1. queue = [i \in DOMAIN seeds |-> [address |-> seeds[i], depth |-> 0]]
    BY DEF CrawlInit
  <2>2. queue \in [1..Len(seeds) -> Entry] /\ DOMAIN queue = DOMAIN seeds
        /\ \A i \in DOMAIN seeds : queue[i].address = seeds[i]
    BY <1>1, <2>1 DEF Entry
  <2>3. Waiting = Range(seeds)
    BY <2>2 DEF Waiting, Range
  <2>. QED
    BY <1>1, <2>2, <2>3
<1>3. CrawlTypeOK
  BY <1>2 DEF CrawlInit, CrawlTypeOK, CrawlRules
<1>4. Cardinality(visited) = 0
  BY FS_EmptySet DEF CrawlInit
<1>5. Walk
  BY <1>1, <1>2, <1>4, <1>3, FiniteParts DEF CrawlInit, Walk
<1>. QED
  BY <1>3, <1>5 DEF CInv, IsolationHonest, CrawlInit

LEMMA CrawlStepKeeps == CInv /\ [CrawlNext]_crawlVars => CInv'
<1>. SUFFICES ASSUME CInv, [CrawlNext]_crawlVars PROVE CInv'
  OBVIOUS
<1>1. CASE CrawlNext
  BY <1>1, SkipKeeps, AnsweredKeeps, UnansweredKeeps, ReportPeersKeeps, ReportTopologyKeeps
     DEF CrawlNext
<1>2. CASE UNCHANGED crawlVars
  BY <1>2 DEF crawlVars, CInv, CrawlTypeOK, Walk, Waiting, IsolationHonest
<1>. QED
  BY <1>1, <1>2

LEMMA CrawlsHold == Spec => []CInv
<1>1. Init => CInv
  BY CrawlInitHolds DEF Init
<1>2. [Next]_vars => [CrawlNext]_crawlVars
  BY DEF Next, Crawl, Handshake, vars
<1>. QED
  BY <1>1, <1>2, CrawlStepKeeps, PTL DEF Spec

\* A seed reported without peers was dialled, for any network, seeds and limits.
THEOREM IsolatedIsIsolated == Spec => []IsolationHonest
<1>1. CInv => IsolationHonest
  BY DEF CInv
<1>. QED
  BY <1>1, CrawlsHold, PTL

-----------------------------------------------------------------------------
(* Paths: Within() is a function defined by recursion on the number of hops. *)

\* Induction up to n: the least number outside T would have a predecessor in T.
LEMMA Climb ==
  ASSUME NEW n \in Nat, NEW T, 0 \in T, \A k \in 0..(n - 1) : k \in T => k + 1 \in T
  PROVE  \A k \in 0..n : k \in T
<1>. DEFINE B == {k \in 0..n : k \notin T}
<1>. SUFFICES ASSUME B # {} PROVE FALSE
  OBVIOUS
<1>1. B \subseteq Nat /\ B # {}
  OBVIOUS
<1>2. PICK b \in B : \A j \in B : ~(<<j, b>> \in OpToRel(<, Nat))
  BY <1>1, WFMin, NatLessThanWellFounded
<1>3. b \in 0..n /\ b \notin T
  BY <1>2
<1>4. b - 1 \in 0..(n - 1) /\ b \in Nat /\ b - 1 < b
  BY <1>3
<1>5. <<b - 1, b>> \in OpToRel(<, Nat)
  BY <1>4 DEF OpToRel
<1>6. b - 1 \notin B
  <2>. HIDE DEF B
  <2>. QED
    BY <1>2, <1>5
<1>. QED
  BY <1>3, <1>4, <1>6

\* S and its neighbours.
Spread(g, S) == S \cup UNION {g[a] : a \in S}

\* f is the ball of Within() for the radii in R.
IsBall(g, from, R, f) ==
    f = [k \in R |-> IF k = 0 THEN from ELSE Spread(g, f[k - 1])]

\* There is such a function up to every radius: one more radius extends it.
LEMMA BallUpTo ==
  ASSUME NEW g, NEW from, NEW n \in Nat
  PROVE  \E f : IsBall(g, from, 0..n, f)
<1>. DEFINE T == {m \in Nat : \E f : IsBall(g, from, 0..m, f)}
<1>1. 0 \in T
  <2>. DEFINE e == [k \in 0..0 |-> from]
  <2>1. IsBall(g, from, 0..0, e)
    BY DEF IsBall
  <2>. QED
    BY <2>1
<1>2. ASSUME NEW m \in 0..(n - 1), m \in T PROVE m + 1 \in T
  <2>1. m \in Nat /\ m + 1 \in Nat
    OBVIOUS
  <2>2. PICK f : IsBall(g, from, 0..m, f)
    BY <1>2
  <2>. DEFINE e == [k \in 0..(m + 1) |-> IF k = m + 1 THEN Spread(g, f[m]) ELSE f[k]]
  <2>3. ASSUME NEW k \in 0..(m + 1)
        PROVE  e[k] = IF k = 0 THEN from ELSE Spread(g, e[k - 1])
    <3>1. \A j \in 0..m : f[j] = IF j = 0 THEN from ELSE Spread(g, f[j - 1])
      BY <2>2 DEF IsBall
    <3>2. CASE k = m + 1
      BY <2>1, <3>2
    <3>3. CASE k # m + 1
      <4>1. k \in 0..m /\ e[k] = f[k]
        BY <2>1, <3>3
      <4>2. k # 0 => k - 1 \in 0..(m + 1) /\ k - 1 # m + 1
        BY <2>1, <4>1
      <4>. QED
        BY <3>1, <4>1, <4>2
    <3>. QED
      BY <3>2, <3>3
  <2>4. IsBall(g, from, 0..(m + 1), e)
    BY <2>3 DEF IsBall
  <2>. QED
    BY <2>1, <2>4
<1>. HIDE DEF T
<1>3. n \in T
  BY <1>1, <1>2, Climb
<1>. QED
  BY <1>3 DEF T

\* Two of them agree where both are defined.
LEMMA BallsAgree ==
  ASSUME NEW g, NEW from, NEW n \in Nat, NEW m \in Nat, n <= m,
         NEW e, IsBall(g, from, 0..n, e), NEW f, IsBall(g, from, 0..m, f)
  PROVE  \A k \in 0..n : e[k] = f[k]
<1>. DEFINE T == {k \in 0..n : e[k] = f[k]}
<1>1. /\ \A k \in 0..n : e[k] = IF k = 0 THEN from ELSE Spread(g, e[k - 1])
      /\ \A k \in 0..m : f[k] = IF k = 0 THEN from ELSE Spread(g, f[k - 1])
  BY DEF IsBall
<1>2. 0 \in T
  BY <1>1
<1>3. ASSUME NEW k \in 0..(n - 1), k \in T PROVE k + 1 \in T
  <2>1. k + 1 \in 0..n /\ k + 1 \in 0..m /\ k + 1 # 0 /\ (k + 1) - 1 = k
    OBVIOUS
  <2>. QED
    BY <1>1, <1>3, <2>1
<1>4. \A k \in 0..n : k \in T
  BY <1>2, <1>3, Climb
<1>. QED
  BY <1>4

\* So there is one for all radii: at each, what the ones up to it agree on.
LEMMA BallExists ==
  ASSUME NEW g, NEW from
  PROVE  \E f : IsBall(g, from, Nat, f)
<1>. DEFINE c == [n \in Nat |-> CHOOSE f : IsBall(g, from, 0..n, f)]
            h == [n \in Nat |-> c[n][n]]
<1>1. \A n \in Nat : IsBall(g, from, 0..n, c[n])
  BY BallUpTo
<1>. HIDE DEF c
<1>2. ASSUME NEW n \in Nat
      PROVE  h[n] = IF n = 0 THEN from ELSE Spread(g, h[n - 1])
  <2>1. c[n][n] = IF n = 0 THEN from ELSE Spread(g, c[n][n - 1])
    <3>1. n \in 0..n
      OBVIOUS
    <3>. QED
      BY <1>1, <3>1 DEF IsBall
  <2>2. ASSUME n # 0
        PROVE  c[n][n - 1] = c[n - 1][n - 1]
    <3>. DEFINE p == n - 1
    <3>1. p \in Nat /\ p <= n /\ p \in 0..p
      BY <2>2
    <3>. HIDE DEF p
    <3>2. IsBall(g, from, 0..p, c[p]) /\ IsBall(g, from, 0..n, c[n])
      BY <1>1, <3>1
    <3>3. ASSUME NEW e, IsBall(g, from, 0..p, e), NEW f, IsBall(g, from, 0..n, f)
          PROVE  \A k \in 0..p : e[k] = f[k]
      BY <3>1, <3>3, BallsAgree
    <3>4. \A k \in 0..p : c[p][k] = c[n][k]
      BY <3>2, <3>3
    <3>5. c[n][p] = c[p][p]
      BY <3>1, <3>4
    <3>. QED
      BY <3>5 DEF p
  <2>3. n # 0 => n - 1 \in Nat
    OBVIOUS
  <2>. QED
    BY <2>1, <2>2, <2>3
<1>3. IsBall(g, from, Nat, h)
  BY <1>2 DEF IsBall
<1>. QED
  BY <1>3

\* What Within() computes, radius by radius.
LEMMA WithinStep ==
  ASSUME NEW g, NEW from
  PROVE  /\ Within(g, from, 0) = from
         /\ \A n \in Nat : Within(g, from, n + 1) = Spread(g, Within(g, from, n))
<1>. DEFINE f == CHOOSE ball : IsBall(g, from, Nat, ball)
<1>1. IsBall(g, from, Nat, f)
  BY BallExists
<1>2. \A n : Within(g, from, n) = f[n]
  BY DEF Within, IsBall, Spread
<1>. HIDE DEF f
<1>3. f[0] = from
  BY <1>1 DEF IsBall
<1>4. ASSUME NEW n \in Nat PROVE f[n + 1] = Spread(g, f[n])
  <2>1. n + 1 \in Nat /\ n + 1 # 0 /\ (n + 1) - 1 = n
    OBVIOUS
  <2>. QED
    BY <1>1, <2>1 DEF IsBall
<1>. QED
  BY <1>2, <1>3, <1>4

\* Paths do not leave a closed set they start in.
LEMMA WithinIn ==
  ASSUME NEW g \in [Addresses -> SUBSET Addresses], NEW S \in SUBSET Addresses,
         \A a \in S : g[a] \subseteq S, NEW from \in SUBSET S, NEW n \in Nat
  PROVE  Within(g, from, n) \subseteq S
<1>. DEFINE T == {k \in 0..n : Within(g, from, k) \subseteq S}
<1>1. 0 \in T
  BY WithinStep
<1>2. ASSUME NEW k \in 0..(n - 1), k \in T PROVE k + 1 \in T
  <2>. k \in Nat
    OBVIOUS
  <2>1. Within(g, from, k + 1) = Spread(g, Within(g, from, k))
    BY WithinStep, Zenon
  <2>. QED
    BY <1>2, <2>1 DEF Spread
<1>3. \A k \in 0..n : k \in T
  <2>. HIDE DEF T
  <2>. QED
    BY <1>1, <1>2, Climb
<1>. QED
  BY <1>3

\* More hops reach no less.
LEMMA WithinGrows ==
  ASSUME NEW g, NEW from, NEW m \in Nat, NEW n \in Nat, m <= n
  PROVE  Within(g, from, m) \subseteq Within(g, from, n)
<1>. DEFINE T == {k \in 0..(n - m) : Within(g, from, m) \subseteq Within(g, from, m + k)}
<1>1. 0 \in T
  OBVIOUS
<1>2. ASSUME NEW k \in 0..((n - m) - 1), k \in T PROVE k + 1 \in T
  <2>1. m + k \in Nat /\ m + (k + 1) = (m + k) + 1 /\ k + 1 \in 0..(n - m)
    OBVIOUS
  <2>2. Within(g, from, (m + k) + 1) = Spread(g, Within(g, from, m + k))
    BY <2>1, WithinStep
  <2>3. Within(g, from, m) \subseteq Within(g, from, m + k)
    BY <1>2
  <2>. QED
    BY <2>1, <2>2, <2>3 DEF Spread
<1>3. n - m \in Nat /\ m + (n - m) = n
  OBVIOUS
<1>4. \A k \in 0..(n - m) : k \in T
  <2>. HIDE DEF T
  <2>. QED
    BY <1>1, <1>2, <1>3, Climb
<1>5. n - m \in T
  BY <1>3, <1>4
<1>. QED
  BY <1>3, <1>5

\* More edges reach no less.
LEMMA WithinMore ==
  ASSUME NEW g \in [Addresses -> SUBSET Addresses], NEW h \in [Addresses -> SUBSET Addresses],
         \A a \in Addresses : g[a] \subseteq h[a], NEW from \in SUBSET Addresses, NEW n \in Nat
  PROVE  Within(g, from, n) \subseteq Within(h, from, n)
<1>. DEFINE T == {k \in 0..n : Within(g, from, k) \subseteq Within(h, from, k)}
<1>1. 0 \in T
  BY WithinStep
<1>2. ASSUME NEW k \in 0..(n - 1), k \in T PROVE k + 1 \in T
  <2>. k \in Nat
    OBVIOUS
  <2>1. /\ Within(g, from, k + 1) = Spread(g, Within(g, from, k))
        /\ Within(h, from, k + 1) = Spread(h, Within(h, from, k))
    BY WithinStep, Zenon
  <2>2. Within(g, from, k) \subseteq Addresses
    BY WithinIn
  <2>. QED
    BY <1>2, <2>1, <2>2 DEF Spread
<1>3. \A k \in 0..n : k \in T
  <2>. HIDE DEF T
  <2>. QED
    BY <1>1, <1>2, Climb
<1>. QED
  BY <1>3

\* Edges of nodes out of reach do not matter.
LEMMA WithinSame ==
  ASSUME NEW g, NEW h, NEW from, NEW n \in Nat,
         \A k \in 0..(n - 1) : \A a \in Within(g, from, k) : h[a] = g[a]
  PROVE  Within(h, from, n) = Within(g, from, n)
<1>. DEFINE T == {k \in 0..n : Within(h, from, k) = Within(g, from, k)}
<1>1. 0 \in T
  BY WithinStep
<1>2. ASSUME NEW k \in 0..(n - 1), k \in T PROVE k + 1 \in T
  <2>. k \in Nat
    OBVIOUS
  <2>1. /\ Within(g, from, k + 1) = Spread(g, Within(g, from, k))
        /\ Within(h, from, k + 1) = Spread(h, Within(h, from, k))
    BY WithinStep, Zenon
  <2>2. Within(h, from, k) = Within(g, from, k)
    BY <1>2
  <2>3. Spread(h, Within(g, from, k)) = Spread(g, Within(g, from, k))
    BY DEF Spread
  <2>. QED
    BY <2>1, <2>2, <2>3
<1>3. \A k \in 0..n : k \in T
  <2>. HIDE DEF T
  <2>. QED
    BY <1>1, <1>2, Climb
<1>. QED
  BY <1>3

\* After as many hops as there are nodes, no path leads further: until then every
\* hop adds a node.
LEMMA WithinFixed ==
  ASSUME NEW g \in [Addresses -> SUBSET Addresses], NEW from \in SUBSET Addresses
  PROVE  \A a \in Within(g, from, Cardinality(Addresses)) :
             g[a] \subseteq Within(g, from, Cardinality(Addresses))
<1>. DEFINE N == Cardinality(Addresses)
            W(k) == Within(g, from, k)
            T == {k \in 0..N : Cardinality(W(k)) >= k \/ Spread(g, W(k)) = W(k)}
<1>1. N \in Nat /\ IsFiniteSet(Addresses)
  BY CrawlAssumption, FS_CardinalityType
<1>2. \A k \in Nat : W(k) \subseteq Addresses /\ IsFiniteSet(W(k)) /\ Cardinality(W(k)) \in Nat
  <2>1. \A k \in Nat : W(k) \subseteq Addresses
    BY WithinIn
  <2>. QED
    BY <1>1, <2>1, FS_Subset, FS_CardinalityType
<1>3. \A k \in Nat : W(k + 1) = Spread(g, W(k)) /\ W(k) \subseteq W(k + 1)
  <2>1. \A k \in Nat : W(k + 1) = Spread(g, W(k))
    BY WithinStep, Zenon
  <2>2. \A k \in Nat : W(k) \subseteq Spread(g, W(k))
    BY DEF Spread
  <2>. QED
    BY <2>1, <2>2
<1>. HIDE DEF W, N
<1>4. 0 \in T
  BY <1>1, <1>2
<1>5. ASSUME NEW k \in 0..(N - 1), k \in T PROVE k + 1 \in T
  <2>1. k \in Nat /\ k + 1 \in Nat /\ k + 1 \in 0..N
    BY <1>1
  <2>2. CASE W(k + 1) = W(k)
    BY <1>3, <2>1, <2>2
  <2>3. CASE W(k + 1) # W(k)
    <3>1. Cardinality(W(k)) >= k
      BY <1>3, <1>5, <2>1, <2>3
    <3>2. Cardinality(W(k)) < Cardinality(W(k + 1))
      <4>1. W(k) \subseteq W(k + 1) /\ IsFiniteSet(W(k + 1))
        BY <1>2, <1>3, <2>1
      <4>2. Cardinality(W(k)) <= Cardinality(W(k + 1))
            /\ (Cardinality(W(k)) = Cardinality(W(k + 1)) => W(k) = W(k + 1))
        BY <4>1, FS_Subset
      <4>. QED
        BY <1>2, <2>1, <2>3, <4>2
    <3>. QED
      BY <1>2, <2>1, <3>1, <3>2
  <2>. QED
    BY <2>2, <2>3
<1>6. N \in T
  <2>1. \A k \in 0..N : k \in T
    <3>. HIDE DEF T
    <3>. QED
      BY <1>1, <1>4, <1>5, Climb
  <2>. QED
    BY <1>1, <2>1
<1>7. Spread(g, W(N)) = W(N)
  <2>1. CASE Cardinality(W(N)) >= N
    <3>1. W(N) = Addresses
      <4>1. W(N) \subseteq Addresses /\ Cardinality(W(N)) \in Nat
        BY <1>1, <1>2
      <4>2. Cardinality(W(N)) <= N /\ (Cardinality(W(N)) = N => W(N) = Addresses)
        BY <1>1, <4>1, FS_Subset DEF N
      <4>. QED
        BY <1>1, <2>1, <4>1, <4>2
    <3>. QED
      BY <3>1 DEF Spread
  <2>. QED
    BY <1>6, <2>1
<1>8. \A a \in W(N) : g[a] \subseteq W(N)
  BY <1>7 DEF Spread
<1>. QED
  BY <1>8 DEF W, N

-----------------------------------------------------------------------------
(* The crawls, continued: which nodes they visit.                          *)

\* The nodes within h hops of the seeds, as far as the crawl was told.
Reach(h) == Within(adjacency, Range(seeds), h)

Depth == MaxDepth[audit]

\* Seeds and edges the crawl was told of: all it ever queues.
Told == Len(seeds) + Links(adjacency, visited)

\* x waits to be visited at depth h or less.
Due(x, h) == \E i \in DOMAIN queue : queue[i].address = x /\ queue[i].depth <= h

\* What is known of a node is what it answered, and nothing before.
Heard == \A a \in Addresses : adjacency[a] = IF a \in visited \ errors THEN names[a] ELSE {}

\* The queue is in the order of the depths, which span two layers at most.
Sorted == \A i, j \in DOMAIN queue : /\ i <= j => queue[i].depth <= queue[j].depth
                                     /\ queue[j].depth <= queue[i].depth + 1

\* Every entry is no deeper than a path to it, and no shallower than what was visited.
Layered ==
    /\ visited \subseteq Reach(Depth)
    /\ \A i \in DOMAIN queue : /\ queue[i].depth <= Depth
                               /\ queue[i].address \in Reach(queue[i].depth)
                               /\ visited \subseteq Reach(queue[i].depth)

\* The queue holds no more than was heard of.
Sparse == Len(queue) + Cardinality(visited) <= Told

\* Nothing heard of is forgotten: it was visited, or waits at its depth.
Thorough ==
    Told <= MaxNodes[audit] =>
        /\ \A x \in Range(seeds) : x \in visited \/ Due(x, 0)
        /\ \A m \in Nat : m < Depth =>
              \A y \in visited \cap Reach(m) : \A x \in adjacency[y] :
                  x \in visited \/ Due(x, m + 1)

\* A crawl reports when its loop has ended.
Ended ==
    crawled => /\ ~(queue # <<>> /\ Cardinality(visited) < MaxNodes[audit])
               /\ audit = "topology" => paths = Analyze(tier1)

LEMMA ToldTyped ==
  ASSUME CrawlTypeOK
  PROVE  /\ Told \in Nat /\ Links(adjacency, visited) \in Nat /\ Len(seeds) \in Nat
         /\ Len(queue) \in Nat /\ Cardinality(visited) \in Nat
         /\ Depth \in Nat /\ MaxNodes[audit] \in Nat
         /\ Range(seeds) \subseteq Addresses
         /\ adjacency \in [Addresses -> SUBSET Addresses]
<1>1. IsFiniteSet(visited) /\ IsFiniteSet(Addresses) /\ Len(seeds) \in Nat
      /\ Range(seeds) \subseteq Addresses
  BY FiniteParts, CrawlAssumption DEF Range
<1>2. IsFiniteSet(visited \X Addresses)
  BY <1>1, FS_Product
<1>3. {e \in visited \X Addresses : e[2] \in adjacency[e[1]]} \subseteq visited \X Addresses
  OBVIOUS
<1>4. Links(adjacency, visited) \in Nat
  BY <1>2, <1>3, FS_Subset, FS_CardinalityType DEF Links
<1>. QED
  BY <1>1, <1>4, FiniteParts, CrawlAssumption DEF Told, Depth, CrawlTypeOK

LEMMA EntryParts ==
  ASSUME CrawlTypeOK, NEW i \in DOMAIN queue
  PROVE  /\ i \in Nat /\ i >= 1 /\ i <= Len(queue)
         /\ queue[i].address \in Addresses /\ queue[i].depth \in Nat
<1>1. queue \in Seq(Entry)
  BY DEF CrawlTypeOK
<1>2. i \in 1..Len(queue) /\ queue[i] \in Entry
  BY <1>1
<1>. QED
  BY <1>1, <1>2 DEF Entry

\* What happens to the entries when the first is taken and s is queued.
LEMMA QueueParts ==
  ASSUME CrawlTypeOK, queue # <<>>, NEW d \in Nat, NEW s \in Seq(Addresses),
         queue' = Tail(queue) \o Queued(s, d)
  PROVE  /\ 1 \in DOMAIN queue /\ queue[1] = Head(queue)
         /\ \A i \in DOMAIN queue : i # 1 =>
               i - 1 \in DOMAIN queue' /\ queue'[i - 1] = queue[i]
         /\ \A j \in DOMAIN queue' :
               \/ j + 1 \in DOMAIN queue /\ queue'[j] = queue[j + 1]
               \/ /\ j >= Len(queue) /\ s # <<>>
                  /\ queue'[j].address \in Range(s) /\ queue'[j].depth = d
         /\ \A x \in Range(s) : \E j \in DOMAIN queue' :
               queue'[j].address = x /\ queue'[j].depth = d
         /\ Len(queue') = Len(queue) - 1 + Len(s)
<1>. DEFINE t == Tail(queue)
            q == Queued(s, d)
            n == Len(s)
<1>1. queue \in Seq(Entry) /\ t \in Seq(Entry) /\ Len(t) = Len(queue) - 1
      /\ Len(queue) \in Nat /\ Len(queue) >= 1 /\ n \in Nat
      /\ \A i \in 1..Len(t) : t[i] = queue[i + 1]
      /\ Head(queue) = queue[1]
  BY HeadTailProperties DEF CrawlTypeOK
<1>2. q \in [1..n -> Entry] /\ \A k \in 1..n : q[k].address = s[k] /\ q[k].depth = d
  BY DEF Queued, Entry
<1>3. q \in Seq(Entry) /\ Len(q) = n
  BY <1>1, <1>2
<1>4. queue' = t \o q
  OBVIOUS
<1>. HIDE DEF t, q, n
<1>5. /\ queue' \in Seq(Entry) /\ Len(queue') = Len(t) + n
      /\ \A i \in 1..(Len(t) + n) : queue'[i] = IF i <= Len(t) THEN t[i] ELSE q[i - Len(t)]
  <2>1. /\ t \o q \in Seq(Entry) /\ Len(t \o q) = Len(t) + Len(q)
        /\ \A i \in 1..(Len(t) + Len(q)) : (t \o q)[i] = IF i <= Len(t) THEN t[i] ELSE q[i - Len(t)]
    BY <1>1, <1>3, ConcatProperties
  <2>. QED
    BY <1>4, <1>3, <2>1
<1>6. /\ Len(queue') = Len(t) + n /\ DOMAIN queue' = 1..(Len(t) + n) /\ Len(t) \in Nat
      /\ \A i \in 1..(Len(t) + n) : queue'[i] = IF i <= Len(t) THEN t[i] ELSE q[i - Len(t)]
  BY <1>1, <1>5
<1>7. \A i \in DOMAIN queue : i # 1 => i - 1 \in DOMAIN queue' /\ queue'[i - 1] = queue[i]
  <2>1. \A i \in DOMAIN queue : i # 1 =>
           i - 1 \in 1..Len(t) /\ i - 1 \in 1..(Len(t) + n) /\ (i - 1) + 1 = i
    BY <1>1
  <2>. QED
    BY <1>1, <1>6, <2>1
<1>8. ASSUME NEW j \in DOMAIN queue'
      PROVE  \/ j + 1 \in DOMAIN queue /\ queue'[j] = queue[j + 1]
             \/ /\ j >= Len(queue) /\ s # <<>>
                /\ queue'[j].address \in Range(s) /\ queue'[j].depth = d
  <2>1. CASE j <= Len(t)
    BY <1>1, <1>6, <2>1
  <2>2. CASE ~(j <= Len(t))
    <3>1. j \in 1..(Len(t) + n) /\ Len(t) = Len(queue) - 1 /\ Len(t) \in Nat /\ Len(queue) \in Nat
      BY <1>1, <1>6
    <3>2. j - Len(t) \in 1..n /\ j >= Len(queue)
      BY <1>1, <3>1, <2>2
    <3>3. queue'[j] = q[j - Len(t)]
      BY <1>6, <3>1, <2>2
    <3>4. s[j - Len(t)] \in Range(s) /\ s # <<>>
      BY <3>2 DEF Range, n
    <3>. QED
      BY <1>2, <3>2, <3>3, <3>4
  <2>. QED
    BY <2>1, <2>2
<1>9. ASSUME NEW x \in Range(s)
      PROVE  \E j \in DOMAIN queue' : queue'[j].address = x /\ queue'[j].depth = d
  <2>1. PICK k \in 1..n : s[k] = x
    BY DEF Range, n
  <2>2. Len(t) + k \in 1..(Len(t) + n) /\ ~(Len(t) + k <= Len(t)) /\ (Len(t) + k) - Len(t) = k
    BY <1>1
  <2>3. queue'[Len(t) + k] = q[k]
    BY <1>6, <2>2
  <2>. QED
    BY <1>2, <1>6, <2>1, <2>2, <2>3
<1>10. Len(queue') = Len(queue) - 1 + Len(s)
  BY <1>1, <1>6 DEF n
<1>11. 1 \in DOMAIN queue /\ queue[1] = Head(queue)
  BY <1>1
<1>. QED
  BY <1>7, <1>8, <1>9, <1>10, <1>11

\* As long as nothing was forgotten, all layers above the queue were visited.
LEMMA LayersVisited ==
  ASSUME CrawlTypeOK, Thorough, Told <= MaxNodes[audit], NEW n \in Nat, n <= Depth,
         \A i \in DOMAIN queue : queue[i].depth > n
  PROVE  Reach(n) \subseteq visited
<1>. DEFINE T == {k \in 0..n : Reach(k) \subseteq visited}
<1>1. ASSUME NEW k \in 0..n, NEW x PROVE ~Due(x, k)
  <2>1. ASSUME NEW i \in DOMAIN queue PROVE ~(queue[i].depth <= k)
    <3>1. queue[i].depth > n /\ queue[i].depth \in Nat
      BY EntryParts
    <3>. QED
      BY <3>1
  <2>. QED
    BY <2>1 DEF Due
<1>2. 0 \in T
  <2>1. Reach(0) = Range(seeds)
    BY WithinStep DEF Reach
  <2>2. \A x : ~Due(x, 0)
    BY <1>1
  <2>. QED
    BY <2>1, <2>2 DEF Thorough
<1>3. ASSUME NEW k \in 0..(n - 1), k \in T PROVE k + 1 \in T
  <2>. k \in Nat /\ k + 1 \in 0..n /\ k < Depth
    BY ToldTyped
  <2>1. Reach(k + 1) = Spread(adjacency, Reach(k))
    BY WithinStep, Zenon DEF Reach
  <2>2. Reach(k) \subseteq visited
    BY <1>3
  <2>3. \A y \in visited \cap Reach(k) : \A x \in adjacency[y] : x \in visited \/ Due(x, k + 1)
    BY DEF Thorough
  <2>4. \A x : ~Due(x, k + 1)
    BY <1>1
  <2>5. Reach(k + 1) \subseteq visited
    BY <2>1, <2>2, <2>3, <2>4 DEF Spread
  <2>. QED
    BY <2>5
<1>4. \A k \in 0..n : k \in T
  <2>. HIDE DEF T
  <2>. QED
    BY <1>2, <1>3, Climb
<1>. QED
  BY <1>4

\* What an entry taken from the queue does, whichever action takes it: its node
\* counts as visited, and what it queues was named by it.
Takes(s) ==
    LET a == Head(queue).address
        d == Head(queue).depth IN
    /\ Crawling /\ s \in Seq(Addresses)
    /\ queue' = Tail(queue) \o Queued(s, d + 1)
    /\ visited' = visited \cup {a}
    /\ UNCHANGED <<audit, seeds>>
    /\ s # <<>> => MayExpand(d)
    /\ Range(s) \subseteq adjacency'[a]
    /\ \A b \in Addresses : IF b = a /\ a \notin visited THEN adjacency[b] = {}
                            ELSE adjacency'[b] = adjacency[b]
    /\ a \notin visited /\ MayExpand(d) /\ Told' <= MaxNodes[audit] =>
           adjacency'[a] \subseteq visited' \cup Range(s)
    /\ Told <= Told'

\* The facts about a taken entry that the lemmas below share.
LEMMA TakenParts ==
  ASSUME CrawlTypeOK, CrawlTypeOK', Sorted, Layered, NEW s, Takes(s),
         NEW a, a = Head(queue).address, NEW d, d = Head(queue).depth
  PROVE  /\ a \in Addresses /\ d \in Nat /\ d <= Depth /\ a \in Reach(d)
         /\ visited \subseteq Reach(d)
         /\ \A i \in DOMAIN queue : d <= queue[i].depth /\ queue[i].depth <= d + 1
         /\ \A x, h : Due(x, h) => x = a \/ Due(x, h)'
         /\ \A x \in Range(s) : \A h \in Nat : d + 1 <= h => Due(x, h)'
         /\ \A j \in DOMAIN queue' :
               \/ j + 1 \in DOMAIN queue /\ queue'[j] = queue[j + 1]
               \/ /\ j >= Len(queue) /\ d < Depth
                  /\ queue'[j].address \in adjacency'[a] /\ queue'[j].depth = d + 1
         /\ \A b \in Addresses : adjacency[b] \subseteq adjacency'[b]
         /\ a \in visited => adjacency' = adjacency
         /\ \A h : Reach(h)' = Within(adjacency', Range(seeds), h)
<1>1. /\ queue # <<>> /\ a \in Addresses /\ d \in Nat /\ d + 1 \in Nat /\ s \in Seq(Addresses)
      /\ queue' = Tail(queue) \o Queued(s, d + 1) /\ seeds' = seeds
      /\ s # <<>> => d < Depth
      /\ Range(s) \subseteq adjacency'[a]
      /\ \A b \in Addresses : IF b = a /\ a \notin visited THEN adjacency[b] = {}
                              ELSE adjacency'[b] = adjacency[b]
  BY HeadParts DEF Takes, MayExpand, Depth
<1>2. /\ 1 \in DOMAIN queue /\ queue[1] = Head(queue)
      /\ \A i \in DOMAIN queue : i # 1 =>
            i - 1 \in DOMAIN queue' /\ queue'[i - 1] = queue[i]
      /\ \A j \in DOMAIN queue' :
            \/ j + 1 \in DOMAIN queue /\ queue'[j] = queue[j + 1]
            \/ /\ j >= Len(queue) /\ s # <<>>
               /\ queue'[j].address \in Range(s) /\ queue'[j].depth = d + 1
      /\ \A x \in Range(s) : \E j \in DOMAIN queue' :
            queue'[j].address = x /\ queue'[j].depth = d + 1
  <2>1. PICK e \in Nat : e = d + 1
    BY <1>1
  <2>2. queue' = Tail(queue) \o Queued(s, e)
    BY <1>1, <2>1
  <2>3. /\ 1 \in DOMAIN queue /\ queue[1] = Head(queue)
        /\ \A i \in DOMAIN queue : i # 1 =>
              i - 1 \in DOMAIN queue' /\ queue'[i - 1] = queue[i]
        /\ \A j \in DOMAIN queue' :
              \/ j + 1 \in DOMAIN queue /\ queue'[j] = queue[j + 1]
              \/ /\ j >= Len(queue) /\ s # <<>>
                 /\ queue'[j].address \in Range(s) /\ queue'[j].depth = e
        /\ \A x \in Range(s) : \E j \in DOMAIN queue' :
              queue'[j].address = x /\ queue'[j].depth = e
    BY <1>1, <2>2, QueueParts
  <2>. QED
    BY <2>1, <2>3
<1>3. d <= Depth /\ a \in Reach(d) /\ visited \subseteq Reach(d)
  BY <1>2 DEF Layered
<1>4. \A i \in DOMAIN queue : d <= queue[i].depth /\ queue[i].depth <= d + 1
  BY <1>2, EntryParts DEF Sorted
<1>5. ASSUME NEW x, NEW h, Due(x, h), x # a PROVE Due(x, h)'
  <2>1. PICK i \in DOMAIN queue : queue[i].address = x /\ queue[i].depth <= h
    BY <1>5 DEF Due
  <2>2. i # 1
    BY <1>2, <1>5, <2>1
  <2>. QED
    BY <1>2, <2>1, <2>2 DEF Due
<1>6. ASSUME NEW x \in Range(s), NEW h \in Nat, d + 1 <= h PROVE Due(x, h)'
  BY <1>1, <1>2, <1>6 DEF Due
<1>7. ASSUME NEW j \in DOMAIN queue'
      PROVE  \/ j + 1 \in DOMAIN queue /\ queue'[j] = queue[j + 1]
             \/ /\ j >= Len(queue) /\ d < Depth
                /\ queue'[j].address \in adjacency'[a] /\ queue'[j].depth = d + 1
  BY <1>1, <1>2
<1>8. /\ \A b \in Addresses : adjacency[b] \subseteq adjacency'[b]
      /\ a \in visited => adjacency' = adjacency
  <2>1. \A b \in Addresses : adjacency[b] \subseteq adjacency'[b]
    BY <1>1
  <2>2. a \in visited => \A b \in Addresses : adjacency'[b] = adjacency[b]
    BY <1>1
  <2>. QED
    BY <2>1, <2>2 DEF CrawlTypeOK
<1>9. \A h : Reach(h)' = Within(adjacency', Range(seeds), h)
  BY <1>1 DEF Reach
<1>. QED
  BY <1>1, <1>3, <1>4, <1>5, <1>6, <1>7, <1>8, <1>9

\* The three facts about the queue and the layers outlive a taken entry.
LEMMA SortedKept ==
  ASSUME CrawlTypeOK, CrawlTypeOK', Sorted, Layered, NEW s, Takes(s)
  PROVE  Sorted'
<1>1. PICK a, d : a = Head(queue).address /\ d = Head(queue).depth
  OBVIOUS
<1>2. /\ d \in Nat /\ Len(queue) \in Nat
      /\ \A i \in DOMAIN queue : d <= queue[i].depth /\ queue[i].depth <= d + 1
      /\ \A j \in DOMAIN queue' :
            \/ j + 1 \in DOMAIN queue /\ queue'[j] = queue[j + 1]
            \/ j >= Len(queue) /\ queue'[j].depth = d + 1
  BY <1>1, TakenParts, ToldTyped
<1>3. ASSUME NEW i \in DOMAIN queue', NEW j \in DOMAIN queue'
      PROVE  /\ i <= j => queue'[i].depth <= queue'[j].depth
             /\ queue'[j].depth <= queue'[i].depth + 1
  <2>1. /\ i \in Nat /\ j \in Nat /\ queue'[i].depth \in Nat /\ queue'[j].depth \in Nat
    <3>1. queue' \in Seq(Entry)
      BY DEF CrawlTypeOK
    <3>2. i \in 1..Len(queue') /\ j \in 1..Len(queue') /\ queue'[i] \in Entry /\ queue'[j] \in Entry
      BY <3>1
    <3>. QED
      BY <3>2 DEF Entry
  <2>2. d <= queue'[i].depth /\ queue'[j].depth <= d + 1
    BY <1>2, <2>1
  <2>3. CASE j + 1 \in DOMAIN queue /\ queue'[j] = queue[j + 1]
    <3>1. ASSUME i <= j PROVE queue'[i].depth <= queue'[j].depth
      <4>1. j < Len(queue)
        BY <1>2, <2>1, <2>3, EntryParts
      <4>2. i + 1 \in DOMAIN queue /\ queue'[i] = queue[i + 1]
        BY <1>2, <2>1, <3>1, <4>1
      <4>3. i + 1 <= j + 1
        BY <2>1, <3>1
      <4>. QED
        BY <2>3, <4>2, <4>3 DEF Sorted
    <3>. QED
      BY <1>2, <2>1, <2>2, <3>1
  <2>4. CASE queue'[j].depth = d + 1
    <3>1. queue'[i].depth <= d + 1
      BY <1>2, <2>1
    <3>. QED
      BY <1>2, <2>1, <2>2, <2>4, <3>1
  <2>. QED
    BY <1>2, <2>3, <2>4
<1>. QED
  BY <1>3 DEF Sorted

\* Paths are only added.
LEMMA ReachGrows ==
  ASSUME CrawlTypeOK, CrawlTypeOK', UNCHANGED seeds,
         \A b \in Addresses : adjacency[b] \subseteq adjacency'[b],
         NEW m \in Nat, NEW n \in Nat, m <= n
  PROVE  Reach(m) \subseteq Reach(n)'
<1>1. /\ adjacency \in [Addresses -> SUBSET Addresses] /\ Range(seeds) \in SUBSET Addresses
      /\ adjacency' \in [Addresses -> SUBSET Addresses]
  BY ToldTyped DEF CrawlTypeOK
<1>2. Within(adjacency, Range(seeds), m) \subseteq Within(adjacency, Range(seeds), n)
  BY WithinGrows
<1>3. Within(adjacency, Range(seeds), n) \subseteq Within(adjacency', Range(seeds), n)
  BY <1>1, WithinMore
<1>. QED
  BY <1>2, <1>3 DEF Reach

LEMMA LayeredKept ==
  ASSUME CrawlTypeOK, CrawlTypeOK', Sorted, Layered, NEW s, Takes(s)
  PROVE  Layered'
<1>1. PICK a, d : a = Head(queue).address /\ d = Head(queue).depth
  OBVIOUS
<1>2. /\ a \in Addresses /\ d \in Nat /\ d <= Depth /\ a \in Reach(d) /\ visited \subseteq Reach(d)
      /\ \A i \in DOMAIN queue : d <= queue[i].depth
      /\ \A j \in DOMAIN queue' :
            \/ j + 1 \in DOMAIN queue /\ queue'[j] = queue[j + 1]
            \/ /\ d < Depth /\ queue'[j].address \in adjacency'[a] /\ queue'[j].depth = d + 1
      /\ \A b \in Addresses : adjacency[b] \subseteq adjacency'[b]
  BY <1>1, TakenParts
<1>3. Depth' = Depth /\ Depth \in Nat /\ visited' = visited \cup {a} /\ seeds' = seeds
  BY <1>1, ToldTyped DEF Takes, Depth
<1>. DEFINE R(h) == Within(adjacency', Range(seeds), h)
<1>4. \A m, n \in Nat : m <= n => Reach(m) \subseteq R(n)
  <2>1. \A h : Reach(h)' = R(h)
    BY <1>3 DEF Reach
  <2>2. ASSUME NEW m \in Nat, NEW n \in Nat, m <= n PROVE Reach(m) \subseteq Reach(n)'
    BY <1>2, <1>3, <2>2, ReachGrows
  <2>. QED
    BY <2>1, <2>2
<1>5. \A n \in Nat : d <= n => visited' \subseteq R(n)
  BY <1>2, <1>3, <1>4
<1>6. \A n \in Nat : R(n + 1) = Spread(adjacency', R(n))
  BY WithinStep, Zenon
<1>7. a \in R(d)
  BY <1>2, <1>4
<1>. HIDE DEF R
<1>8. ASSUME NEW j \in DOMAIN queue'
      PROVE  /\ queue'[j].depth <= Depth
             /\ queue'[j].address \in R(queue'[j].depth)
             /\ visited' \subseteq R(queue'[j].depth)
  <2>1. CASE j + 1 \in DOMAIN queue /\ queue'[j] = queue[j + 1]
    <3>1. /\ queue[j + 1].depth \in Nat /\ queue[j + 1].depth <= Depth /\ d <= queue[j + 1].depth
          /\ queue[j + 1].address \in Reach(queue[j + 1].depth)
      BY <1>2, <2>1, EntryParts DEF Layered
    <3>2. queue[j + 1].address \in R(queue[j + 1].depth)
      BY <1>4, <3>1
    <3>. QED
      BY <1>5, <2>1, <3>1, <3>2
  <2>2. CASE /\ d < Depth /\ queue'[j].address \in adjacency'[a] /\ queue'[j].depth = d + 1
    <3>1. d + 1 \in Nat /\ d <= d + 1 /\ d + 1 <= Depth
      BY <1>2, <1>3, <2>2
    <3>2. queue'[j].address \in R(d + 1)
      BY <1>2, <1>6, <1>7, <2>2 DEF Spread
    <3>. QED
      BY <1>5, <2>2, <3>1, <3>2
  <2>. QED
    BY <1>2, <2>1, <2>2
<1>9. visited' \subseteq R(Depth)
  BY <1>2, <1>3, <1>5
<1>. QED
  BY <1>3, <1>8, <1>9 DEF Layered, Reach, R

LEMMA DueLater ==
  ASSUME CrawlTypeOK, NEW x, NEW h \in Nat, NEW n \in Nat, h <= n, Due(x, h)
  PROVE  Due(x, n)
<1>1. PICK i \in DOMAIN queue : queue[i].address = x /\ queue[i].depth <= h
  BY DEF Due
<1>2. queue[i].depth <= n
  BY <1>1, EntryParts
<1>. QED
  BY <1>1, <1>2 DEF Due

LEMMA ToldNext == CrawlTypeOK' => (Told \in Nat)'
<1>1. CrawlTypeOK => Told \in Nat
  BY ToldTyped
<1>. QED
  BY <1>1, PTL

\* A node taken from the queue is no nearer to the seeds than its entry says, so
\* what it answers changes nothing about the layers down to its own.
LEMMA LayersStay ==
  ASSUME CrawlTypeOK, CrawlTypeOK', Sorted, Layered, Thorough, Told <= MaxNodes[audit],
         NEW s, Takes(s), NEW a, a = Head(queue).address, NEW d, d = Head(queue).depth
  PROVE  /\ \A k \in Nat : k < d => Reach(k) \subseteq visited
         /\ \A n \in Nat : n <= d => Within(adjacency', Range(seeds), n) = Reach(n)
<1>1. /\ a \in Addresses /\ d \in Nat /\ d <= Depth
      /\ \A i \in DOMAIN queue : d <= queue[i].depth
      /\ a \in visited => adjacency' = adjacency
  BY TakenParts
<1>2. Depth \in Nat /\ adjacency \in [Addresses -> SUBSET Addresses]
      /\ Range(seeds) \in SUBSET Addresses
  BY ToldTyped
<1>3. ASSUME NEW k \in Nat, k < d PROVE Reach(k) \subseteq visited
  <2>1. \A i \in DOMAIN queue : queue[i].depth > k
    BY <1>1, <1>3, EntryParts
  <2>2. k <= Depth
    BY <1>1, <1>2, <1>3
  <2>. QED
    BY <2>1, <2>2, LayersVisited
<1>4. ASSUME NEW n \in Nat, n <= d
      PROVE  Within(adjacency', Range(seeds), n) = Reach(n)
  <2>1. CASE a \in visited
    BY <1>1, <2>1 DEF Reach
  <2>2. CASE a \notin visited
    <3>1. ASSUME NEW k \in 0..(n - 1), NEW b \in Within(adjacency, Range(seeds), k)
          PROVE  adjacency'[b] = adjacency[b]
      <4>1. k \in Nat /\ k < d
        BY <1>1, <1>4
      <4>2. b \in visited
        BY <1>3, <4>1 DEF Reach
      <4>3. b \in Addresses /\ b # a
        BY <2>2, <4>2 DEF CrawlTypeOK
      <4>. QED
        BY <4>3 DEF Takes
    <3>. QED
      BY <3>1, WithinSame DEF Reach
  <2>. QED
    BY <2>1, <2>2
<1>. QED
  BY <1>3, <1>4

LEMMA ThoroughKept ==
  ASSUME CrawlTypeOK, CrawlTypeOK', Sorted, Layered, Thorough, NEW s, Takes(s)
  PROVE  Thorough'
<1>. SUFFICES ASSUME Told' <= MaxNodes[audit'] PROVE Thorough'
  BY DEF Thorough
<1>1. PICK a, d : a = Head(queue).address /\ d = Head(queue).depth
  OBVIOUS
<1>2. /\ visited' = visited \cup {a} /\ seeds' = seeds /\ audit' = audit /\ Depth' = Depth
      /\ a \notin visited /\ d < Depth => adjacency'[a] \subseteq visited' \cup Range(s)
      /\ \A b \in visited : adjacency'[b] = adjacency[b]
  BY <1>1 DEF Takes, MayExpand, Depth, CrawlTypeOK
<1>3. Told <= MaxNodes[audit]
  <2>0. Told <= Told'
    BY DEF Takes
  <2>1. Told \in Nat /\ MaxNodes[audit] \in Nat
    BY ToldTyped
  <2>2. Told' \in Nat
    BY ToldNext
  <2>. QED
    BY <1>2, <2>0, <2>1, <2>2
<1>4. /\ a \in Addresses /\ d \in Nat /\ d <= Depth /\ Depth \in Nat
      /\ visited \subseteq Reach(d)
      /\ \A x, h : Due(x, h) => x = a \/ Due(x, h)'
      /\ \A x \in Range(s) : \A h \in Nat : d + 1 <= h => Due(x, h)'
  BY <1>1, TakenParts, ToldTyped
<1>. DEFINE R(h) == Within(adjacency', Range(seeds), h)
<1>5. /\ \A k \in Nat : k < d => Reach(k) \subseteq visited
      /\ \A n \in Nat : n <= d => R(n) = Reach(n)
  BY <1>1, <1>3, LayersStay
<1>. HIDE DEF R
<1>6. ASSUME NEW x \in Range(seeds) PROVE x \in visited' \/ Due(x, 0)'
  <2>1. x \in visited \/ Due(x, 0)
    BY <1>3 DEF Thorough
  <2>. QED
    BY <1>2, <1>4, <2>1
<1>7. ASSUME NEW m \in Nat, m < Depth, NEW y \in visited' \cap R(m), NEW x \in adjacency'[y]
      PROVE  x \in visited' \/ Due(x, m + 1)'
  <2>1. CASE y \in visited
    <3>1. PICK k \in Nat : k <= m /\ k < Depth /\ y \in Reach(k)
      <4>1. CASE m <= d
        BY <1>5, <1>7, <4>1
      <4>2. CASE ~(m <= d)
        BY <1>4, <1>7, <2>1, <4>2
      <4>. QED
        BY <4>1, <4>2
    <3>2. x \in adjacency[y]
      BY <1>2, <2>1
    <3>3. x \in visited \/ Due(x, k + 1)
      BY <1>3, <2>1, <3>1, <3>2 DEF Thorough
    <3>4. k + 1 \in Nat /\ m + 1 \in Nat /\ k + 1 <= m + 1
      BY <3>1
    <3>5. x \in visited \/ Due(x, m + 1)
      BY <3>3, <3>4, DueLater
    <3>. QED
      BY <1>2, <1>4, <3>5
  <2>2. CASE y \notin visited
    <3>1. y = a
      BY <1>2, <2>2
    <3>2. d <= m
      <4>1. ASSUME m < d PROVE FALSE
        BY <1>5, <1>4, <2>2, <4>1
      <4>. QED
        BY <1>4, <4>1
    <3>3. x \in visited' \cup Range(s)
      BY <1>2, <1>4, <1>7, <2>2, <3>1, <3>2
    <3>4. m + 1 \in Nat /\ d + 1 <= m + 1
      BY <1>4, <3>2
    <3>. QED
      BY <1>4, <3>3, <3>4
  <2>. QED
    BY <2>1, <2>2
<1>8. \A h : Reach(h)' = R(h)
  BY <1>2 DEF Reach, R
<1>. QED
  BY <1>2, <1>6, <1>7, <1>8 DEF Thorough

\* What a node answers is counted among what the crawl was told of.
LEMMA AnswerCounted ==
  ASSUME CrawlTypeOK, NEW a \in Addresses, a \notin visited, NEW P \in SUBSET Addresses,
         adjacency' = [adjacency EXCEPT ![a] = P], visited' = visited \cup {a}, UNCHANGED seeds
  PROVE  Cardinality(P) \in Nat /\ Told' = Told + Cardinality(P)
<1>. DEFINE E == {e \in visited \X Addresses : e[2] \in adjacency[e[1]]}
            F == {a} \X P
            G == {e \in visited' \X Addresses : e[2] \in adjacency'[e[1]]}
<1>1. /\ IsFiniteSet(visited) /\ IsFiniteSet(P) /\ Cardinality(P) \in Nat
      /\ adjacency \in [Addresses -> SUBSET Addresses] /\ visited \subseteq Addresses
  BY FiniteParts, CrawlAssumption, FS_Subset, FS_CardinalityType DEF CrawlTypeOK
<1>2. IsFiniteSet(E)
  <2>1. IsFiniteSet(visited \X Addresses)
    BY <1>1, CrawlAssumption, FS_Product
  <2>. QED
    BY <2>1, FS_Subset
<1>3. IsFiniteSet(F) /\ Cardinality(F) = Cardinality(P)
  <2>1. IsFiniteSet({a}) /\ Cardinality({a}) = 1
    BY FS_Singleton
  <2>2. IsFiniteSet({a} \X P) /\ Cardinality({a} \X P) = Cardinality({a}) * Cardinality(P)
    BY <1>1, <2>1, FS_Product
  <2>3. 1 * Cardinality(P) = Cardinality(P)
    BY <1>1
  <2>. QED
    BY <2>1, <2>2, <2>3
<1>4. G = E \cup F
  <2>1. \A b \in visited : adjacency'[b] = adjacency[b]
    BY <1>1
  <2>2. adjacency'[a] = P
    BY <1>1
  <2>. QED
    BY <1>1, <2>1, <2>2
<1>5. E \cap F = {}
  OBVIOUS
<1>6. Links(adjacency, visited) = Cardinality(E) /\ Links(adjacency', visited') = Cardinality(G)
  BY DEF Links
<1>. HIDE DEF E, F, G
<1>7. Cardinality(E) \in Nat /\ Cardinality(G) = Cardinality(E) + Cardinality(P)
  <2>1. Cardinality(E) \in Nat /\ Cardinality({}) = 0
    BY <1>2, FS_CardinalityType, FS_EmptySet
  <2>2. Cardinality(E \cup F) = Cardinality(E) + Cardinality(F) - Cardinality(E \cap F)
    BY <1>2, <1>3, FS_Union
  <2>3. Cardinality(G) = Cardinality(E) + Cardinality(P) - Cardinality({})
    BY <1>3, <1>4, <1>5, <2>2, Zenon
  <2>. QED
    BY <1>1, <2>1, <2>3
<1>8. Told' = Len(seeds) + Cardinality(G) /\ Told = Len(seeds) + Cardinality(E)
  BY <1>6 DEF Told
<1>. QED
  BY <1>1, <1>7, <1>8, ToldTyped

\* What a visit queues was named by the node; all of it that is new, if the limits
\* leave room for what the crawl was told.
LEMMA DiscoveriesNamed ==
  ASSUME CrawlTypeOK, Sparse, NEW a \in Addresses, NEW d \in Nat, NEW s \in Discoveries(a, d)
  PROVE  /\ s \in Seq(Addresses) /\ Range(s) \subseteq names[a]
         /\ Len(s) \in Nat /\ Len(s) <= Cardinality(names[a])
         /\ s # <<>> => MayExpand(d)
         /\ MayExpand(d) /\ Told + Cardinality(names[a]) <= MaxNodes[audit] =>
                names[a] \subseteq visited \cup {a} \cup Range(s)
<1>. DEFINE eligible == names[a] \ (visited \cup {a})
            c == Cardinality(eligible)
            many == IF c < Room THEN c ELSE Room
<1>1. names[a] \in SUBSET Addresses /\ eligible \subseteq names[a] /\ eligible \subseteq Addresses
  BY FiniteParts
<1>2. /\ IsFiniteSet(names[a]) /\ Cardinality(names[a]) \in Nat
      /\ IsFiniteSet(eligible) /\ c \in Nat /\ c <= Cardinality(names[a])
  BY <1>1, CrawlAssumption, FS_Subset, FS_CardinalityType
<1>3. /\ Told \in Nat /\ Len(queue) \in Nat /\ Cardinality(visited) \in Nat
      /\ MaxNodes[audit] \in Nat /\ Len(queue) + Cardinality(visited) <= Told
  BY ToldTyped DEF Sparse
<1>4. Room \in Nat
  BY <1>3 DEF Room
<1>5. Told + Cardinality(names[a]) <= MaxNodes[audit] => c <= Room
  <2>1. ASSUME Told + Cardinality(names[a]) <= MaxNodes[audit]
        PROVE  c <= Room
    <3>1. c <= MaxNodes[audit] - (Len(queue) + Cardinality(visited))
      BY <1>2, <1>3, <2>1
    <3>2. CASE Len(queue) + Cardinality(visited) < MaxNodes[audit]
      BY <3>1, <3>2 DEF Room
    <3>3. CASE ~(Len(queue) + Cardinality(visited) < MaxNodes[audit])
      <4>1. Cardinality(names[a]) = 0
        BY <1>2, <1>3, <2>1, <3>3
      <4>. QED
        BY <1>2, <1>4, <4>1
    <3>. QED
      BY <3>2, <3>3
  <2>. QED
    BY <2>1
<1>6. CASE MayExpand(d)
  <2>1. s \in Injection(1..many, eligible)
    BY <1>6 DEF Discoveries
  <2>2. many \in Nat /\ many <= c
    BY <1>2, <1>4
  <2>3. Told + Cardinality(names[a]) <= MaxNodes[audit] => many = c
    BY <1>2, <1>4, <1>5
  <2>. HIDE DEF many
  <2>4. s \in [1..many -> eligible]
    BY <2>1 DEF Injection
  <2>. HIDE DEF eligible, c
  <2>5. Len(s) = many /\ s \in Seq(Addresses) /\ Range(s) \subseteq eligible
    BY <1>1, <2>2, <2>4 DEF Range
  <2>6. many = c => Range(s) = eligible
    <3>1. Cardinality(1..many) = many
      BY <2>2, FS_Interval
    <3>2. Cardinality(1..many) = Cardinality(eligible) => s \in Surjection(1..many, eligible)
      BY <1>2, <2>1, FS_Injection
    <3>3. s \in Surjection(1..many, eligible) => eligible \subseteq Range(s)
      BY DEF Surjection, Range
    <3>. QED
      BY <2>5, <3>1, <3>2, <3>3 DEF c
  <2>7. names[a] \subseteq visited \cup {a} \cup eligible
    BY DEF eligible
  <2>. QED
    BY <1>1, <1>2, <1>6, <2>2, <2>3, <2>5, <2>6, <2>7
<1>7. CASE ~MayExpand(d)
  <2>1. s = <<>>
    BY <1>7 DEF Discoveries
  <2>. QED
    BY <1>2, <1>7, <2>1 DEF Range
<1>. QED
  BY <1>6, <1>7

\* Taking an entry that queues nothing shortens the queue.
LEMMA NothingQueued ==
  ASSUME CrawlTypeOK, Crawling, NEW d
  PROVE  /\ Tail(queue) = Tail(queue) \o Queued(<<>>, d)
         /\ <<>> \in Seq(Addresses) /\ Range(<<>>) = {}
         /\ Len(Tail(queue)) = Len(queue) - 1
<1>1. Tail(queue) \in Seq(Entry) /\ Len(Tail(queue)) = Len(queue) - 1
  BY HeadTailProperties DEF Crawling, CrawlTypeOK
<1>2. Queued(<<>>, d) = <<>>
  BY DEF Queued
<1>3. Tail(queue) \o <<>> = Tail(queue)
  BY <1>1, ConcatEmptySeq
<1>4. <<>> \in Seq(Addresses) /\ Range(<<>>) = {}
  BY DEF Range
<1>. QED
  BY <1>1, <1>2, <1>3, <1>4

LEMMA SkipTakes ==
  ASSUME CrawlTypeOK, Sparse, Skip
  PROVE  Takes(<<>>) /\ Sparse'
<1>1. /\ Crawling /\ Head(queue).address \in visited /\ queue' = Tail(queue)
      /\ UNCHANGED <<audit, seeds, visited, adjacency>>
  BY DEF Skip
<1>2. Told' = Told /\ Told \in Nat
  BY <1>1, ToldTyped DEF Told
<1>3. /\ queue' = Tail(queue) \o Queued(<<>>, Head(queue).depth + 1)
      /\ <<>> \in Seq(Addresses) /\ Range(<<>>) = {} /\ Len(queue') = Len(queue) - 1
  BY <1>1, NothingQueued
<1>4. Takes(<<>>)
  <2>1. visited' = visited \cup {Head(queue).address}
    BY <1>1
  <2>2. Told <= Told'
    BY <1>2
  <2>. QED
    BY <1>1, <1>3, <2>1, <2>2 DEF Takes
<1>5. Sparse'
  BY <1>1, <1>2, <1>3, ToldTyped DEF Sparse
<1>. QED
  BY <1>4, <1>5

LEMMA UnansweredTakes ==
  ASSUME CrawlTypeOK, Heard, Sparse, Unanswered
  PROVE  Takes(<<>>) /\ Sparse'
<1>1. PICK a : a = Head(queue).address
  OBVIOUS
<1>2. /\ Crawling /\ a \notin visited /\ queue' = Tail(queue) /\ visited' = visited \cup {a}
      /\ UNCHANGED <<audit, seeds, adjacency>> /\ a \in Addresses
  BY <1>1, HeadParts DEF Unanswered
<1>3. adjacency[a] = {} /\ adjacency \in [Addresses -> SUBSET Addresses]
  BY <1>2, ToldTyped DEF Heard
<1>4. adjacency' = [adjacency EXCEPT ![a] = {}]
  BY <1>2, <1>3
<1>5. Told' = Told /\ Told \in Nat
  <2>1. Told' = Told + Cardinality({})
    BY <1>2, <1>4, AnswerCounted
  <2>. QED
    BY <2>1, ToldTyped, FS_EmptySet
<1>6. /\ queue' = Tail(queue) \o Queued(<<>>, Head(queue).depth + 1)
      /\ <<>> \in Seq(Addresses) /\ Range(<<>>) = {} /\ Len(queue') = Len(queue) - 1
  BY <1>2, NothingQueued
<1>7. Takes(<<>>)
  <2>1. Told <= Told'
    BY <1>5
  <2>. QED
    BY <1>1, <1>2, <1>3, <1>6, <2>1 DEF Takes
<1>8. Cardinality(visited') = Cardinality(visited) + 1
  BY <1>2, OneMore
<1>9. Sparse'
  <2>1. /\ Len(queue) + Cardinality(visited) <= Told
        /\ Len(queue) \in Nat /\ Cardinality(visited) \in Nat
    BY ToldTyped DEF Sparse
  <2>2. Len(queue') = Len(queue) - 1
    BY <1>6
  <2>3. Len(queue') + Cardinality(visited') <= Told'
    BY <1>5, <1>8, <2>1, <2>2
  <2>. QED
    BY <2>3 DEF Sparse
<1>. QED
  BY <1>7, <1>9

LEMMA AnsweredTakes ==
  ASSUME CrawlTypeOK, Heard, Sparse, Answered
  PROVE  (\E s : Takes(s)) /\ Sparse'
<1>1. PICK a, d : a = Head(queue).address /\ d = Head(queue).depth
  OBVIOUS
<1>2. /\ Crawling /\ a \notin visited /\ visited' = visited \cup {a}
      /\ adjacency' = [adjacency EXCEPT ![a] = names[a]]
      /\ UNCHANGED <<audit, seeds>> /\ a \in Addresses /\ d \in Nat /\ queue # <<>>
      /\ names[a] \in SUBSET Addresses
  BY <1>1, HeadParts, FiniteParts DEF Answered
<1>3. PICK s \in Discoveries(a, d) : queue' = Tail(queue) \o Queued(s, d + 1)
  BY <1>1 DEF Answered
<1>4. /\ s \in Seq(Addresses) /\ Range(s) \subseteq names[a]
      /\ Len(s) \in Nat /\ Len(s) <= Cardinality(names[a])
      /\ s # <<>> => MayExpand(d)
      /\ MayExpand(d) /\ Told + Cardinality(names[a]) <= MaxNodes[audit] =>
             names[a] \subseteq visited \cup {a} \cup Range(s)
  BY <1>2, <1>3, DiscoveriesNamed
<1>5. Cardinality(names[a]) \in Nat /\ Told' = Told + Cardinality(names[a]) /\ Told \in Nat
  BY <1>2, AnswerCounted, ToldTyped
<1>6. /\ adjacency'[a] = names[a] /\ adjacency[a] = {}
      /\ \A b \in Addresses : b # a => adjacency'[b] = adjacency[b]
  BY <1>2, ToldTyped DEF Heard
<1>7. Takes(s)
  <2>1. Told' <= MaxNodes[audit] /\ MayExpand(d) => adjacency'[a] \subseteq visited' \cup Range(s)
    BY <1>2, <1>4, <1>5, <1>6
  <2>2. Told <= Told'
    BY <1>5
  <2>. QED
    BY <1>1, <1>2, <1>3, <1>4, <1>6, <2>1, <2>2 DEF Takes
<1>8. Cardinality(visited') = Cardinality(visited) + 1
  BY <1>2, OneMore
<1>9. Len(queue') = Len(queue) - 1 + Len(s)
  <2>1. PICK e \in Nat : e = d + 1
    BY <1>2
  <2>2. queue' = Tail(queue) \o Queued(s, e)
    BY <1>3, <2>1
  <2>. QED
    BY <1>2, <1>4, <2>2, QueueParts
<1>10. Sparse'
  <2>1. /\ Len(queue) + Cardinality(visited) <= Told
        /\ Len(queue) \in Nat /\ Cardinality(visited) \in Nat
    BY ToldTyped DEF Sparse
  <2>2. Len(queue') + Cardinality(visited') <= Told'
    BY <1>4, <1>5, <1>8, <1>9, <2>1
  <2>. QED
    BY <2>2 DEF Sparse
<1>. QED
  BY <1>7, <1>10

\* What the breadth-first search keeps.
Search == Heard /\ Sorted /\ Layered /\ Sparse /\ Thorough /\ Ended

\* The crawl starts with the seeds, at depth 0.
LEMMA SearchInit == ASSUME CrawlInit, CrawlTypeOK PROVE Search
<1>1. /\ seeds \in Seq(Addresses) /\ visited = {} /\ crawled = FALSE
      /\ queue = [i \in DOMAIN seeds |-> [address |-> seeds[i], depth |-> 0]]
  BY FiniteParts DEF CrawlInit
<1>2. /\ DOMAIN queue = DOMAIN seeds /\ Len(queue) = Len(seeds)
      /\ \A i \in DOMAIN queue : /\ queue[i].address = seeds[i] /\ queue[i].depth = 0
                                 /\ queue[i].address \in Range(seeds)
  <2>1. DOMAIN queue = DOMAIN seeds /\ Len(queue) = Len(seeds)
    BY <1>1
  <2>2. \A i \in DOMAIN queue : queue[i].address = seeds[i] /\ queue[i].depth = 0
    BY <1>1
  <2>. QED
    BY <2>1, <2>2 DEF Range
<1>3. Heard
  BY DEF CrawlInit, Heard
<1>4. Sorted
  BY <1>2 DEF Sorted
<1>5. Layered
  <2>1. Reach(0) = Range(seeds) /\ Depth \in Nat
    BY WithinStep, ToldTyped DEF Reach
  <2>. QED
    BY <1>1, <1>2, <2>1 DEF Layered
<1>6. Sparse
  <2>1. Cardinality(visited) = 0
    BY <1>1, FS_EmptySet
  <2>. QED
    BY <1>2, <2>1, ToldTyped DEF Sparse, Told
<1>7. Thorough
  <2>1. ASSUME NEW x \in Range(seeds) PROVE Due(x, 0)
    <3>1. PICK i \in DOMAIN seeds : seeds[i] = x
      BY DEF Range
    <3>. QED
      BY <1>2, <3>1 DEF Due
  <2>. QED
    BY <1>1, <2>1 DEF Thorough
<1>. QED
  BY <1>1, <1>3, <1>4, <1>5, <1>6, <1>7 DEF Search, Ended

LEMMA TakingKeeps ==
  ASSUME CrawlTypeOK, CrawlTypeOK', Search, NEW s, Takes(s)
  PROVE  Sorted' /\ Layered' /\ Thorough'
  BY SortedKept, LayeredKept, ThoroughKept DEF Search

\* Every step of a crawl keeps the invariant.
LEMMA SearchKeeps == ASSUME CInv, CInv', Search, CrawlNext PROVE Search'
<1>1. CrawlTypeOK /\ CrawlTypeOK' /\ Heard /\ Sparse /\ Ended
  BY DEF CInv, Search
<1>2. CASE Skip
  <2>1. Takes(<<>>) /\ Sparse'
    BY <1>1, <1>2, SkipTakes
  <2>2. Heard' /\ Ended'
    BY <1>1, <1>2 DEF Skip, Crawling, Heard, Ended
  <2>. QED
    BY <1>1, <2>1, <2>2, TakingKeeps DEF Search
<1>3. CASE Answered
  <2>1. (\E s : Takes(s)) /\ Sparse'
    BY <1>1, <1>3, AnsweredTakes
  <2>2. PICK a : a = Head(queue).address
    OBVIOUS
  <2>3. /\ a \in Addresses /\ a \notin visited /\ visited' = visited \cup {a}
        /\ adjacency' = [adjacency EXCEPT ![a] = names[a]]
        /\ names' = names /\ errors' = errors /\ ~crawled /\ crawled' = crawled
    BY <1>1, <1>3, <2>2, HeadParts DEF Answered
  <2>4. Heard'
    <3>1. a \notin errors /\ adjacency \in [Addresses -> SUBSET Addresses]
      BY <1>1, <2>3 DEF CrawlTypeOK
    <3>2. ASSUME NEW b \in Addresses
          PROVE  adjacency'[b] = IF b \in visited' \ errors' THEN names'[b] ELSE {}
      <4>1. CASE b = a
        BY <2>3, <3>1, <4>1
      <4>2. CASE b # a
        BY <1>1, <2>3, <3>1, <4>2 DEF Heard
      <4>. QED
        BY <4>1, <4>2
    <3>. QED
      BY <3>2 DEF Heard
  <2>5. Ended'
    BY <2>3 DEF Ended
  <2>. QED
    BY <1>1, <2>1, <2>4, <2>5, TakingKeeps DEF Search
<1>4. CASE Unanswered
  <2>1. Takes(<<>>) /\ Sparse'
    BY <1>1, <1>4, UnansweredTakes
  <2>2. PICK a : a = Head(queue).address
    OBVIOUS
  <2>3. /\ a \in Addresses /\ a \notin visited /\ visited' = visited \cup {a}
        /\ errors' = errors \cup {a} /\ adjacency' = adjacency
        /\ names' = names /\ ~crawled /\ crawled' = crawled
    BY <1>1, <1>4, <2>2, HeadParts DEF Unanswered
  <2>4. Heard' /\ Ended'
    BY <1>1, <2>3 DEF Heard, Ended
  <2>. QED
    BY <1>1, <2>1, <2>4, TakingKeeps DEF Search
<1>5. ASSUME /\ UNCHANGED <<audit, names, seeds, tier1, queue, visited, adjacency, errors>>
             /\ ~Crawling /\ ~crawled
             /\ audit = "topology" => paths' = Analyze(tier1)
      PROVE  Search'
  <2>1. Heard' /\ Sorted' /\ Layered' /\ Sparse' /\ Thorough'
    BY <1>5 DEF Search, Heard, Sorted, Layered, Sparse, Thorough, Told, Due, Reach, Depth
  <2>2. Analyze(tier1)' = Analyze(tier1)
    BY <1>5 DEF Analyze
  <2>3. Ended'
    BY <1>5, <2>2 DEF Ended, Crawling
  <2>. QED
    BY <2>1, <2>3 DEF Search
<1>6. CASE ReportPeers
  <2>1. audit # "topology"
    BY <1>6 DEF ReportPeers
  <2>. QED
    BY <1>5, <1>6, <2>1 DEF ReportPeers
<1>7. CASE ReportTopology
  BY <1>5, <1>7 DEF ReportTopology
<1>. QED
  BY <1>2, <1>3, <1>4, <1>6, <1>7 DEF CrawlNext

LEMMA SearchHolds == Spec => [](CInv /\ Search)
<1>1. Init => CInv /\ Search
  BY CrawlInitHolds, SearchInit DEF Init, CInv
<1>2. [Next]_vars => [CrawlNext]_crawlVars
  BY DEF Next, Crawl, Handshake, vars
<1>3. CInv /\ Search /\ [CrawlNext]_crawlVars => (CInv /\ Search)'
  <2>1. SUFFICES ASSUME CInv, Search, [CrawlNext]_crawlVars PROVE CInv' /\ Search'
    OBVIOUS
  <2>2. CInv'
    BY <2>1, CrawlStepKeeps
  <2>3. CASE CrawlNext
    BY <2>1, <2>2, <2>3, SearchKeeps
  <2>4. CASE UNCHANGED crawlVars
    <3>1. Analyze(tier1)' = Analyze(tier1)
      BY <2>4 DEF Analyze, crawlVars
    <3>. QED
      BY <2>1, <2>2, <2>4, <3>1
         DEF crawlVars, Search, Heard, Sorted, Layered, Sparse, Thorough, Ended,
             Told, Due, Reach, Depth
  <2>. QED
    BY <2>1, <2>2, <2>3, <2>4
<1>. QED
  BY <1>1, <1>2, <1>3, PTL DEF Spec

\* A crawl whose limits leave room for what it hears has visited what is in reach.
LEMMA AllVisited ==
  ASSUME CrawlTypeOK, Search, crawled, Told <= MaxNodes[audit]
  PROVE  visited = Reach(Depth)
<1>1. queue = <<>>
  BY ToldTyped DEF Search, Sparse, Ended, CrawlTypeOK
<1>2. Depth \in Nat /\ \A i \in DOMAIN queue : queue[i].depth > Depth
  BY <1>1, ToldTyped
<1>3. Reach(Depth) \subseteq visited
  BY <1>2, LayersVisited DEF Search
<1>. QED
  BY <1>3 DEF Search, Layered

\* No node is lost because it was heard of twice, too late or from further away.
THEOREM NoNodeLost == Spec => []CrawlComplete
<1>1. CInv /\ Search => CrawlComplete
  BY AllVisited DEF CInv, CrawlComplete, Told, Reach, Depth
<1>. QED
  BY <1>1, SearchHolds, PTL

\* More nodes and more edges are no fewer links.
LEMMA LinksMore ==
  ASSUME NEW S \in SUBSET Addresses, NEW T \in SUBSET Addresses, S \subseteq T,
         NEW g, NEW h, \A a \in S : g[a] \subseteq h[a]
  PROVE  /\ Links(g, S) \in Nat /\ Links(h, T) \in Nat
         /\ Links(g, S) <= Links(h, T)
<1>. DEFINE E == {e \in S \X Addresses : e[2] \in g[e[1]]}
            F == {e \in T \X Addresses : e[2] \in h[e[1]]}
<1>1. IsFiniteSet(T \X Addresses)
  BY CrawlAssumption, FS_Subset, FS_Product
<1>2. E \subseteq F /\ F \subseteq T \X Addresses
  OBVIOUS
<1>. HIDE DEF E, F
<1>3. /\ IsFiniteSet(F) /\ IsFiniteSet(E) /\ Cardinality(E) <= Cardinality(F)
      /\ Cardinality(E) \in Nat /\ Cardinality(F) \in Nat
  BY <1>1, <1>2, FS_Subset, FS_CardinalityType
<1>. QED
  BY <1>3 DEF Links, E, F

\* A crawl of a network that answers, and fits the limits, has seen all of it: the
\* nodes it visited are the network, and hear of nothing beyond.
LEMMA NetworkSeen ==
  ASSUME CrawlTypeOK, Search, crawled, errors = {}, NEW network,
         network = Within(names, Range(seeds), Cardinality(Addresses)),
         network = Within(names, Range(seeds), Depth),
         Len(seeds) + Links(names, network) <= MaxNodes[audit]
  PROVE  /\ visited = network /\ network \subseteq Addresses
         /\ \A a \in network : names[a] \subseteq network /\ adjacency[a] = names[a]
<1>1. /\ names \in [Addresses -> SUBSET Addresses] /\ adjacency \in [Addresses -> SUBSET Addresses]
      /\ Range(seeds) \in SUBSET Addresses /\ Depth \in Nat /\ visited \subseteq Addresses
  BY FiniteParts, ToldTyped DEF CrawlTypeOK
<1>2. /\ \A a \in visited : adjacency[a] = names[a]
      /\ \A a \in Addresses : adjacency[a] \subseteq names[a]
  BY <1>1 DEF Search, Heard
<1>3. network \subseteq Addresses
  BY <1>1, WithinIn
<1>4. visited \subseteq network
  <2>1. Reach(Depth) \subseteq Within(names, Range(seeds), Depth)
    BY <1>1, <1>2, WithinMore DEF Reach
  <2>. QED
    BY <2>1 DEF Search, Layered
<1>5. Told <= MaxNodes[audit]
  <2>1. /\ Links(adjacency, visited) \in Nat /\ Links(names, network) \in Nat
        /\ Links(adjacency, visited) <= Links(names, network)
    BY <1>1, <1>2, <1>3, <1>4, LinksMore
  <2>. QED
    BY <2>1, ToldTyped DEF Told
<1>6. visited = Reach(Depth)
  BY <1>5, AllVisited
<1>7. Within(names, Range(seeds), Depth) = Reach(Depth)
  <2>1. ASSUME NEW k \in 0..(Depth - 1), NEW b \in Within(adjacency, Range(seeds), k)
        PROVE  names[b] = adjacency[b]
    <3>1. k \in Nat /\ k <= Depth
      BY <1>1
    <3>2. Within(adjacency, Range(seeds), k) \subseteq Within(adjacency, Range(seeds), Depth)
      BY <1>1, <3>1, WithinGrows
    <3>. QED
      BY <1>2, <1>6, <3>2 DEF Reach
  <2>. QED
    BY <1>1, <2>1, WithinSame DEF Reach
<1>8. visited = network
  BY <1>6, <1>7
<1>9. \A a \in network : names[a] \subseteq network
  BY <1>1, WithinFixed
<1>. QED
  BY <1>2, <1>3, <1>8, <1>9

\* What the audit reports as disconnected or far is what nodes name, no more and
\* no less.
THEOREM ReportIsTrue == Spec => []TopologyTrue
<1>. DEFINE N == Cardinality(Addresses)
            network == Within(names, Range(seeds), N)
            near(a, h) == Within(names, {a}, h) \cap tier1 # {}
            told(a, h) == Within(adjacency, {a}, h) \cap tier1 # {}
            graph == visited \cup UNION {adjacency[a] : a \in visited}
<1>1. ASSUME CInv, Search, crawled, audit = "topology", errors = {},
             network = Within(names, Range(seeds), MaxDepth[audit]),
             Len(seeds) + Links(names, network) <= MaxNodes[audit],
             NEW a \in Addresses
      PROVE  /\ a \in paths.unreachable <=> a \in network /\ ~near(a, N)
             /\ a \in paths.far <=> a \in network /\ ~near(a, MaxHops) /\ near(a, N)
  <2>1. /\ visited = network /\ network \subseteq Addresses
        /\ \A b \in network : names[b] \subseteq network /\ adjacency[b] = names[b]
    BY <1>1, NetworkSeen DEF CInv, Depth
  <2>2. N \in Nat /\ MaxHops \in Nat /\ names \in [Addresses -> SUBSET Addresses]
    BY <1>1, CrawlAssumption, FS_CardinalityType, FiniteParts DEF CInv
  <2>. HIDE DEF network, N
  <2>3. graph = network
    BY <2>1
  <2>4. ASSUME NEW h \in Nat, NEW b \in network
        PROVE  Within(adjacency, {b}, h) = Within(names, {b}, h)
    <3>1. ASSUME NEW k \in 0..(h - 1), NEW c \in Within(names, {b}, k)
          PROVE  adjacency[c] = names[c]
      <4>1. k \in Nat /\ {b} \in SUBSET network
        OBVIOUS
      <4>2. Within(names, {b}, k) \subseteq network
        BY <2>1, <2>2, <4>1, WithinIn
      <4>. QED
        BY <2>1, <4>2
    <3>. QED
      BY <3>1, WithinSame
  <2>5. paths = [unreachable |-> {b \in graph : ~told(b, N)},
                 far |-> {b \in graph : told(b, N) /\ ~told(b, MaxHops)}]
    BY <1>1 DEF Search, Ended, Analyze, N
  <2>6. \A b \in network : /\ told(b, N) <=> near(b, N)
                           /\ told(b, MaxHops) <=> near(b, MaxHops)
    BY <2>2, <2>4
  <2>. HIDE DEF near, told, graph
  <2>. QED
    BY <2>3, <2>5, <2>6
<1>2. CInv /\ Search => TopologyTrue
  BY <1>1 DEF TopologyTrue
<1>. QED
  BY <1>2, SearchHolds, PTL

-----------------------------------------------------------------------------
\* Every variable of the crawls and the handshakes keeps its type.
THEOREM TypesHold == Spec => []TypeOK
<1>1. Init => requested \in Requests
  BY DEF Init
<1>2. requested \in Requests /\ [Next]_vars => (requested \in Requests)'
  BY DEF Next, Crawl, Handshake, vars
<1>3. CInv /\ HInv /\ requested \in Requests => TypeOK
  BY DEF CInv, HInv, TypeOK
<1>. QED
  BY <1>1, <1>2, <1>3, CrawlsHold, HandshakesHold, PTL DEF Spec
=============================================================================
