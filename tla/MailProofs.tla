----------------------------- MODULE MailProofs -----------------------------
(***************************************************************************)
(* What a reconstructed mail session says of its conversation, for every   *)
(* conversation of any length: the proofs of the properties of MailProps.  *)
(*                                                                         *)
(* The first part shows that the merged list holds exactly the events of   *)
(* the two streams, in order.  The second says what a conversation can be  *)
(* (WireInv), the third what the state machine has learnt of the events it *)
(* has processed (ReportInv); the properties follow from both.             *)
(***************************************************************************)
EXTENDS MailProps, FiniteSetTheorems, SequenceTheorems, WellFoundedInduction, TLAPS

-----------------------------------------------------------------------------
(* The merged list.                                                        *)

MailProtocols == {"SMTP", "IMAP", "POP3"}

UpgradeRequests == {"STARTTLS_REQUESTED", "STLS_REQUESTED"}

\* The types of events: of the server's lines, of the client's, and of TLS.
ServerTypes == {"STARTTLS_ADVERTISED", "CAPABILITY_RESPONSE", "DATA_ACCEPTED", "CONNECTION_LOST",
  "AUTH_SUCCESS", "AUTH_FAILED", "SERVER_ERROR"}
    \cup AcceptEvents \cup RejectEvents \cup GreetingEvents

ClientTypes == {"EHLO", "HELO", "QUIT", "RSET", "NOOP", "AUTH_ATTEMPT", "MAIL_FROM", "RCPT_TO",
  "DATA_START", "LOGOUT", "SELECT", "none"} \cup UpgradeRequests

TlsTypes == {"TLS_HANDSHAKE_STARTED", "IMPLICIT_TLS"}

EventTypes == ServerTypes \cup ClientTypes \cup TlsTypes

AnEvent == [type : EventTypes, dir : {"S2C", "C2S"}, time : Int, line : Nat]

\* Which of the events of its line an event is.
Nth(e) == IF e.type = "STARTTLS_ADVERTISED" THEN 2 ELSE 1

\* An event is known by its side, its line and its place in the line.
Keyed(all) ==
  /\ all \subseteq AnEvent
  /\ \A e, f \in all : e.dir = f.dir /\ e.line = f.line /\ Nth(e) = Nth(f) => e = f

\* The order of the merge is a strict total order on keyed events.
LEMMA EarlierIsStrict ==
  ASSUME NEW e \in AnEvent, NEW f \in AnEvent, NEW g \in AnEvent
  PROVE  /\ ~Earlier(e, e)
         /\ Earlier(e, f) /\ Earlier(f, g) => Earlier(e, g)
BY DEF AnEvent, Earlier

LEMMA EarlierIsTotal ==
  ASSUME NEW all, Keyed(all), NEW e \in all, NEW f \in all, e # f
  PROVE  Earlier(e, f) \/ Earlier(f, e)
<1>1. e \in AnEvent /\ f \in AnEvent
  BY DEF Keyed
<1>2. e.dir # f.dir \/ e.line # f.line \/ Nth(e) # Nth(f)
  BY DEF Keyed
<1>3. QED
  BY <1>1, <1>2 DEF AnEvent, Earlier, Nth

\* Streams of finitely many lines have finitely many events.
LEMMA KeyedIsFinite ==
  ASSUME NEW all, Keyed(all), NEW n \in Nat,
         \A e \in all : e.line <= n
  PROVE  IsFiniteSet(all)
<1> DEFINE key == [e \in all |-> IF e.dir = "S2C" THEN 4 * e.line + Nth(e)
                                 ELSE 4 * e.line + Nth(e) + 2]
<1>1. key \in [all -> 0 .. 4 * n + 4]
  BY DEF Keyed, AnEvent, Nth
<1>2. \A e, f \in all : key[e] = key[f] => e = f
  <2> SUFFICES ASSUME NEW e \in all, NEW f \in all, key[e] = key[f] PROVE e = f
    OBVIOUS
  <2>1. /\ e.line \in Nat /\ f.line \in Nat /\ Nth(e) \in 1 .. 2 /\ Nth(f) \in 1 .. 2
        /\ e.dir \in {"S2C", "C2S"} /\ f.dir \in {"S2C", "C2S"}
    BY DEF Keyed, AnEvent, Nth
  <2>2. e.dir = f.dir /\ e.line = f.line /\ Nth(e) = Nth(f)
    BY <2>1
  <2>3. QED
    BY <2>2 DEF Keyed
<1> HIDE DEF key
<1>3. key \in Injection(all, 0 .. 4 * n + 4)
  BY <1>1, <1>2 DEF Injection, IsInjective
<1>4. IsFiniteSet(0 .. 4 * n + 4)
  BY FS_Interval
<1>5. QED
  BY <1>3, <1>4, FS_Injection

\* Places count up from one and keep the order.
LEMMA PlacesAreOrdered ==
  ASSUME NEW all, Keyed(all), IsFiniteSet(all), NEW e \in all
  PROVE  /\ Place(all, e) \in 1 .. Cardinality(all)
         /\ \A f \in all : Earlier(f, e) => Place(all, f) < Place(all, e)
<1> DEFINE Before(x) == {f \in all : Earlier(f, x)}
<1>1. all \subseteq AnEvent
  BY DEF Keyed
<1>2. \A x \in all : IsFiniteSet(Before(x)) /\ Cardinality(Before(x)) \in Nat
  <2> TAKE x \in all
  <2>1. Before(x) \in SUBSET all
    OBVIOUS
  <2>2. QED
    BY <2>1, FS_Subset, FS_CardinalityType
<1>3. \A x, y \in all : Earlier(x, y) => Cardinality(Before(x)) + 1 <= Cardinality(Before(y))
  <2> SUFFICES ASSUME NEW x \in all, NEW y \in all, Earlier(x, y)
               PROVE  Cardinality(Before(x)) + 1 <= Cardinality(Before(y))
    OBVIOUS
  <2>1. x \notin Before(x)
    BY <1>1, EarlierIsStrict
  <2>2. Before(x) \cup {x} \in SUBSET Before(y)
    BY <1>1, EarlierIsStrict
  <2>3. Cardinality(Before(x) \cup {x}) = Cardinality(Before(x)) + 1
    BY <1>2, <2>1, FS_AddElement
  <2>4. IsFiniteSet(Before(y))
    BY <1>2
  <2>5. Cardinality(Before(x) \cup {x}) <= Cardinality(Before(y))
    BY <2>2, <2>4, FS_Subset
  <2>6. QED
    BY <2>3, <2>5
<1>4. Cardinality(Before(e)) + 1 <= Cardinality(all)
  <2>1. e \notin Before(e)
    BY <1>1, EarlierIsStrict
  <2>2. Before(e) \cup {e} \in SUBSET all
    OBVIOUS
  <2>3. Cardinality(Before(e) \cup {e}) = Cardinality(Before(e)) + 1
    BY <1>2, <2>1, FS_AddElement
  <2>4. Cardinality(Before(e) \cup {e}) <= Cardinality(all)
    BY <2>2, FS_Subset
  <2>5. QED
    BY <2>3, <2>4
<1>5. \A x \in all : Place(all, x) = Cardinality(Before(x)) + 1
  BY DEF Place
<1>6. Cardinality(all) \in Nat
  BY FS_CardinalityType
<1> HIDE DEF Before
<1>7. Place(all, e) \in 1 .. Cardinality(all)
  BY <1>2, <1>4, <1>5, <1>6
<1>8. ASSUME NEW f \in all, Earlier(f, e) PROVE Place(all, f) < Place(all, e)
  BY <1>2, <1>3, <1>5, <1>8
<1>9. QED
  BY <1>7, <1>8

\* The merged list holds the events and no others, and in their order.
LEMMA SortedIsMerge ==
  ASSUME NEW all, Keyed(all), IsFiniteSet(all)
  PROVE  /\ SortedByTime(all) \in Seq(all)
         /\ \A e \in all : \E k \in DOMAIN SortedByTime(all) : SortedByTime(all)[k] = e
         /\ \A a, b \in DOMAIN SortedByTime(all) :
              Earlier(SortedByTime(all)[a], SortedByTime(all)[b]) => a < b
<1> DEFINE n == Cardinality(all)
           s == SortedByTime(all)
           place == [e \in all |-> Place(all, e)]
<1>1. n \in Nat
  BY FS_CardinalityType
<1>2. \A e \in all : Place(all, e) \in 1 .. n
  BY PlacesAreOrdered
<1>3. \A e, f \in all : Earlier(f, e) => Place(all, f) < Place(all, e)
  BY PlacesAreOrdered
<1>4. \A e, f \in all : Place(all, e) = Place(all, f) => e = f
  <2> SUFFICES ASSUME NEW e \in all, NEW f \in all, e # f
               PROVE  Place(all, e) # Place(all, f)
    OBVIOUS
  <2>1. Earlier(e, f) \/ Earlier(f, e)
    BY EarlierIsTotal
  <2>2. Place(all, e) \in Int /\ Place(all, f) \in Int
    BY <1>2
  <2>3. QED
    BY <1>3, <2>1, <2>2
<1>5. IsFiniteSet(1 .. n) /\ Cardinality(1 .. n) = n
  BY <1>1, FS_Interval
<1>6. place \in Injection(all, 1 .. n)
  BY <1>2, <1>4 DEF Injection, IsInjective
<1>7. place \in Surjection(all, 1 .. n)
  BY <1>5, <1>6, FS_Injection
<1>8. \A k \in 1 .. n : \E e \in all : Place(all, e) = k
  BY <1>7 DEF Surjection
<1>9. DOMAIN s = 1 .. n /\ \A k \in 1 .. n : s[k] = CHOOSE e \in all : Place(all, e) = k
  BY DEF SortedByTime
<1>10. \A k \in 1 .. n : s[k] \in all /\ Place(all, s[k]) = k
  BY <1>8, <1>9
<1>11. s = [k \in 1 .. n |-> CHOOSE e \in all : Place(all, e) = k]
  BY DEF SortedByTime
<1> HIDE DEF s, n
<1>12. s \in [1 .. n -> all]
  BY <1>10, <1>11
<1>13. s \in Seq(all)
  BY <1>1, <1>12, IsASeq
<1>14. \A e \in all : \E k \in DOMAIN s : s[k] = e
  BY <1>2, <1>4, <1>9, <1>10
<1>15. ASSUME NEW a \in DOMAIN s, NEW b \in DOMAIN s, Earlier(s[a], s[b]) PROVE a < b
  BY <1>3, <1>9, <1>10, <1>15
<1>16. QED
  BY <1>13, <1>14, <1>15 DEF s

-----------------------------------------------------------------------------
(* What the parsers see in the lines.                                      *)

\* The types of a server's line, by what the line says, and that at most one
\* of them is an offer of STARTTLS and at most one is not.
LEMMA SmtpTypes ==
  ASSUME NEW lines, NEW i, NEW t \in TypesAt("SMTP", lines, i)
  PROVE  /\ t \in ServerTypes
         /\ t # "CONNECTION_LOST"
         /\ t \in AcceptEvents => lines[i] = "220 ready" /\ Greeted("SMTP", lines, i)
         /\ t \in RejectEvents => lines[i] = "454"
         /\ \A u \in TypesAt("SMTP", lines, i) : u = t
<1> DEFINE seen == Seen("SMTP", lines, i)
<1>1. \A u \in SmtpReply(lines[i]) :
        /\ u \in {"STARTTLS_ADVERTISED", "DATA_ACCEPTED", "AUTH_SUCCESS", "STARTTLS_REJECTED",
                  "AUTH_FAILED", "SERVER_ERROR"}
        /\ u = "STARTTLS_REJECTED" => lines[i] = "454"
  BY DEF SmtpReply
<1>2. \A u, v \in SmtpReply(lines[i]) : u = v
  BY DEF SmtpReply
<1>3. seen.greeted = Greeted("SMTP", lines, i)
  BY DEF Seen
<1> HIDE DEF seen
<1>4. \/ t \in SmtpReply(lines[i])
      \/ t \in {"SMTP_GREETING", "CAPABILITY_RESPONSE"}
      \/ t = "STARTTLS_ACCEPTED" /\ lines[i] = "220 ready" /\ seen.greeted
  BY DEF TypesAt, ServerLine, SmtpServerLine, seen
<1>5. \A u \in TypesAt("SMTP", lines, i) : u = t
  BY <1>2 DEF TypesAt, ServerLine, SmtpServerLine
<1>6. QED
  BY <1>1, <1>3, <1>4, <1>5 DEF ServerTypes, AcceptEvents, RejectEvents, GreetingEvents

LEMMA ImapTypes ==
  ASSUME NEW lines, NEW i, NEW t \in TypesAt("IMAP", lines, i)
  PROVE  /\ t \in ServerTypes
         /\ t = "CONNECTION_LOST" => lines[i] = "* BYE"
         /\ t \in AcceptEvents => lines[i] = "OK TLS"
         /\ t \in RejectEvents => lines[i] = "NO TLS"
         /\ \A u \in TypesAt("IMAP", lines, i) :
              (t = "STARTTLS_ADVERTISED" <=> u = "STARTTLS_ADVERTISED") => u = t
<1>1. \A u \in ImapReply(lines[i]) :
        /\ u \in {"STARTTLS_ADVERTISED", "CAPABILITY_RESPONSE", "CONNECTION_LOST", "AUTH_SUCCESS",
                  "STARTTLS_ACCEPTED", "STARTTLS_REJECTED", "AUTH_FAILED", "SERVER_ERROR"}
        /\ u = "STARTTLS_ACCEPTED" => lines[i] = "OK TLS"
        /\ u = "STARTTLS_REJECTED" => lines[i] = "NO TLS"
        /\ u = "CONNECTION_LOST" => lines[i] = "* BYE"
  BY DEF ImapReply
<1>2. \A u, v \in ImapReply(lines[i]) :
        u = v \/ u = "STARTTLS_ADVERTISED" \/ v = "STARTTLS_ADVERTISED"
  <2>1. CASE lines[i] = "* CAPABILITY STARTTLS"
    BY <2>1 DEF ImapReply
  <2>2. CASE lines[i] # "* CAPABILITY STARTTLS"
    BY <2>2 DEF ImapReply
  <2>3. QED
    BY <2>1, <2>2
<1>3. \/ t \in ImapReply(lines[i])
      \/ t = "IMAP_GREETING"
  BY DEF TypesAt, ServerLine, ImapServerLine
<1>4. ASSUME NEW u \in TypesAt("IMAP", lines, i),
             t = "STARTTLS_ADVERTISED" <=> u = "STARTTLS_ADVERTISED"
      PROVE  u = t
  <2>1. t = u \/ (t \in ImapReply(lines[i]) /\ u \in ImapReply(lines[i]))
    BY DEF TypesAt, ServerLine, ImapServerLine
  <2>2. QED
    BY <1>2, <1>4, <2>1
<1>5. QED
  BY <1>1, <1>3, <1>4 DEF ServerTypes, AcceptEvents, RejectEvents, GreetingEvents

LEMMA Pop3Types ==
  ASSUME NEW lines, NEW i, NEW t \in TypesAt("POP3", lines, i)
  PROVE  /\ t \in ServerTypes
         /\ t # "CONNECTION_LOST"
         /\ t \in AcceptEvents => lines[i] = "+OK TLS" /\ Greeted("POP3", lines, i)
         /\ t \in RejectEvents => lines[i] = "-ERR TLS"
         /\ \A u \in TypesAt("POP3", lines, i) : u = t
<1> DEFINE seen == Seen("POP3", lines, i)
<1>1. \A u \in Pop3Reply(lines[i]) :
        /\ u \in {"STLS_ACCEPTED", "CAPABILITY_RESPONSE", "AUTH_SUCCESS", "STLS_REJECTED",
                  "AUTH_FAILED", "SERVER_ERROR"}
        /\ u = "STLS_ACCEPTED" => lines[i] = "+OK TLS"
        /\ u = "STLS_REJECTED" => lines[i] = "-ERR TLS"
  BY DEF Pop3Reply
<1>2. \A u, v \in Pop3Reply(lines[i]) : u = v
  BY DEF Pop3Reply
<1>3. seen.greeted = Greeted("POP3", lines, i) /\ seen.greeted \in BOOLEAN
      /\ seen.listing \in BOOLEAN
  BY DEF Seen, Greeted, Listing
<1> HIDE DEF seen
<1>4. \/ /\ t \in Pop3Reply(lines[i])
         /\ seen.greeted \/ ~Greets("POP3", lines[i])
      \/ t \in {"POP3_GREETING", "STARTTLS_ADVERTISED"}
  BY <1>3 DEF TypesAt, ServerLine, Pop3ServerLine, seen
<1>5. \A u \in TypesAt("POP3", lines, i) : u = t
  BY <1>2, <1>3 DEF TypesAt, ServerLine, Pop3ServerLine, seen
<1>6. t = "STLS_ACCEPTED" => seen.greeted
  BY <1>1, <1>4 DEF Greets
<1>7. QED
  BY <1>1, <1>3, <1>4, <1>5, <1>6 DEF ServerTypes, AcceptEvents, RejectEvents, GreetingEvents

LEMMA ServerTypesAre ==
  ASSUME NEW p \in MailProtocols, NEW lines, NEW i, NEW t \in TypesAt(p, lines, i)
  PROVE  /\ t \in ServerTypes
         /\ t = "CONNECTION_LOST" => p = "IMAP" /\ lines[i] = "* BYE"
         /\ t \in AcceptEvents => lines[i] \in Granting(p)
         /\ t \in AcceptEvents /\ p # "IMAP" => Greeted(p, lines, i)
         /\ t \in RejectEvents => lines[i] \in Refusing(p)
         /\ \A u \in TypesAt(p, lines, i) :
              (t = "STARTTLS_ADVERTISED" <=> u = "STARTTLS_ADVERTISED") => u = t
<1>1. CASE p = "SMTP"
  BY <1>1, SmtpTypes DEF Granting, Refusing
<1>2. CASE p = "IMAP"
  BY <1>2, ImapTypes DEF Granting, Refusing
<1>3. CASE p = "POP3"
  BY <1>3, Pop3Types DEF Granting, Refusing
<1>4. QED
  BY <1>1, <1>2, <1>3 DEF MailProtocols

\* A server that greets first is heard to greet, and what it says of an
\* upgrade is heard unless it is taken for part of a POP3 list.
LEMMA GreetingHeard ==
  ASSUME NEW p \in MailProtocols, NEW lines, Greets(p, lines[1])
  PROVE  \E t \in TypesAt(p, lines, 1) : t \in GreetingEvents
<1> DEFINE seen == Seen(p, lines, 1)
<1>1. ~seen.greeted /\ ~seen.listing
  BY DEF Seen, Greeted, Listing
<1> HIDE DEF seen
<1>2. CASE p = "SMTP"
  BY <1>1, <1>2 DEF TypesAt, ServerLine, SmtpServerLine, Greets, GreetingEvents, seen
<1>3. CASE p = "IMAP"
  BY <1>1, <1>3 DEF TypesAt, ServerLine, ImapServerLine, Greets, GreetingEvents, seen
<1>4. CASE p = "POP3"
  BY <1>1, <1>4 DEF TypesAt, ServerLine, Pop3ServerLine, GreetingEvents, seen
<1>5. QED
  BY <1>2, <1>3, <1>4 DEF MailProtocols

LEMMA ConsentHeard ==
  ASSUME NEW p \in MailProtocols, NEW lines, NEW i,
         lines[i] \in Granting(p), Greeted(p, lines, i),
         p = "POP3" => ~Listing(p, lines, i)
  PROVE  \E t \in TypesAt(p, lines, i) : t \in AcceptEvents
<1> DEFINE seen == Seen(p, lines, i)
<1>1. seen.greeted /\ (p = "POP3" => ~seen.listing)
  BY DEF Seen
<1> HIDE DEF seen
<1>2. CASE p = "SMTP"
  BY <1>1, <1>2 DEF TypesAt, ServerLine, SmtpServerLine, Granting, AcceptEvents, seen
<1>3. CASE p = "IMAP"
  BY <1>3 DEF TypesAt, ServerLine, ImapServerLine, ImapReply, Granting, AcceptEvents
<1>4. CASE p = "POP3"
  <2>1. Pop3ServerLine(lines[i], seen) = Pop3Reply(lines[i])
    BY <1>1, <1>4 DEF Pop3ServerLine
  <2>2. "STLS_ACCEPTED" \in Pop3Reply(lines[i])
    BY <1>4 DEF Pop3Reply, Granting
  <2>3. QED
    BY <1>4, <2>1, <2>2 DEF TypesAt, ServerLine, AcceptEvents, seen
<1>5. QED
  BY <1>2, <1>3, <1>4 DEF MailProtocols

LEMMA RefusalHeard ==
  ASSUME NEW p \in MailProtocols, NEW lines, NEW i,
         lines[i] \in Refusing(p),
         p = "POP3" => ~Listing(p, lines, i)
  PROVE  \E t \in TypesAt(p, lines, i) : t \in RejectEvents
<1> DEFINE seen == Seen(p, lines, i)
<1>1. p = "POP3" => ~seen.listing
  BY DEF Seen
<1> HIDE DEF seen
<1>2. CASE p = "SMTP"
  BY <1>2 DEF TypesAt, ServerLine, SmtpServerLine, SmtpReply, Refusing, RejectEvents
<1>3. CASE p = "IMAP"
  BY <1>3 DEF TypesAt, ServerLine, ImapServerLine, ImapReply, Refusing, RejectEvents
<1>4. CASE p = "POP3"
  <2>1. Pop3ServerLine(lines[i], seen) = Pop3Reply(lines[i])
    BY <1>1, <1>4 DEF Pop3ServerLine, Greets, Refusing
  <2>2. "STLS_REJECTED" \in Pop3Reply(lines[i])
    BY <1>4 DEF Pop3Reply, Refusing
  <2>3. QED
    BY <1>4, <2>1, <2>2 DEF TypesAt, ServerLine, RejectEvents, seen
<1>5. QED
  BY <1>2, <1>3, <1>4 DEF MailProtocols

LEMMA TypesOfOneSide ==
  ASSUME NEW t \in ClientTypes
  PROVE  t \notin TlsTypes \cup ServerTypes
<1>1. t \notin TlsTypes
  BY DEF ClientTypes, UpgradeRequests, TlsTypes
<1>3. t \notin AcceptEvents \cup RejectEvents \cup GreetingEvents
  BY DEF ClientTypes, UpgradeRequests, AcceptEvents, RejectEvents, GreetingEvents
<1>4. t \notin {"STARTTLS_ADVERTISED", "CAPABILITY_RESPONSE", "DATA_ACCEPTED", "CONNECTION_LOST",
                "AUTH_SUCCESS", "AUTH_FAILED", "SERVER_ERROR"}
  BY DEF ClientTypes, UpgradeRequests
<1>5. QED
  BY <1>1, <1>3, <1>4 DEF ServerTypes

\* The client's commands, as the parsers read them.
LEMMA CommandTypes ==
  ASSUME NEW p \in MailProtocols, NEW text
  PROVE  /\ Command(p, text) \in ClientTypes
         /\ Command(p, text) = "AUTH_ATTEMPT" <=> text \in AuthCommands(p)
         /\ Command(p, text) \in UpgradeRequests <=> text \in Upgrade(p)
         /\ p = "IMAP" => Command(p, text) # "QUIT"
<1>1. CASE p = "SMTP"
  <2>1. SmtpCommand(text) \in {"EHLO", "HELO", "QUIT", "RSET", "NOOP", "STARTTLS_REQUESTED",
          "AUTH_ATTEMPT", "MAIL_FROM", "RCPT_TO", "DATA_START", "none"}
    BY DEF SmtpCommand, NoCommand
  <2>2. /\ SmtpCommand(text) = "AUTH_ATTEMPT" <=> text = "AUTH"
        /\ SmtpCommand(text) = "STARTTLS_REQUESTED" <=> text = "STARTTLS"
    BY DEF SmtpCommand, NoCommand
  <2>3. Command(p, text) = SmtpCommand(text) /\ AuthCommands(p) = {"AUTH"}
        /\ Upgrade(p) = {"STARTTLS"}
    BY <1>1 DEF Command, AuthCommands, Upgrade
  <2>4. QED
    BY <1>1, <2>1, <2>2, <2>3
    DEF UpgradeRequests, ClientTypes
<1>2. CASE p = "IMAP"
  <2>1. ImapCommand(text) \in {"LOGOUT", "NOOP", "STARTTLS_REQUESTED", "AUTH_ATTEMPT", "SELECT",
                               "none"}
    BY DEF ImapCommand, NoCommand
  <2>2. /\ ImapCommand(text) = "AUTH_ATTEMPT" <=> text \in {"LOGIN", "AUTHENTICATE"}
        /\ ImapCommand(text) = "STARTTLS_REQUESTED" <=> text = "STARTTLS"
    BY DEF ImapCommand, NoCommand
  <2>3. Command(p, text) = ImapCommand(text) /\ AuthCommands(p) = {"LOGIN", "AUTHENTICATE"}
        /\ Upgrade(p) = {"STARTTLS"}
    BY <1>2 DEF Command, AuthCommands, Upgrade
  <2>4. QED
    BY <2>1, <2>2, <2>3
    DEF UpgradeRequests, ClientTypes
<1>3. CASE p = "POP3"
  <2>1. Pop3Command(text) \in {"QUIT", "NOOP", "STLS_REQUESTED", "AUTH_ATTEMPT", "none"}
    BY DEF Pop3Command, NoCommand
  <2>2. /\ Pop3Command(text) = "AUTH_ATTEMPT" <=> text \in {"USER", "PASS", "AUTH"}
        /\ Pop3Command(text) = "STLS_REQUESTED" <=> text = "STLS"
    BY DEF Pop3Command, NoCommand
  <2>3. Command(p, text) = Pop3Command(text) /\ AuthCommands(p) = {"USER", "PASS", "AUTH"}
        /\ Upgrade(p) = {"STLS"}
    BY <1>3 DEF Command, AuthCommands, Upgrade
  <2>4. QED
    BY <1>3, <2>1, <2>2, <2>3
    DEF UpgradeRequests, ClientTypes
<1>4. QED
  BY <1>1, <1>2, <1>3 DEF MailProtocols

\* What a client can write.
Text == STRING \cup {"."}

ClientLine == [text : Text, end : Nat, body : BOOLEAN]

AllEvents(p, lines, cl, h, r) == ServerEvents(p, lines) \cup ClientEvents(p, cl, h, r)

\* The two streams, as ParseFlow finds them.
Streams(p, lines, cl, h, r) ==
  /\ p \in MailProtocols /\ lines \in Seq(STRING) /\ cl \in Seq(ClientLine)
  /\ h \in {"none", "line", "tail"} /\ r \in -1 .. 1

\* Every event, by where it comes from.
LEMMA EventsComeFrom ==
  ASSUME NEW p, NEW lines, NEW cl, NEW h, NEW r, NEW e
  PROVE  e \in AllEvents(p, lines, cl, h, r) <=>
           \/ \E i \in DOMAIN lines : \E t \in TypesAt(p, lines, i) :
                e = Event(t, "S2C", ServerTime(i), i)
           \/ \E i \in DOMAIN cl :
                /\ Command(p, cl[i].text) # NoCommand
                /\ e = Event(Command(p, cl[i].text), "C2S", ClientTime(i), i)
           \/ /\ h # "none"
              /\ e = Event("TLS_HANDSHAKE_STARTED", "C2S", HelloTime(cl, h, r), Len(cl) + 1)
<1>1. e \in ServerEvents(p, lines) <=>
        \E i \in DOMAIN lines : \E t \in TypesAt(p, lines, i) :
          e = Event(t, "S2C", ServerTime(i), i)
  BY DEF ServerEvents
<1>2. e \in CommandEventsOf(p, cl) <=>
        \E i \in DOMAIN cl :
          /\ Command(p, cl[i].text) # NoCommand
          /\ e = Event(Command(p, cl[i].text), "C2S", ClientTime(i), i)
  BY DEF CommandEventsOf
<1>3. e \in HelloEvents(cl, h, r) <=>
        /\ h # "none"
        /\ e = Event("TLS_HANDSHAKE_STARTED", "C2S", HelloTime(cl, h, r), Len(cl) + 1)
  BY DEF HelloEvents
<1>4. QED
  BY <1>1, <1>2, <1>3 DEF AllEvents, ClientEvents

LEMMA OffsetIsNat ==
  ASSUME NEW cl \in Seq(ClientLine)
  PROVE  Offset(cl) \in Nat
<1>1. CASE cl = <<>>
  BY <1>1 DEF Offset
<1>2. CASE cl # <<>>
  <2>1. cl[Len(cl)] \in ClientLine
    BY <1>2
  <2>2. QED
    BY <1>2, <2>1 DEF Offset, Last, ClientLine
<1>3. QED
  BY <1>1, <1>2

LEMMA StreamsAreKeyed ==
  ASSUME NEW p, NEW lines, NEW cl, NEW h, NEW r, Streams(p, lines, cl, h, r)
  PROVE  /\ Keyed(AllEvents(p, lines, cl, h, r))
         /\ IsFiniteSet(AllEvents(p, lines, cl, h, r))
<1> DEFINE all == AllEvents(p, lines, cl, h, r)
           n == Len(lines) + Len(cl) + 1
           FromServer(e) == \E i \in DOMAIN lines : \E t \in TypesAt(p, lines, i) :
                              e = Event(t, "S2C", ServerTime(i), i)
           FromClient(e) == \E i \in DOMAIN cl :
                              e = Event(Command(p, cl[i].text), "C2S", ClientTime(i), i)
           IsHello(e) == e = Event("TLS_HANDSHAKE_STARTED", "C2S", HelloTime(cl, h, r), Len(cl) + 1)
<1>1. /\ p \in MailProtocols /\ Len(lines) \in Nat /\ DOMAIN lines = 1 .. Len(lines)
      /\ Len(cl) \in Nat /\ DOMAIN cl = 1 .. Len(cl)
  BY DEF Streams
<1>2. HelloTime(cl, h, r) \in Int
  BY <1>1, OffsetIsNat DEF Streams, HelloTime, ClientTime
<1>3. \A e \in all : FromServer(e) \/ FromClient(e) \/ IsHello(e)
  BY EventsComeFrom
<1>4. ASSUME NEW e, FromServer(e)
      PROVE  /\ e \in AnEvent /\ e.line <= n /\ e.dir = "S2C"
             /\ e.type \in TypesAt(p, lines, e.line) /\ e.time = ServerTime(e.line)
             /\ e = [type |-> e.type, dir |-> "S2C", time |-> e.time, line |-> e.line]
  <2> PICK i \in DOMAIN lines : \E t \in TypesAt(p, lines, i) : e = Event(t, "S2C", ServerTime(i), i)
    BY <1>4
  <2>1. PICK t \in TypesAt(p, lines, i) : e = Event(t, "S2C", ServerTime(i), i)
    OBVIOUS
  <2>2. t \in EventTypes
    BY <1>1, <2>1, ServerTypesAre DEF EventTypes
  <2>3. ServerTime(i) \in Int /\ i \in Nat /\ i <= n
    BY <1>1, <2>1 DEF ServerTime
  <2>4. QED
    BY <2>1, <2>2, <2>3 DEF Event, AnEvent
<1>5. ASSUME NEW e, FromClient(e)
      PROVE  /\ e \in AnEvent /\ e.line \in 1 .. Len(cl) /\ e.dir = "C2S" /\ Nth(e) = 1
             /\ e = Event(Command(p, cl[e.line].text), "C2S", ClientTime(e.line), e.line)
  <2>1. PICK i \in DOMAIN cl : e = Event(Command(p, cl[i].text), "C2S", ClientTime(i), i)
    BY <1>5
  <2>2. Command(p, cl[i].text) \in ClientTypes
    BY <1>1, CommandTypes
  <2>3. ClientTime(i) \in Int /\ i \in Nat
    BY <1>1 DEF ClientTime
  <2>4. Command(p, cl[i].text) # "STARTTLS_ADVERTISED"
    BY <2>2, TypesOfOneSide DEF ServerTypes
  <2>5. QED
    BY <1>1, <2>1, <2>2, <2>3, <2>4 DEF Event, AnEvent, EventTypes, Nth
<1>6. ASSUME NEW e, IsHello(e)
      PROVE  e \in AnEvent /\ e.line = Len(cl) + 1 /\ e.dir = "C2S"
  BY <1>1, <1>2, <1>6 DEF Event, AnEvent, EventTypes, TlsTypes
<1> HIDE DEF FromServer, FromClient, IsHello, all
<1>7. all \subseteq AnEvent /\ \A e \in all : e.line <= n
  BY <1>1, <1>3, <1>4, <1>5, <1>6
<1>8. ASSUME NEW e \in all, NEW f \in all, e.dir = f.dir, e.line = f.line, Nth(e) = Nth(f)
      PROVE  e = f
  <2>1. CASE FromServer(e)
    <3>1. FromServer(f)
      BY <1>3, <1>4, <1>5, <1>6, <1>8, <2>1
    <3>2. e.type = "STARTTLS_ADVERTISED" <=> f.type = "STARTTLS_ADVERTISED"
      BY <1>8 DEF Nth
    <3>3. e.type \in TypesAt(p, lines, e.line) /\ f.type \in TypesAt(p, lines, e.line)
      BY <1>4, <1>8, <2>1, <3>1
    <3>4. e.type = f.type
      BY <1>1, <3>2, <3>3, ServerTypesAre
    <3>5. QED
      BY <1>4, <1>8, <2>1, <3>1, <3>4
  <2>2. CASE FromClient(e)
    <3>1. FromClient(f)
      <4>1. ~FromServer(f)
        BY <1>4, <1>5, <1>8, <2>2
      <4>2. ~IsHello(f)
        BY <1>1, <1>5, <1>6, <1>8, <2>2
      <4>3. QED
        BY <1>3, <4>1, <4>2
    <3>2. QED
      BY <1>5, <1>8, <2>2, <3>1
  <2>3. CASE IsHello(e)
    <3>1. ~FromServer(f) /\ ~FromClient(f)
      BY <1>1, <1>4, <1>5, <1>6, <1>8, <2>3
    <3>2. IsHello(f)
      BY <1>3, <3>1
    <3>3. QED
      BY <2>3, <3>2 DEF IsHello
  <2>4. QED
    BY <1>3, <2>1, <2>2, <2>3
<1>9. Keyed(all)
  BY <1>7, <1>8 DEF Keyed
<1>10. IsFiniteSet(all)
  BY <1>1, <1>7, <1>9, KeyedIsFinite
<1>11. QED
  BY <1>9, <1>10 DEF all

\* What the list of events is to the streams it was parsed from.
Merged(p, lines, cl, h, r, list) ==
  /\ list \in Seq(AnEvent)
  /\ \A k \in DOMAIN list : list[k] \in AllEvents(p, lines, cl, h, r)
  /\ \A e \in AllEvents(p, lines, cl, h, r) : \E k \in DOMAIN list : list[k] = e
  /\ \A a, b \in DOMAIN list : Earlier(list[a], list[b]) => a < b

LEMMA ParsedIsMerged ==
  ASSUME NEW p, NEW lines, NEW cl, NEW h, NEW r, Streams(p, lines, cl, h, r)
  PROVE  Merged(p, lines, cl, h, r, ParseStreams(p, cl, lines, h, r))
<1> DEFINE all == AllEvents(p, lines, cl, h, r)
<1>1. Keyed(all) /\ IsFiniteSet(all)
  BY StreamsAreKeyed
<1>2. ParseStreams(p, cl, lines, h, r) = SortedByTime(all)
  BY DEF ParseStreams, AllEvents
<1> HIDE DEF all
<1>3. /\ SortedByTime(all) \in Seq(all)
      /\ \A e \in all : \E k \in DOMAIN SortedByTime(all) : SortedByTime(all)[k] = e
      /\ \A a, b \in DOMAIN SortedByTime(all) :
           Earlier(SortedByTime(all)[a], SortedByTime(all)[b]) => a < b
  BY <1>1, SortedIsMerge
<1>4. all \subseteq AnEvent
  BY <1>1 DEF Keyed
<1>5. SortedByTime(all) \in Seq(AnEvent) /\ \A k \in DOMAIN SortedByTime(all) : SortedByTime(all)[k] \in all
  BY <1>3, <1>4
<1>6. QED
  BY <1>2, <1>3, <1>5 DEF Merged, all

-----------------------------------------------------------------------------
(* What a conversation can be.                                             *)

ServerRecord == [line : STRING, to : Nat]

WireTypeOK ==
  /\ proto \in Protocols
  /\ client \in Seq(ClientLine)
  /\ server \in Seq(ServerRecord)
  /\ turn \in {"server", "client", "body", "hello", "over"}
  /\ hello \in {"none", "line", "tail"}

\* Lines 1 to c of the client are commands.
CommandsUpTo(c) == \A i \in 1 .. c : ~client[i].body

\* The greeting puts the server one line ahead, and every command is answered
\* by a line, so that an answer stands below its command in the streams.
ServerLeads ==
  /\ CommandsUpTo(Len(client)) =>
       /\ turn = "server" => Len(server) >= Len(client)
       /\ turn \in {"client", "hello"} => Len(server) > Len(client)
  /\ \A s \in DOMAIN server :
       /\ server[s].to <= Len(client)
       /\ CommandsUpTo(server[s].to) => s > server[s].to

\* The client's lines: message text, which only SMTP has, is announced, and
\* what is asked is a question of the protocol.
LinesAreSent ==
  /\ client # <<>> => Offset(client) >= 6
  /\ turn = "body" => proto = "SMTP" /\ client # <<>>
  /\ turn = "server" /\ client # <<>> => Last(client).text \in Questions(proto)
  /\ \A c \in DOMAIN client :
       client[c].body => /\ proto = "SMTP"
                         /\ client[c].text \in {"."} \cup {l.text : l \in BodyText}

GreetedFirst ==
  /\ client # <<>> \/ turn \in {"client", "hello"} => server # <<>>
  /\ server # <<>> => Greets(proto, server[1].line) /\ server[1].to = 0

\* TLS follows the server's consent, or starts the conversation.
HelloAfterConsent ==
  /\ turn = "hello" => UpgradeGranted
  /\ hello # "none" => /\ turn = "over"
                       /\ UpgradeGranted \/ (client = <<>> /\ server = <<>>)

\* A line of server s answers the client's last line, which it will not go on.
AnswersLast(s) == server[s].to = Len(client) /\ turn \in {"hello", "over"}

\* After the consent to an upgrade, and after a BYE, the client is silent.
SilentAfterwards ==
  \A s \in DOMAIN server :
    /\ server[s].to > 0 /\ server[s].line \in Granting(proto) => AnswersLast(s)
    /\ proto = "IMAP" /\ server[s].line = "* BYE" => AnswersLast(s)

\* A list that line j began was closed by line s.
ClosedBy(said, j, s) == \E k \in j + 1 .. s : said[k].line = "."

\* A POP3 list is closed before the server says anything of an upgrade.
ListsClosed(said) ==
  \A j \in DOMAIN said : said[j].line = "+OK CAPA" =>
    /\ ClosedBy(said, j, Len(said))
    /\ \A s \in j + 1 .. Len(said) :
         \/ said[s].line \in Refusing("POP3")
         \/ said[s].line \in Granting("POP3") /\ said[s].to > 0
         => ClosedBy(said, j, s - 1)

ListsAreClosed == proto = "POP3" => ListsClosed(server)

WireInv ==
  /\ WireTypeOK
  /\ ServerLeads
  /\ LinesAreSent
  /\ GreetedFirst
  /\ HelloAfterConsent
  /\ SilentAfterwards
  /\ ListsAreClosed

LEMMA WireInitial == Init => WireInv
<1> SUFFICES ASSUME Init PROVE WireInv
  OBVIOUS
<1>1. /\ proto \in Protocols /\ client = <<>> /\ server = <<>> /\ turn = "server" /\ hello = "none"
      /\ Len(client) = 0 /\ Len(server) = 0 /\ DOMAIN server = {} /\ DOMAIN client = {}
  BY DEF Init
<1>2. WireTypeOK
  BY <1>1, EmptySeq DEF WireTypeOK
<1>3. ServerLeads /\ LinesAreSent /\ GreetedFirst /\ HelloAfterConsent
  BY <1>1 DEF ServerLeads, LinesAreSent, GreetedFirst, HelloAfterConsent
<1>4. SilentAfterwards /\ ListsAreClosed
  BY <1>1 DEF SilentAfterwards, ListsAreClosed, ListsClosed
<1>5. QED
  BY <1>2, <1>3, <1>4 DEF WireInv

\* The client says one more line.
ClientSays(l) ==
  /\ turn \in {"client", "body"}
  /\ l \in ClientLine
  /\ client' = Append(client, l)
  /\ UNCHANGED <<proto, server, hello>>
  /\ turn' \in {"server", "body"}
  /\ turn' = "server" => l.text \in Questions(proto)
  /\ turn' = "body" => turn = "body"
  /\ l.body => proto = "SMTP" /\ l.text \in {"."} \cup {t.text : t \in BodyText}
  /\ ~l.body => turn = "client"
  /\ l.end >= 6

LEMMA ClientSaysKeepsWireInv ==
  ASSUME WireInv, NEW l, ClientSays(l)
  PROVE  WireInv'
<1>0. PICK n : n = Len(client)
  OBVIOUS
<1>1. /\ client \in Seq(ClientLine) /\ server \in Seq(ServerRecord) /\ l \in ClientLine
      /\ hello = "none" /\ proto \in Protocols
  BY DEF WireInv, WireTypeOK, HelloAfterConsent, ClientSays
<1>2. /\ client' \in Seq(ClientLine) /\ Len(client') = n + 1 /\ n \in Nat
      /\ DOMAIN client = 1 .. n /\ DOMAIN client' = 1 .. n + 1
      /\ \A c \in 1 .. n : client'[c] = client[c]
      /\ client'[n + 1] = l
      /\ client' # <<>>
  BY <1>0, <1>1 DEF ClientSays
<1>3. proto' = proto /\ server' = server /\ hello' = hello /\ turn' \in {"server", "body"}
  BY DEF ClientSays
<1>4. WireTypeOK'
  BY <1>1, <1>2, <1>3 DEF WireTypeOK
<1>5. server # <<>>
  BY DEF WireInv, GreetedFirst, LinesAreSent, ClientSays
<1>6. Last(client') = l
  BY <1>2 DEF Last
<1>7. \A c \in 0 .. n : CommandsUpTo(c)' <=> CommandsUpTo(c)
  BY <1>2 DEF CommandsUpTo
<1>8. ServerLeads'
  <2>1. ASSUME CommandsUpTo(n + 1)' PROVE turn' = "server" /\ Len(server) >= n + 1
    <3>1. ~l.body /\ CommandsUpTo(n)
      BY <1>2, <2>1 DEF CommandsUpTo
    <3>2. turn = "client" /\ turn' = "server"
      BY <3>1 DEF ClientSays
    <3>3. QED
      BY <1>0, <1>1, <1>2, <3>1, <3>2 DEF WireInv, ServerLeads
  <2>2. ASSUME NEW s \in DOMAIN server
        PROVE  /\ server[s].to <= n + 1
               /\ (\A c \in 1 .. server[s].to : ~client'[c].body) => s > server[s].to
    <3>1. server[s] \in ServerRecord
      BY <1>1
    <3>2. server[s].to \in Nat /\ server[s].to <= n
      BY <1>0, <3>1 DEF WireInv, ServerLeads, ServerRecord
    <3>3. \A c \in 1 .. server[s].to : client'[c] = client[c]
      BY <1>2, <3>2
    <3>4. CommandsUpTo(server[s].to) => s > server[s].to
      BY DEF WireInv, ServerLeads
    <3>5. QED
      BY <1>2, <3>2, <3>3, <3>4 DEF CommandsUpTo
  <2>3. CommandsUpTo(Len(client))' => turn' = "server" /\ Len(server') >= Len(client')
    BY <1>2, <1>3, <2>1 DEF CommandsUpTo
  <2>4. \A s \in DOMAIN server' :
          /\ server'[s].to <= Len(client')
          /\ (\A c \in 1 .. server'[s].to : ~client'[c].body) => s > server'[s].to
    BY <1>2, <1>3, <2>2
  <2>5. QED
    BY <1>3, <2>3, <2>4 DEF ServerLeads, CommandsUpTo
<1>9. LinesAreSent'
  <2>1. Offset(client)' >= 6
    BY <1>2, <1>6 DEF Offset, ClientSays
  <2>2. turn' = "body" => proto' = "SMTP" /\ client' # <<>>
    BY <1>2 DEF ClientSays, WireInv, LinesAreSent
  <2>3. turn' = "server" => Last(client').text \in Questions(proto)'
    BY <1>3, <1>6 DEF ClientSays, Questions
  <2>4. ASSUME NEW c \in DOMAIN client', client'[c].body
        PROVE  proto' = "SMTP" /\ client'[c].text \in {"."} \cup {t.text : t \in BodyText}
    <3>1. CASE c \in 1 .. n
      BY <1>2, <1>3, <2>4, <3>1 DEF WireInv, LinesAreSent
    <3>2. CASE c = n + 1
      BY <1>2, <1>3, <2>4, <3>2 DEF ClientSays
    <3>3. QED
      BY <1>2, <3>1, <3>2
  <2>5. QED
    BY <2>1, <2>2, <2>3, <2>4 DEF LinesAreSent
<1>10. GreetedFirst'
  BY <1>3, <1>5 DEF WireInv, GreetedFirst
<1>11. HelloAfterConsent'
  BY <1>1, <1>3 DEF HelloAfterConsent
<1>12. SilentAfterwards'
  <2>1. \A s \in DOMAIN server : ~AnswersLast(s)
    BY DEF AnswersLast, ClientSays
  <2>2. QED
    BY <1>3, <2>1 DEF WireInv, SilentAfterwards
<1>13. ListsAreClosed'
  <2>1. ListsAreClosed
    BY DEF WireInv
  <2>2. QED
    BY <1>3, <2>1 DEF ListsAreClosed
<1>14. QED
  BY <1>4, <1>8, <1>9, <1>10, <1>11, <1>12, <1>13 DEF WireInv

LEMMA ClientSendsKeepsWireInv == ASSUME WireInv, ClientSends PROVE WireInv'
<1>1. PICK cmd \in Sends[proto] : client' = Append(client, Line(cmd.text, cmd.len, FALSE))
  BY DEF ClientSends
<1>2. turn = "client" /\ turn' = "server" /\ UNCHANGED <<proto, server, hello>>
  BY DEF ClientSends
<1>3. proto \in Protocols /\ client \in Seq(ClientLine)
  BY DEF WireInv, WireTypeOK
<1>4. Sends[proto] \subseteq [text : STRING, len : Nat \ 0 .. 5]
  BY <1>3, MailAssumption
<1>5. cmd.text \in STRING /\ cmd.len \in Nat /\ cmd.len >= 6 /\ Offset(client) \in Nat
  BY <1>3, <1>4, OffsetIsNat
<1> DEFINE l == Line(cmd.text, cmd.len, FALSE)
<1>6. l \in ClientLine /\ ~l.body /\ l.end >= 6 /\ l.text = cmd.text
  BY <1>5 DEF Line, ClientLine, Text
<1>7. l.text \in Questions(proto)
  BY <1>6 DEF Questions
<1> HIDE DEF l
<1>8. ClientSays(l)
  BY <1>1, <1>2, <1>6, <1>7 DEF ClientSays, l
<1>9. QED
  BY <1>8, ClientSaysKeepsWireInv

LEMMA ClientSendsTextKeepsWireInv == ASSUME WireInv, ClientSendsText PROVE WireInv'
<1>1. PICK t \in BodyText : client' = Append(client, Line(t.text, t.len, TRUE))
  BY DEF ClientSendsText
<1>2. turn = "body" /\ UNCHANGED <<proto, server, turn, hello>>
  BY DEF ClientSendsText
<1>3. client \in Seq(ClientLine) /\ client # <<>> /\ proto = "SMTP" /\ Offset(client) >= 6
  BY <1>2 DEF WireInv, WireTypeOK, LinesAreSent
<1>4. t.text \in STRING /\ t.len \in Nat /\ Offset(client) \in Nat
  BY <1>3, MailAssumption, OffsetIsNat
<1> DEFINE l == Line(t.text, t.len, TRUE)
<1>5. l \in ClientLine /\ l.body /\ l.end >= 6 /\ l.text = t.text
  BY <1>3, <1>4 DEF Line, ClientLine, Text
<1> HIDE DEF l
<1>6. ClientSays(l)
  BY <1>1, <1>2, <1>3, <1>5 DEF ClientSays, l
<1>7. QED
  BY <1>6, ClientSaysKeepsWireInv

LEMMA ClientEndsTextKeepsWireInv == ASSUME WireInv, ClientEndsText PROVE WireInv'
<1>1. /\ client' = Append(client, Line(".", 3, TRUE))
      /\ turn = "body" /\ turn' = "server" /\ UNCHANGED <<proto, server, hello>>
  BY DEF ClientEndsText
<1>2. client \in Seq(ClientLine) /\ client # <<>> /\ proto = "SMTP" /\ Offset(client) >= 6
  BY <1>1 DEF WireInv, WireTypeOK, LinesAreSent
<1>3. Offset(client) \in Nat
  BY <1>2, OffsetIsNat
<1> DEFINE l == Line(".", 3, TRUE)
<1>4. l \in ClientLine /\ l.body /\ l.end >= 6 /\ l.text = "."
  BY <1>2, <1>3 DEF Line, ClientLine, Text
<1>5. l.text \in Questions(proto)
  BY <1>2, <1>4 DEF Questions
<1> HIDE DEF l
<1>6. ClientSays(l)
  BY <1>1, <1>2, <1>4, <1>5 DEF ClientSays, l
<1>7. QED
  BY <1>6, ClientSaysKeepsWireInv

LEMMA ClientHelloKeepsWireInv == ASSUME WireInv, ClientHello PROVE WireInv'
<1>1. /\ turn = "hello" \/ (client = <<>> /\ server = <<>>)
      /\ hello' \in {"line", "tail"} /\ turn' = "over" /\ turn # "client" /\ turn # "body"
      /\ UNCHANGED <<proto, client, server>>
  BY DEF ClientHello
<1>2. WireTypeOK'
  BY <1>1 DEF WireInv, WireTypeOK
<1>3. ServerLeads'
  BY <1>1 DEF WireInv, ServerLeads, CommandsUpTo
<1>4. LinesAreSent' /\ GreetedFirst'
  BY <1>1 DEF WireInv, LinesAreSent, GreetedFirst, Offset
<1>5. HelloAfterConsent'
  BY <1>1 DEF WireInv, HelloAfterConsent, UpgradeGranted
<1>6. SilentAfterwards'
  BY <1>1 DEF WireInv, SilentAfterwards, AnswersLast
<1>7. ListsAreClosed'
  BY <1>1 DEF WireInv, ListsAreClosed
<1>8. QED
  BY <1>2, <1>3, <1>4, <1>5, <1>6, <1>7 DEF WireInv

\* What a server may say.
LEMMA AnswersAreDialogue ==
  ASSUME WireInv, turn = "server", NEW lines \in Answers
  PROVE  /\ Dialogue(proto, lines)
         /\ client = <<>> => Greets(proto, lines[1])
         /\ client # <<>> => \A k \in DOMAIN lines :
              lines[k] \in Granting(proto) => k = 1 /\ Asked \in Upgrade(proto)
<1>1. proto \in Protocols
  BY DEF WireInv, WireTypeOK
<1>2. CASE client = <<>>
  BY <1>1, <1>2, MailAssumption DEF Answers
<1>3. CASE client # <<>>
  <2>1. Asked \in Questions(proto) /\ lines \in Answer[proto][Asked]
    BY <1>3 DEF WireInv, LinesAreSent, Asked, Answers
  <2>2. QED
    BY <1>1, <1>3, <2>1, MailAssumption
<1>4. QED
  BY <1>2, <1>3

\* The server's lines after it has spoken.
LEMMA Spoken ==
  ASSUME WireInv, turn = "server", NEW lines \in Answers,
         server' = server \o [i \in DOMAIN lines |-> [line |-> lines[i], to |-> Len(client)]]
  PROVE  /\ lines \in Seq(STRING) /\ Len(lines) > 0
         /\ server' \in Seq(ServerRecord)
         /\ Len(server') = Len(server) + Len(lines)
         /\ \A s \in 1 .. Len(server) : server'[s] = server[s]
         /\ \A s \in Len(server) + 1 .. Len(server) + Len(lines) :
              /\ s - Len(server) \in 1 .. Len(lines)
              /\ server'[s].line = lines[s - Len(server)]
              /\ server'[s].to = Len(client)
<1> DEFINE said == [i \in DOMAIN lines |-> [line |-> lines[i], to |-> Len(client)]]
<1>1. client \in Seq(ClientLine) /\ server \in Seq(ServerRecord)
  BY DEF WireInv, WireTypeOK
<1>2. lines \in Seq(STRING) /\ lines # <<>>
  BY AnswersAreDialogue DEF Dialogue
<1>3. DOMAIN lines = 1 .. Len(lines) /\ Len(lines) \in Nat /\ Len(client) \in Nat
  BY <1>1, <1>2
<1>4. \A i \in 1 .. Len(lines) : [line |-> lines[i], to |-> Len(client)] \in ServerRecord
  BY <1>2, <1>3 DEF ServerRecord
<1>5. said \in Seq(ServerRecord) /\ Len(said) = Len(lines)
  BY <1>3, <1>4
<1>6. \A i \in 1 .. Len(lines) : said[i].line = lines[i] /\ said[i].to = Len(client)
  BY <1>3
<1> HIDE DEF said
<1>7. server' = server \o said
  BY DEF said
<1>8. /\ server' \in Seq(ServerRecord) /\ Len(server') = Len(server) + Len(lines)
      /\ \A s \in 1 .. Len(server) : server'[s] = server[s]
      /\ \A s \in Len(server) + 1 .. Len(server) + Len(lines) : server'[s] = said[s - Len(server)]
  <2>1. /\ server \o said \in Seq(ServerRecord)
        /\ Len(server \o said) = Len(server) + Len(said)
        /\ \A s \in 1 .. Len(server) + Len(said) :
             (server \o said)[s] = IF s <= Len(server) THEN server[s] ELSE said[s - Len(server)]
    BY <1>1, <1>5, ConcatProperties
  <2>2. Len(server) \in Nat
    BY <1>1
  <2>3. server' \in Seq(ServerRecord) /\ Len(server') = Len(server) + Len(lines)
    BY <1>5, <1>7, <2>1
  <2>4. \A s \in 1 .. Len(server) : server'[s] = server[s]
    BY <1>3, <1>5, <1>7, <2>1, <2>2
  <2>5. ASSUME NEW s \in Len(server) + 1 .. Len(server) + Len(lines)
        PROVE  server'[s] = said[s - Len(server)]
    <3>1. s \in 1 .. Len(server) + Len(said) /\ ~(s <= Len(server))
      BY <1>3, <1>5, <2>2
    <3>2. QED
      BY <1>7, <2>1, <3>1
  <2>6. QED
    BY <2>3, <2>4, <2>5
<1>9. Len(lines) > 0
  BY <1>2
<1>10. ASSUME NEW s \in Len(server) + 1 .. Len(server) + Len(lines)
       PROVE  s - Len(server) \in 1 .. Len(lines)
  BY <1>1, <1>3
<1>11. QED
  BY <1>2, <1>6, <1>8, <1>9, <1>10

LEMMA ServerSpeaksKeepsWireInv == ASSUME WireInv, ServerSpeaks PROVE WireInv'
<1>1. /\ turn = "server" /\ UNCHANGED <<proto, client, hello>>
  BY DEF ServerSpeaks
<1>2. PICK lines \in Answers :
        /\ server' = server \o [i \in DOMAIN lines |-> [line |-> lines[i], to |-> Len(client)]]
        /\ turn' = CASE Invites(lines) -> "body"
                     [] Consents(lines) -> "hello"
                     [] Parts(lines) /\ ~Invites(lines) /\ ~Consents(lines) -> "over"
                     [] OTHER -> "client"
  BY DEF ServerSpeaks
<1>3. PICK n, m, q : n = Len(client) /\ m = Len(server) /\ q = Len(lines)
  OBVIOUS
<1>4. /\ client \in Seq(ClientLine) /\ server \in Seq(ServerRecord) /\ proto \in Protocols
      /\ n \in Nat /\ m \in Nat
  BY <1>3 DEF WireInv, WireTypeOK
<1>5. /\ lines \in Seq(STRING) /\ q \in Nat /\ q > 0 /\ DOMAIN lines = 1 .. q
      /\ server' \in Seq(ServerRecord) /\ Len(server') = m + q /\ DOMAIN server' = 1 .. m + q
      /\ DOMAIN server = 1 .. m
      /\ \A s \in 1 .. m : server'[s] = server[s]
      /\ \A s \in m + 1 .. m + q : /\ s - m \in 1 .. q
                                   /\ server'[s].line = lines[s - m]
                                   /\ server'[s].to = n
  <2>1. /\ lines \in Seq(STRING) /\ Len(lines) > 0
        /\ server' \in Seq(ServerRecord)
        /\ Len(server') = Len(server) + Len(lines)
        /\ \A s \in 1 .. Len(server) : server'[s] = server[s]
        /\ \A s \in Len(server) + 1 .. Len(server) + Len(lines) :
             /\ s - Len(server) \in 1 .. Len(lines)
             /\ server'[s].line = lines[s - Len(server)]
             /\ server'[s].to = Len(client)
    BY <1>1, <1>2, Spoken
  <2>2. QED
    BY <1>3, <1>4, <2>1
<1>6. /\ Dialogue(proto, lines)
      /\ client = <<>> => Greets(proto, lines[1])
      /\ client # <<>> => \A k \in DOMAIN lines :
           lines[k] \in Granting(proto) => k = 1 /\ Asked \in Upgrade(proto)
  BY <1>1, AnswersAreDialogue
<1>7. \/ Invites(lines) /\ ~Consents(lines) /\ turn' = "body"
      \/ Consents(lines) /\ ~Invites(lines) /\ turn' = "hello"
      \/ Parts(lines) /\ ~Invites(lines) /\ ~Consents(lines) /\ turn' = "over"
      \/ ~Parts(lines) /\ ~Invites(lines) /\ ~Consents(lines) /\ turn' = "client"
  <2>1. ~(Invites(lines) /\ Consents(lines))
    BY DEF Invites, Consents, Granting
  <2>2. QED
    BY <1>2, <2>1
<1>8. WireTypeOK'
  BY <1>1, <1>4, <1>5, <1>7 DEF WireInv, WireTypeOK
<1>9. ServerLeads'
  <2>1. ASSUME CommandsUpTo(n) PROVE m >= n
    BY <1>1, <1>3, <2>1 DEF WireInv, ServerLeads
  <2>2. ASSUME NEW s \in DOMAIN server'
        PROVE  server'[s].to <= n /\ ((\A c \in 1 .. server'[s].to : ~client[c].body) => s > server'[s].to)
    <3>1. CASE s \in 1 .. m
      BY <1>3, <1>5, <3>1 DEF WireInv, ServerLeads, CommandsUpTo
    <3>2. CASE s \in m + 1 .. m + q
      BY <1>4, <1>5, <2>1, <3>2 DEF CommandsUpTo
    <3>3. QED
      BY <1>4, <1>5, <3>1, <3>2
  <2>3. CommandsUpTo(Len(client))' => Len(server') > Len(client') /\ turn' # "server"
    BY <1>1, <1>3, <1>4, <1>5, <1>7, <2>1 DEF CommandsUpTo
  <2>4. \A s \in DOMAIN server' :
          /\ server'[s].to <= Len(client')
          /\ (\A c \in 1 .. server'[s].to : ~client'[c].body) => s > server'[s].to
    BY <1>1, <1>3, <2>2
  <2>5. QED
    BY <2>3, <2>4 DEF ServerLeads, CommandsUpTo
<1>10. LinesAreSent'
  <2>1. turn' = "body" => proto = "SMTP" /\ client # <<>>
    BY <1>6, <1>7 DEF Invites, Greets
  <2>2. turn' # "server"
    BY <1>7
  <2>3. QED
    BY <1>1, <2>1, <2>2 DEF WireInv, LinesAreSent, Offset
<1>11. GreetedFirst'
  <2>1. server' # <<>>
    BY <1>4, <1>5
  <2>2. CASE server = <<>>
    <3>1. client = <<>> /\ m = 0 /\ n = 0
      BY <1>3, <2>2 DEF WireInv, GreetedFirst
    <3>2. server'[1].line = lines[1] /\ server'[1].to = 0
      BY <1>5, <3>1
    <3>3. QED
      BY <1>1, <1>6, <2>1, <3>1, <3>2 DEF GreetedFirst
  <2>3. CASE server # <<>>
    <3>1. server'[1] = server[1]
      BY <1>3, <1>4, <1>5, <2>3
    <3>2. QED
      BY <1>1, <2>1, <2>3, <3>1 DEF WireInv, GreetedFirst
  <2>4. QED
    BY <2>2, <2>3
<1>12. HelloAfterConsent'
  <2>1. hello' = "none"
    BY <1>1 DEF WireInv, HelloAfterConsent
  <2>2. ASSUME turn' = "hello" PROVE UpgradeGranted'
    <3>1. Asked \in Upgrade(proto) /\ lines[1] \in Granting(proto)
      BY <1>7, <2>2 DEF Consents
    <3>2. client # <<>> /\ n > 0 /\ client[n].text \in Upgrade(proto)
      <4>1. client # <<>>
        BY <3>1 DEF Asked, Upgrade
      <4>2. Asked = client[n].text
        BY <1>3, <4>1 DEF Asked, Last
      <4>3. QED
        BY <1>3, <1>4, <3>1, <4>1, <4>2
    <3>3. m + 1 \in DOMAIN server' /\ server'[m + 1].line = lines[1] /\ server'[m + 1].to = n
      BY <1>4, <1>5
    <3>4. QED
      BY <1>1, <3>1, <3>2, <3>3 DEF UpgradeGranted
  <2>3. QED
    BY <2>1, <2>2 DEF HelloAfterConsent
<1>13. SilentAfterwards'
  <2>1. ASSUME NEW s \in 1 .. m
        PROVE  /\ ~(server[s].to > 0 /\ server[s].line \in Granting(proto))
               /\ ~(proto = "IMAP" /\ server[s].line = "* BYE")
    BY <1>1, <1>5 DEF WireInv, SilentAfterwards, AnswersLast
  <2>2. ASSUME NEW s \in m + 1 .. m + q, n > 0, lines[s - m] \in Granting(proto)
        PROVE  turn' \in {"hello", "over"}
    <3>1. client # <<>>
      BY <1>3, <2>2
    <3>2. s - m = 1 /\ Asked \in Upgrade(proto)
      BY <1>5, <1>6, <2>2, <3>1
    <3>3. QED
      BY <1>7, <2>2, <3>2 DEF Consents
  <2>3. ASSUME NEW s \in m + 1 .. m + q, proto = "IMAP", lines[s - m] = "* BYE"
        PROVE  turn' \in {"hello", "over"}
    <3>1. Parts(lines) /\ ~Invites(lines)
      BY <1>5, <2>3 DEF Parts, Invites
    <3>2. QED
      BY <1>7, <3>1
  <2>4. ASSUME NEW s \in DOMAIN server',
               \/ server'[s].to > 0 /\ server'[s].line \in Granting(proto)
               \/ proto = "IMAP" /\ server'[s].line = "* BYE"
        PROVE  server'[s].to = n /\ turn' \in {"hello", "over"}
    <3>1. s \in m + 1 .. m + q
      <4>1. s \notin 1 .. m
        BY <1>5, <2>1, <2>4
      <4>2. QED
        BY <1>4, <1>5, <4>1
    <3>2. QED
      BY <1>5, <2>2, <2>3, <2>4, <3>1
  <2>5. QED
    BY <1>1, <1>3, <2>4 DEF SilentAfterwards, AnswersLast
<1>14. ListsAreClosed'
  <2> SUFFICES ASSUME proto = "POP3" PROVE ListsClosed(server)'
    BY <1>1 DEF ListsAreClosed
  <2>1. /\ \A j \in 1 .. m : server[j].line = "+OK CAPA" =>
             \E k \in j + 1 .. m : server[k].line = "."
        /\ \A j \in 1 .. m : server[j].line = "+OK CAPA" =>
             \A s \in j + 1 .. m :
               \/ server[s].line \in Refusing("POP3")
               \/ server[s].line \in Granting("POP3") /\ server[s].to > 0
               => \E k \in j + 1 .. s - 1 : server[k].line = "."
    <3>1. ListsClosed(server)
      BY DEF WireInv, ListsAreClosed
    <3>2. QED
      BY <1>3, <1>5, <3>1 DEF ListsClosed, ClosedBy
  <2>2. (\E k \in 1 .. q : lines[k] = "+OK CAPA") => lines[q] = "."
    BY <1>3, <1>5, <1>6 DEF Dialogue, Last
  <2>3. \A k \in 1 .. q : lines[k] \in Refusing("POP3") => k = 1
    BY <1>5, <1>6 DEF Dialogue
  <2>4. n > 0 => \A k \in 1 .. q : lines[k] \in Granting("POP3") => k = 1
    BY <1>3, <1>4, <1>5, <1>6
  <2>5. server'[m + q].line = lines[q]
    BY <1>4, <1>5
  <2>6. ASSUME NEW j \in 1 .. m + q, server'[j].line = "+OK CAPA"
        PROVE  \E k \in j + 1 .. m + q : server'[k].line = "."
    <3>1. CASE j \in 1 .. m
      <4>1. PICK k \in j + 1 .. m : server[k].line = "."
        BY <1>5, <2>1, <2>6, <3>1
      <4>2. k \in 1 .. m /\ k \in j + 1 .. m + q
        BY <1>4, <1>5, <3>1
      <4>3. QED
        BY <1>5, <4>1, <4>2
    <3>2. CASE j \in m + 1 .. m + q
      <4>1. lines[j - m] = "+OK CAPA" /\ j - m \in 1 .. q
        BY <1>5, <2>6, <3>2
      <4>2. lines[q] = "." /\ j # m + q
        <5>1. lines[q] = "."
          BY <2>2, <4>1
        <5>2. j - m # q
          BY <4>1, <5>1
        <5>3. QED
          BY <1>4, <1>5, <5>1, <5>2
      <4>3. m + q \in j + 1 .. m + q
        BY <1>4, <1>5, <3>2, <4>2
      <4>4. QED
        BY <2>5, <4>2, <4>3
    <3>3. QED
      BY <1>4, <1>5, <3>1, <3>2
  <2>7. ASSUME NEW j \in 1 .. m + q, server'[j].line = "+OK CAPA", NEW s \in j + 1 .. m + q,
               \/ server'[s].line \in Refusing("POP3")
               \/ server'[s].line \in Granting("POP3") /\ server'[s].to > 0
        PROVE  \E k \in j + 1 .. s - 1 : server'[k].line = "."
    <3>1. CASE s \in 1 .. m
      <4>1. j \in 1 .. m /\ s \in j + 1 .. m
        BY <1>4, <1>5, <3>1
      <4>2. PICK k \in j + 1 .. s - 1 : server[k].line = "."
        BY <1>5, <2>1, <2>7, <3>1, <4>1
      <4>3. k \in 1 .. m
        BY <1>4, <3>1, <4>1
      <4>4. QED
        BY <1>5, <4>2, <4>3
    <3>2. CASE s \in m + 1 .. m + q
      <4>1. s = m + 1
        <5>1. s - m = 1
          BY <1>5, <2>3, <2>4, <2>7, <3>2
        <5>2. QED
          BY <1>4, <3>2, <5>1
      <4>2. j \in 1 .. m
        BY <1>4, <1>5, <4>1
      <4>3. PICK k \in j + 1 .. m : server[k].line = "."
        BY <1>5, <2>1, <2>7, <4>2
      <4>4. k \in 1 .. m /\ k \in j + 1 .. s - 1
        BY <1>4, <4>1, <4>2
      <4>5. QED
        BY <1>5, <4>3, <4>4
    <3>3. QED
      BY <1>4, <1>5, <3>1, <3>2
  <2>8. ASSUME NEW said, said = server' PROVE ListsClosed(said)
    <3>1. Len(said) = m + q /\ DOMAIN said = 1 .. m + q
      BY <1>4, <1>5, <2>8
    <3>2. \A j \in 1 .. m + q : said[j].line = "+OK CAPA" =>
            \E k \in j + 1 .. m + q : said[k].line = "."
      BY <2>6, <2>8
    <3>3. \A j \in 1 .. m + q : said[j].line = "+OK CAPA" =>
            \A s \in j + 1 .. m + q :
              \/ said[s].line \in Refusing("POP3")
              \/ said[s].line \in Granting("POP3") /\ said[s].to > 0
              => \E k \in j + 1 .. s - 1 : said[k].line = "."
      BY <2>7, <2>8
    <3>4. QED
      BY <3>1, <3>2, <3>3 DEF ListsClosed, ClosedBy
  <2>9. QED
    BY <2>8
<1>15. QED
  BY <1>8, <1>9, <1>10, <1>11, <1>12, <1>13, <1>14 DEF WireInv

-----------------------------------------------------------------------------
(* What the analysis reads in the list.                                    *)

\* A set of naturals that is not empty has a least element.
LEMMA Least ==
  ASSUME NEW S, S \subseteq Nat, S # {}
  PROVE  \E x \in S : \A y \in S : x <= y
<1>1. PICK x \in S : \A y \in S : ~(<<y, x>> \in OpToRel(<, Nat))
  BY NatLessThanWellFounded, WFMin
<1>2. QED
  <2>1. ASSUME NEW y \in S, ~(x <= y) PROVE FALSE
    <3>1. <<y, x>> \in Nat \X Nat /\ y < x
      BY <2>1
    <3>2. <<y, x>> \in OpToRel(<, Nat)
      BY <3>1 DEF OpToRel
    <3>3. QED
      BY <1>1, <3>2
  <2>2. QED
    BY <1>1, <2>1

\* The first event of some types, as it is looked for.
LEMMA FirstIs ==
  ASSUME NEW evs \in Seq(AnEvent), NEW types
  PROVE  \/ FirstEvent(evs, types) = 0 /\ \A i \in DOMAIN evs : evs[i].type \notin types
         \/ /\ FirstEvent(evs, types) \in DOMAIN evs
            /\ evs[FirstEvent(evs, types)].type \in types
            /\ \A i \in 1 .. FirstEvent(evs, types) - 1 : evs[i].type \notin types
<1> DEFINE places == {i \in 1 .. Len(evs) : evs[i].type \in types}
<1>1. FirstEvent(evs, types) = IF places # {} THEN Min(places) ELSE 0
  BY DEF FirstEvent, SelectInSeq
<1>2. Len(evs) \in Nat /\ DOMAIN evs = 1 .. Len(evs)
  OBVIOUS
<1>3. CASE places = {}
  BY <1>1, <1>2, <1>3
<1>4. CASE places # {}
  <2>1. places \subseteq Nat
    BY <1>2
  <2>2. \E x \in places : \A y \in places : x <= y
    BY <1>4, <2>1, Least
  <2>3. Min(places) \in places /\ \A y \in places : Min(places) <= y
    BY <2>2 DEF Min
  <2>4. FirstEvent(evs, types) = Min(places)
    BY <1>1, <1>4
  <2>5. PICK m : m = Min(places)
    OBVIOUS
  <2>6. m \in 1 .. Len(evs) /\ evs[m].type \in types
    BY <2>3, <2>5
  <2>7. ASSUME NEW i \in 1 .. m - 1 PROVE evs[i].type \notin types
    <3>1. i \in 1 .. Len(evs) /\ ~(m <= i)
      BY <1>2, <2>6
    <3>2. i \notin places
      BY <2>3, <2>5, <3>1
    <3>3. QED
      BY <3>1, <3>2
  <2>8. QED
    BY <1>2, <2>4, <2>5, <2>6, <2>7
<1>5. QED
  BY <1>3, <1>4


\* The place of the first rule that matches.
Matching(rules) == SelectInSeq(rules, LAMBDA r : r.if)

\* The first rule that matches is found.
LEMMA FirstRule ==
  ASSUME NEW rules, NEW n \in Nat, Len(rules) = n, NEW k \in 1 .. n, rules[k].if,
         \A j \in 1 .. k - 1 : ~rules[j].if
  PROVE  Matching(rules) = k
<1> DEFINE matching == {i \in 1 .. Len(rules) : rules[i].if}
<1>1. Matching(rules) = IF matching # {} THEN Min(matching) ELSE 0
  BY DEF Matching, SelectInSeq
<1>2. k \in matching /\ \A i \in matching : i \in Nat /\ k <= i
  <2>1. ASSUME NEW i \in matching, ~(k <= i) PROVE FALSE
    <3>1. i \in 1 .. n /\ i \in 1 .. k - 1
      BY <2>1
    <3>2. QED
      BY <2>1, <3>1
  <2>2. QED
    BY <2>1
<1> HIDE DEF matching
<1>3. Min(matching) = k
  <2>1. PICK m : m = Min(matching)
    OBVIOUS
  <2>2. m \in matching /\ \A i \in matching : m <= i
    BY <1>2, <2>1 DEF Min
  <2>3. m \in Nat /\ m <= k /\ k <= m
    BY <1>2, <2>2
  <2>4. QED
    BY <2>1, <2>3
<1>4. QED
  BY <1>1, <1>2, <1>3


\* The status, as the table decides it.
LEMMA StatusIs ==
  ASSUME NEW s, NEW evs
  PROVE  LET status == DetermineStatus(s, evs)
             late == PlaintextAfterTls(evs)
             req == Requested(s, evs)
             acc == Accepted(s, evs)
             hs == HandshakeObserved(s, evs)
         IN  /\ status = "STARTTLS_SUCCESS" <=> ~late /\ req /\ acc /\ hs
             /\ status = "STARTTLS_ACCEPTED_NO_HANDSHAKE" <=> ~late /\ req /\ acc /\ ~hs
             /\ status \in {"STARTTLS_AVAILABLE_NOT_USED", "PLAINTEXT_SESSION"} => ~req
             /\ status # "IMPLICIT_TLS"
<1> DEFINE adv == Advertised(s, evs)
           req == Requested(s, evs)
           acc == Accepted(s, evs)
           hs == HandshakeObserved(s, evs)
           late == PlaintextAfterTls(evs)
           evidence == Has(evs, AcceptEvents \cup RejectEvents) \/ FirstAuth(evs) # 0
           a == [if |-> late, then |-> "PLAINTEXT_AFTER_TLS"]
           b == [if |-> req /\ ~acc, then |-> "STARTTLS_REJECTED"]
           c == [if |-> req /\ acc /\ hs, then |-> "STARTTLS_SUCCESS"]
           d == [if |-> req /\ acc /\ ~hs, then |-> "STARTTLS_ACCEPTED_NO_HANDSHAKE"]
           e == [if |-> adv /\ ~req, then |-> "STARTTLS_AVAILABLE_NOT_USED"]
           f == [if |-> ~adv /\ ~req /\ ~hs /\ ~evidence, then |-> "INCOMPLETE_CAPTURE"]
           g == [if |-> ~adv /\ ~req /\ ~hs, then |-> "PLAINTEXT_SESSION"]
           h == [if |-> hs /\ ~req, then |-> "STARTTLS_NOT_OBSERVED"]
           i == [if |-> TRUE, then |-> "UNKNOWN"]
           rules == <<a, b, c, d, e, f, g, h, i>>
<1>1. DetermineStatus(s, evs) = rules[Matching(rules)].then
  BY DEF DetermineStatus, Matching, SelectInSeq
<1> HIDE DEF adv, req, acc, hs, late, evidence
<1>2. /\ rules[1] = a /\ rules[2] = b /\ rules[3] = c /\ rules[4] = d /\ rules[5] = e
      /\ rules[6] = f /\ rules[7] = g /\ rules[8] = h /\ rules[9] = i
  OBVIOUS
<1>3. /\ a.if <=> late
      /\ b.if <=> req /\ ~acc
      /\ c.if <=> req /\ acc /\ hs
      /\ d.if <=> req /\ acc /\ ~hs
      /\ e.if <=> adv /\ ~req
      /\ f.if <=> ~adv /\ ~req /\ ~hs /\ ~evidence
      /\ g.if <=> ~adv /\ ~req /\ ~hs
      /\ h.if <=> hs /\ ~req
  OBVIOUS
<1>4. /\ a.then = "PLAINTEXT_AFTER_TLS" /\ b.then = "STARTTLS_REJECTED"
      /\ c.then = "STARTTLS_SUCCESS" /\ d.then = "STARTTLS_ACCEPTED_NO_HANDSHAKE"
      /\ e.then = "STARTTLS_AVAILABLE_NOT_USED" /\ f.then = "INCOMPLETE_CAPTURE"
      /\ g.then = "PLAINTEXT_SESSION" /\ h.then = "STARTTLS_NOT_OBSERVED"
  OBVIOUS
<1>5. PICK t : t = rules
  OBVIOUS
<1>6. Len(t) = 9
  BY <1>5
<1>7. /\ t[1] = a /\ t[2] = b /\ t[3] = c /\ t[4] = d /\ t[5] = e
      /\ t[6] = f /\ t[7] = g /\ t[8] = h /\ t[9] = i
  BY <1>2, <1>5
<1>8. DetermineStatus(s, evs) = t[Matching(t)].then
  BY <1>1, <1>5
<1> HIDE DEF rules, a, b, c, d, e, f, g, h, i
<1>9. ASSUME NEW n \in 1 .. 9, t[n].if, \A j \in 1 .. n - 1 : ~t[j].if
      PROVE  DetermineStatus(s, evs) = t[n].then
  BY <1>6, <1>8, <1>9, FirstRule
<1>10. /\ t[1].if <=> late
       /\ t[2].if <=> req /\ ~acc
       /\ t[3].if <=> req /\ acc /\ hs
       /\ t[4].if <=> req /\ acc /\ ~hs
       /\ t[5].if <=> adv /\ ~req
       /\ t[6].if <=> ~adv /\ ~req /\ ~hs /\ ~evidence
       /\ t[7].if <=> ~adv /\ ~req /\ ~hs
       /\ t[8].if <=> hs /\ ~req
  BY <1>3, <1>7, Zenon
<1> DEFINE status == DetermineStatus(s, evs)
<1>12. t[1].if => status = t[1].then
  <2>1. 1 \in 1 .. 9 /\ \A j \in 1 .. 1 - 1 : ~t[j].if
    OBVIOUS
  <2>2. QED
    BY <1>9, <2>1, Zenon
<1>13. ~t[1].if /\ t[2].if => status = t[2].then
  <2>1. 2 \in 1 .. 9 /\ (~t[1].if => \A j \in 1 .. 2 - 1 : ~t[j].if)
    OBVIOUS
  <2>2. QED
    BY <1>9, <2>1, Zenon
<1>14. ~t[1].if /\ ~t[2].if /\ t[3].if
       => status = t[3].then
  <2>1. 3 \in 1 .. 9 /\ (~t[1].if /\ ~t[2].if
                         => \A j \in 1 .. 3 - 1 : ~t[j].if)
    OBVIOUS
  <2>2. QED
    BY <1>9, <2>1, Zenon
<1>15. ~t[1].if /\ ~t[2].if /\ ~t[3].if /\ t[4].if
       => status = t[4].then
  <2>1. 4 \in 1 .. 9 /\ (~t[1].if /\ ~t[2].if /\ ~t[3].if
                         => \A j \in 1 .. 4 - 1 : ~t[j].if)
    OBVIOUS
  <2>2. QED
    BY <1>9, <2>1, Zenon
<1>16. ~t[1].if /\ ~t[2].if /\ ~t[3].if /\ ~t[4].if /\ t[5].if
       => status = t[5].then
  <2>1. 5 \in 1 .. 9 /\ (~t[1].if /\ ~t[2].if /\ ~t[3].if /\ ~t[4].if
                         => \A j \in 1 .. 5 - 1 : ~t[j].if)
    OBVIOUS
  <2>2. QED
    BY <1>9, <2>1, Zenon
<1>17. ~t[1].if /\ ~t[2].if /\ ~t[3].if /\ ~t[4].if /\ ~t[5].if /\ t[6].if
       => status = t[6].then
  <2>1. 6 \in 1 .. 9 /\ (~t[1].if /\ ~t[2].if /\ ~t[3].if /\ ~t[4].if /\ ~t[5].if
                         => \A j \in 1 .. 6 - 1 : ~t[j].if)
    OBVIOUS
  <2>2. QED
    BY <1>9, <2>1, Zenon
<1>18. ~t[1].if /\ ~t[2].if /\ ~t[3].if /\ ~t[4].if /\ ~t[5].if /\ ~t[6].if /\ t[7].if
       => status = t[7].then
  <2>1. 7 \in 1 .. 9 /\ (~t[1].if /\ ~t[2].if /\ ~t[3].if /\ ~t[4].if /\ ~t[5].if /\ ~t[6].if
                         => \A j \in 1 .. 7 - 1 : ~t[j].if)
    OBVIOUS
  <2>2. QED
    BY <1>9, <2>1, Zenon
<1>19. ~t[1].if /\ ~t[2].if /\ ~t[3].if /\ ~t[4].if /\ ~t[5].if /\ ~t[6].if /\ ~t[7].if /\ t[8].if
       => status = t[8].then
  <2>1. 8 \in 1 .. 9 /\ (~t[1].if /\ ~t[2].if /\ ~t[3].if /\ ~t[4].if /\ ~t[5].if /\ ~t[6].if /\ ~t[7].if
                         => \A j \in 1 .. 8 - 1 : ~t[j].if)
    OBVIOUS
  <2>2. QED
    BY <1>9, <2>1, Zenon
<1>20. late => status = "PLAINTEXT_AFTER_TLS"
  BY <1>4, <1>7, <1>10, <1>12, Zenon
<1>21. ~late /\ req /\ ~acc => status = "STARTTLS_REJECTED"
  BY <1>4, <1>7, <1>10, <1>13, Zenon
<1>22. ~late /\ req /\ acc /\ hs => status = "STARTTLS_SUCCESS"
  BY <1>4, <1>7, <1>10, <1>14, Zenon
<1>23. ~late /\ req /\ acc /\ ~hs => status = "STARTTLS_ACCEPTED_NO_HANDSHAKE"
  BY <1>4, <1>7, <1>10, <1>15, Zenon
<1>24. ~late /\ ~req => status \in {"STARTTLS_AVAILABLE_NOT_USED", "INCOMPLETE_CAPTURE",
                                    "PLAINTEXT_SESSION", "STARTTLS_NOT_OBSERVED"}
  <2>1. CASE adv /\ ~late /\ ~req
    BY <1>4, <1>7, <1>10, <1>16, <2>1, Zenon
  <2>2. CASE ~adv /\ ~late /\ ~req /\ ~hs /\ ~evidence
    BY <1>4, <1>7, <1>10, <1>17, <2>2, Zenon
  <2>3. CASE ~adv /\ ~late /\ ~req /\ ~hs /\ evidence
    BY <1>4, <1>7, <1>10, <1>18, <2>3, Zenon
  <2>4. CASE ~adv /\ ~late /\ ~req /\ hs
    BY <1>4, <1>7, <1>10, <1>19, <2>4, Zenon
  <2>5. QED
    BY <2>1, <2>2, <2>3, <2>4, Zenon
<1>25. /\ status = "STARTTLS_SUCCESS" <=> ~late /\ req /\ acc /\ hs
       /\ status = "STARTTLS_ACCEPTED_NO_HANDSHAKE" <=> ~late /\ req /\ acc /\ ~hs
       /\ status \in {"STARTTLS_AVAILABLE_NOT_USED", "PLAINTEXT_SESSION"} => ~req
       /\ status # "IMPLICIT_TLS"
  BY <1>20, <1>21, <1>22, <1>23, <1>24
<1>26. QED
  BY <1>25 DEF late, req, acc, hs

LEMMA HasIs ==
  ASSUME NEW evs \in Seq(AnEvent), NEW types
  PROVE  Has(evs, types) <=> \E i \in DOMAIN evs : evs[i].type \in types
BY FirstIs DEF Has

\* A handshake on a server that greeted is no implicit TLS.
LEMMA NotImplicit ==
  ASSUME NEW evs \in Seq(AnEvent), NEW s, s.mode # "IMPLICIT_TLS",
         \A i \in DOMAIN evs : evs[i].type = "TLS_HANDSHAKE_STARTED" =>
           \E g \in DOMAIN evs : evs[g].type \in GreetingEvents /\ evs[g].time <= evs[i].time
  PROVE  ~ImplicitTls(s, evs)
<1> DEFINE clients == {i \in 1 .. Len(evs) : evs[i].dir = "C2S"}
           first == IF clients # {} THEN Min(clients) ELSE 0
<1>1. first \in DOMAIN evs \cup {0}
  <2>1. CASE clients = {}
    BY <2>1
  <2>2. CASE clients # {}
    <3>1. clients \subseteq Nat /\ clients \subseteq DOMAIN evs
      OBVIOUS
    <3>2. \E x \in clients : \A y \in clients : x <= y
      BY <2>2, <3>1, Least
    <3>3. Min(clients) \in clients
      BY <3>2 DEF Min
    <3>4. QED
      BY <2>2, <3>1, <3>3
  <2>3. QED
    BY <2>1, <2>2
<1>2. ImplicitTls(s, evs) =>
        /\ first # 0
        /\ evs[first].type = "TLS_HANDSHAKE_STARTED"
        /\ ~\E i \in DOMAIN evs :
             evs[i].type \in GreetingEvents /\ evs[i].time <= evs[first].time
  BY DEF ImplicitTls, SelectInSeq
<1> HIDE DEF first
<1>3. QED
  BY <1>1, <1>2

-----------------------------------------------------------------------------
(* The events of a merged list, by where they come from.                   *)

LEMMA EventsAre ==
  ASSUME NEW p, NEW lines, NEW cl, NEW h, NEW r, NEW list,
         Streams(p, lines, cl, h, r), Merged(p, lines, cl, h, r, list),
         NEW k \in DOMAIN list
  PROVE  /\ list[k] \in AnEvent
         /\ list[k].dir = "S2C" =>
              /\ list[k].line \in DOMAIN lines
              /\ list[k].type \in TypesAt(p, lines, list[k].line)
              /\ list[k].type \in ServerTypes
              /\ list[k].time = 100 * list[k].line
         /\ list[k].dir = "C2S" =>
              \/ /\ list[k].line \in DOMAIN cl
                 /\ list[k].type = Command(p, cl[list[k].line].text)
                 /\ list[k].type \in ClientTypes
                 /\ list[k].time = 100 * list[k].line + 50
              \/ /\ h # "none"
                 /\ list[k].line = Len(cl) + 1
                 /\ list[k].type = "TLS_HANDSHAKE_STARTED"
                 /\ list[k].time = HelloTime(cl, h, r)
<1>1. PICK e : e = list[k]
  OBVIOUS
<1>2. e \in AnEvent /\ e \in AllEvents(p, lines, cl, h, r) /\ p \in MailProtocols
  BY <1>1 DEF Merged, Streams
<1>3. \/ \E i \in DOMAIN lines : \E t \in TypesAt(p, lines, i) :
           e = Event(t, "S2C", ServerTime(i), i)
      \/ \E i \in DOMAIN cl : e = Event(Command(p, cl[i].text), "C2S", ClientTime(i), i)
      \/ /\ h # "none"
         /\ e = Event("TLS_HANDSHAKE_STARTED", "C2S", HelloTime(cl, h, r), Len(cl) + 1)
  BY <1>2, EventsComeFrom
<1>4. ASSUME NEW i \in DOMAIN lines, NEW t \in TypesAt(p, lines, i),
             e = Event(t, "S2C", ServerTime(i), i)
      PROVE  /\ e.dir = "S2C" /\ e.line \in DOMAIN lines /\ e.type \in TypesAt(p, lines, e.line)
             /\ e.type \in ServerTypes /\ e.time = 100 * e.line
  BY <1>2, <1>4, ServerTypesAre DEF Event, ServerTime
<1>5. ASSUME NEW i \in DOMAIN cl, e = Event(Command(p, cl[i].text), "C2S", ClientTime(i), i)
      PROVE  /\ e.dir = "C2S" /\ e.line \in DOMAIN cl /\ e.type = Command(p, cl[e.line].text)
             /\ e.type \in ClientTypes /\ e.time = 100 * e.line + 50
  BY <1>2, <1>5, CommandTypes DEF Event, ClientTime
<1>6. ASSUME e = Event("TLS_HANDSHAKE_STARTED", "C2S", HelloTime(cl, h, r), Len(cl) + 1)
      PROVE  /\ e.dir = "C2S" /\ e.line = Len(cl) + 1 /\ e.type = "TLS_HANDSHAKE_STARTED"
             /\ e.time = HelloTime(cl, h, r)
  BY <1>6 DEF Event
<1>7. QED
  BY <1>1, <1>2, <1>3, <1>4, <1>5, <1>6

\* And each event is in the list.
LEMMA LineHeard ==
  ASSUME NEW p, NEW lines, NEW cl, NEW h, NEW r, NEW list, Merged(p, lines, cl, h, r, list),
         NEW i \in DOMAIN lines, NEW t \in TypesAt(p, lines, i)
  PROVE  \E k \in DOMAIN list : list[k].type = t /\ list[k].time = 100 * i
<1>1. PICK e : e = Event(t, "S2C", ServerTime(i), i)
  OBVIOUS
<1>2. e \in AllEvents(p, lines, cl, h, r)
  BY <1>1, EventsComeFrom
<1>3. e.type = t /\ e.time = 100 * i
  BY <1>1 DEF Event, ServerTime
<1>4. QED
  BY <1>2, <1>3 DEF Merged

LEMMA CommandHeard ==
  ASSUME NEW p, NEW lines, NEW cl, NEW h, NEW r, NEW list, Merged(p, lines, cl, h, r, list),
         NEW i \in DOMAIN cl, Command(p, cl[i].text) # NoCommand
  PROVE  \E k \in DOMAIN list :
           /\ list[k].type = Command(p, cl[i].text) /\ list[k].dir = "C2S"
           /\ list[k].time = 100 * i + 50
<1>1. PICK e : e = Event(Command(p, cl[i].text), "C2S", ClientTime(i), i)
  OBVIOUS
<1>2. e \in AllEvents(p, lines, cl, h, r)
  BY <1>1, EventsComeFrom
<1>3. e.type = Command(p, cl[i].text) /\ e.dir = "C2S" /\ e.time = 100 * i + 50
  BY <1>1 DEF Event, ClientTime
<1>4. QED
  BY <1>2, <1>3 DEF Merged

LEMMA HelloHeard ==
  ASSUME NEW p, NEW lines, NEW cl, NEW h, NEW r, NEW list, Merged(p, lines, cl, h, r, list),
         h # "none"
  PROVE  \E k \in DOMAIN list : list[k].type = "TLS_HANDSHAKE_STARTED"
<1>1. PICK e : e = Event("TLS_HANDSHAKE_STARTED", "C2S", HelloTime(cl, h, r), Len(cl) + 1)
  OBVIOUS
<1>2. e \in AllEvents(p, lines, cl, h, r)
  BY <1>1, EventsComeFrom
<1>3. e.type = "TLS_HANDSHAKE_STARTED"
  BY <1>1 DEF Event
<1>4. QED
  BY <1>2, <1>3 DEF Merged

\* An event of TLS is the hello: no parser reports implicit TLS.
LEMMA TlsIsHello ==
  ASSUME NEW p, NEW lines, NEW cl, NEW h, NEW r, NEW list,
         Streams(p, lines, cl, h, r), Merged(p, lines, cl, h, r, list),
         NEW k \in DOMAIN list, list[k].type \in TlsTypes \cup HandshakeEvents
  PROVE  /\ h # "none" /\ list[k].type = "TLS_HANDSHAKE_STARTED" /\ list[k].dir = "C2S"
         /\ list[k].time = HelloTime(cl, h, r)
<1>1. list[k] \in AnEvent
  BY EventsAre
<1>2. list[k].type \in EventTypes /\ list[k].dir \in {"S2C", "C2S"}
  BY <1>1 DEF AnEvent
<1>3. "ENCRYPTED_TRAFFIC" \notin EventTypes
  <2>1. "ENCRYPTED_TRAFFIC" \notin ServerTypes
    BY DEF ServerTypes, AcceptEvents, RejectEvents, GreetingEvents
  <2>2. "ENCRYPTED_TRAFFIC" \notin ClientTypes \cup TlsTypes
    BY DEF ClientTypes, UpgradeRequests, TlsTypes
  <2>3. QED
    BY <2>1, <2>2 DEF EventTypes
<1>4. list[k].type \in TlsTypes
  BY <1>2, <1>3 DEF HandshakeEvents, TlsTypes
<1>5. list[k].type \notin ServerTypes
  BY <1>4 DEF TlsTypes, ServerTypes, AcceptEvents, RejectEvents, GreetingEvents
<1>6. list[k].type \notin ClientTypes
  BY <1>4, TypesOfOneSide
<1>7. QED
  BY <1>2, <1>5, <1>6, EventsAre

\* The hello in its place comes after every line of the client.
LEMMA HelloIsLate ==
  ASSUME NEW cl \in Seq(ClientLine), NEW h, NEW r \in -1 .. 1,
         h # "tail" \/ Offset(cl) > 10 * Len(cl), h \in {"line", "tail"},
         NEW i \in DOMAIN cl
  PROVE  HelloTime(cl, h, r) > 100 * i + 50
<1>1. i \in 1 .. Len(cl) /\ Len(cl) \in Nat /\ Offset(cl) \in Nat
  BY OffsetIsNat
<1>2. CASE h = "line"
  BY <1>1, <1>2 DEF HelloTime, ClientTime
<1>3. CASE h = "tail"
  BY <1>1, <1>3 DEF HelloTime
<1>4. QED
  BY <1>2, <1>3

\* An event of the client that is reported is a command.
LEMMA UpgradesHeard ==
  ASSUME NEW p, NEW lines, NEW cl, NEW h, NEW r, NEW list,
         Streams(p, lines, cl, h, r), Merged(p, lines, cl, h, r, list)
  PROVE  (\E k \in DOMAIN list : list[k].type \in UpgradeRequests)
           <=> \E c \in DOMAIN cl : cl[c].text \in Upgrade(p)
<1>1. p \in MailProtocols
  BY DEF Streams
<1>2. ASSUME NEW k \in DOMAIN list, list[k].type \in UpgradeRequests
      PROVE  \E c \in DOMAIN cl : cl[c].text \in Upgrade(p)
  <2>1. list[k].type \in ClientTypes
    BY <1>2 DEF ClientTypes
  <2>2. list[k].type \notin ServerTypes /\ list[k].type # "TLS_HANDSHAKE_STARTED"
    BY <2>1, TypesOfOneSide DEF TlsTypes
  <2>3. list[k].dir \in {"S2C", "C2S"}
    BY EventsAre DEF AnEvent
  <2>4. list[k].line \in DOMAIN cl /\ list[k].type = Command(p, cl[list[k].line].text)
    BY <2>2, <2>3, EventsAre
  <2>5. QED
    BY <1>1, <1>2, <2>4, CommandTypes
<1>3. ASSUME NEW c \in DOMAIN cl, cl[c].text \in Upgrade(p)
      PROVE  \E k \in DOMAIN list : list[k].type \in UpgradeRequests
  <2>1. Command(p, cl[c].text) \in UpgradeRequests
    BY <1>1, <1>3, CommandTypes
  <2>2. Command(p, cl[c].text) # NoCommand
    BY <2>1 DEF UpgradeRequests, NoCommand
  <2>3. QED
    BY <2>1, <2>2, CommandHeard
<1>4. QED
  BY <1>2, <1>3

\* What the server is heard to say of an upgrade, it said.
LEMMA ConsentWasSaid ==
  ASSUME NEW p, NEW lines, NEW cl, NEW h, NEW r, NEW list,
         Streams(p, lines, cl, h, r), Merged(p, lines, cl, h, r, list), NEW k \in DOMAIN list
  PROVE  /\ list[k].type \in AcceptEvents =>
              /\ list[k].line \in DOMAIN lines
              /\ list[k].time = 100 * list[k].line
              /\ lines[list[k].line] \in Granting(p)
              /\ p # "IMAP" => Greeted(p, lines, list[k].line)
         /\ list[k].type \in RejectEvents =>
              list[k].line \in DOMAIN lines /\ lines[list[k].line] \in Refusing(p)
<1>1. p \in MailProtocols
  BY DEF Streams
<1>2. list[k].dir \in {"S2C", "C2S"}
  BY EventsAre DEF AnEvent
<1>3. ASSUME list[k].type \in AcceptEvents \cup RejectEvents PROVE list[k].dir = "S2C"
  <2>1. list[k].type \in ServerTypes
    BY <1>3 DEF ServerTypes
  <2>2. list[k].type \notin ClientTypes
    BY <2>1, TypesOfOneSide
  <2>3. list[k].type # "TLS_HANDSHAKE_STARTED"
    BY <1>3 DEF AcceptEvents, RejectEvents
  <2>4. QED
    BY <1>2, <2>2, <2>3, EventsAre
<1>4. list[k].type \in AcceptEvents \cup RejectEvents =>
        /\ list[k].line \in DOMAIN lines /\ list[k].time = 100 * list[k].line
        /\ list[k].type \in TypesAt(p, lines, list[k].line)
  BY <1>3, EventsAre
<1>5. QED
  BY <1>1, <1>4, ServerTypesAre

-----------------------------------------------------------------------------
(* What the state machine has learnt.                                      *)

SecurityRecord ==
  [starttls_advertised : BOOLEAN, starttls_requested : BOOLEAN,
   starttls_accepted : BOOLEAN, starttls_rejected : BOOLEAN, tls_started : BOOLEAN,
   authentication_attempted : BOOLEAN, authentication_before_tls : BOOLEAN,
   data_started : BOOLEAN]

\* One of the first n events has one of the types.
Met(evs, n, types) == \E i \in 1 .. n : evs[i].type \in types

AuthBeforeTls(evs, n) ==
  \E i \in 1 .. n : evs[i].type = "AUTH_ATTEMPT" /\ ~Met(evs, i - 1, TlsTypes)

\* The security facts are facts of the events met so far.
FactsOf(evs, n, sec) ==
  /\ sec \in SecurityRecord
  /\ sec.tls_started <=> Met(evs, n, TlsTypes)
  /\ sec.starttls_requested <=> Met(evs, n, UpgradeRequests)
  /\ sec.starttls_accepted <=> Met(evs, n, AcceptEvents)
  /\ sec.starttls_rejected <=> Met(evs, n, RejectEvents)
  /\ sec.authentication_before_tls <=> AuthBeforeTls(evs, n)

LEMMA MetGrows ==
  ASSUME NEW evs, NEW n \in Nat, NEW types
  PROVE  Met(evs, n + 1, types) <=> Met(evs, n, types) \/ evs[n + 1].type \in types
<1>1. \A i : i \in 1 .. n + 1 <=> i \in 1 .. n \/ i = n + 1
  OBVIOUS
<1>2. QED
  BY <1>1 DEF Met

LEMMA SecurityGrows ==
  ASSUME NEW sec \in SecurityRecord, NEW type
  PROVE  /\ SecurityAfter(sec, type) \in SecurityRecord
         /\ SecurityAfter(sec, type).tls_started <=> sec.tls_started \/ type \in TlsTypes
         /\ SecurityAfter(sec, type).starttls_requested <=>
              sec.starttls_requested \/ type \in UpgradeRequests
         /\ SecurityAfter(sec, type).starttls_accepted <=>
              sec.starttls_accepted \/ type \in AcceptEvents
         /\ SecurityAfter(sec, type).starttls_rejected <=>
              sec.starttls_rejected \/ type \in RejectEvents
         /\ SecurityAfter(sec, type).authentication_before_tls <=>
              sec.authentication_before_tls \/ (type = "AUTH_ATTEMPT" /\ ~sec.tls_started)
<1>1. SecurityAfter(sec, type) \in SecurityRecord
  <2> DEFINE a == sec.starttls_advertised \/ type = "STARTTLS_ADVERTISED"
             b == sec.starttls_requested \/ type \in UpgradeRequests
             c == sec.starttls_accepted \/ type \in AcceptEvents
             d == sec.starttls_rejected \/ type \in RejectEvents
             e == sec.tls_started \/ type \in TlsTypes
             f == sec.authentication_attempted \/ type = "AUTH_ATTEMPT"
             g == sec.authentication_before_tls \/ (type = "AUTH_ATTEMPT" /\ ~sec.tls_started)
             h == sec.data_started \/ type = "DATA_START"
  <2>1. SecurityAfter(sec, type) =
          [sec EXCEPT !.starttls_advertised = a, !.starttls_requested = b,
                      !.starttls_accepted = c, !.starttls_rejected = d, !.tls_started = e,
                      !.authentication_attempted = f, !.authentication_before_tls = g,
                      !.data_started = h]
    BY DEF SecurityAfter, UpgradeRequests, TlsTypes
  <2>2. /\ a \in BOOLEAN /\ b \in BOOLEAN /\ c \in BOOLEAN /\ d \in BOOLEAN
        /\ e \in BOOLEAN /\ f \in BOOLEAN /\ g \in BOOLEAN /\ h \in BOOLEAN
    OBVIOUS
  <2> HIDE DEF a, b, c, d, e, f, g, h
  <2>3. [sec EXCEPT !.starttls_advertised = a, !.starttls_requested = b,
                    !.starttls_accepted = c, !.starttls_rejected = d, !.tls_started = e,
                    !.authentication_attempted = f, !.authentication_before_tls = g,
                    !.data_started = h] \in SecurityRecord
    BY <2>2 DEF SecurityRecord
  <2>4. QED
    BY <2>1, <2>3
<1>2. SecurityAfter(sec, type).tls_started <=> sec.tls_started \/ type \in TlsTypes
  BY DEF SecurityAfter, SecurityRecord, TlsTypes
<1>3. SecurityAfter(sec, type).starttls_requested <=>
        sec.starttls_requested \/ type \in UpgradeRequests
  BY DEF SecurityAfter, SecurityRecord, UpgradeRequests
<1>4. SecurityAfter(sec, type).starttls_accepted <=> sec.starttls_accepted \/ type \in AcceptEvents
  BY DEF SecurityAfter, SecurityRecord
<1>5. SecurityAfter(sec, type).starttls_rejected <=> sec.starttls_rejected \/ type \in RejectEvents
  BY DEF SecurityAfter, SecurityRecord
<1>6. SecurityAfter(sec, type).authentication_before_tls <=>
        sec.authentication_before_tls \/ (type = "AUTH_ATTEMPT" /\ ~sec.tls_started)
  BY DEF SecurityAfter, SecurityRecord
<1>7. QED
  BY <1>1, <1>2, <1>3, <1>4, <1>5, <1>6

LEMMA FactsGrow ==
  ASSUME NEW evs, NEW n \in Nat, NEW sec, FactsOf(evs, n, sec)
  PROVE  FactsOf(evs, n + 1, SecurityAfter(sec, evs[n + 1].type))
<1> DEFINE type == evs[n + 1].type
<1>1. sec \in SecurityRecord
  BY DEF FactsOf
<1>2. AuthBeforeTls(evs, n + 1) <=>
        AuthBeforeTls(evs, n) \/ (type = "AUTH_ATTEMPT" /\ ~Met(evs, n, TlsTypes))
  <2>1. \A i : i \in 1 .. n + 1 <=> i \in 1 .. n \/ i = n + 1
    OBVIOUS
  <2>2. (n + 1) - 1 = n
    OBVIOUS
  <2>3. QED
    BY <2>1, <2>2 DEF AuthBeforeTls
<1>3. \A types : Met(evs, n + 1, types) <=> Met(evs, n, types) \/ type \in types
  BY MetGrows
<1> HIDE DEF type
<1>4. PICK after : after = SecurityAfter(sec, type)
  OBVIOUS
<1>5. /\ after \in SecurityRecord
      /\ after.tls_started <=> sec.tls_started \/ type \in TlsTypes
      /\ after.starttls_requested <=> sec.starttls_requested \/ type \in UpgradeRequests
      /\ after.starttls_accepted <=> sec.starttls_accepted \/ type \in AcceptEvents
      /\ after.starttls_rejected <=> sec.starttls_rejected \/ type \in RejectEvents
      /\ after.authentication_before_tls <=>
           sec.authentication_before_tls \/ (type = "AUTH_ATTEMPT" /\ ~sec.tls_started)
  BY <1>1, <1>4, SecurityGrows
<1>6. FactsOf(evs, n + 1, after)
  BY <1>2, <1>3, <1>5, Zenon DEF FactsOf
<1>7. QED
  BY <1>4, <1>6 DEF type

\* An IMAP session is closed by a BYE, or by QUIT, which IMAP does not have.
LEMMA ImapCloses ==
  ASSUME proto = "IMAP", NEW state, NEW type, state # "CLOSED", NextState(state, type) = "CLOSED"
  PROVE  type \in {"QUIT", "CONNECTION_LOST"}
<1> DEFINE moves == {m \in ImapMoves : type \in m.on /\ state \in m.from}
<1>1. NextState(state, type) = IF moves = {} THEN state ELSE (CHOOSE m \in moves : TRUE).to
  BY DEF NextState, Moves
<1>2. PICK m \in moves : m.to = "CLOSED"
  BY <1>1
<1>3. m \in ImapMoves /\ type \in m.on
  BY <1>2
<1>4. \A x \in ImapMoves : x.to = "CLOSED" => x.on = {"QUIT", "CONNECTION_LOST"}
  BY DEF ImapMoves, Move
<1>5. QED
  BY <1>2, <1>3, <1>4

\* What was closed stays so, unless TLS starts at once or an IMAP client goes.
LEMMA ClosedMoves ==
  ASSUME proto \in MailProtocols, NEW type, type # "IMPLICIT_TLS",
         type = "LOGOUT" => proto # "IMAP"
  PROVE  NextState("CLOSED", type) = "CLOSED"
<1> DEFINE moves == {m \in Moves : type \in m.on /\ "CLOSED" \in m.from}
<1>1. NextState("CLOSED", type) = IF moves = {} THEN "CLOSED" ELSE (CHOOSE m \in moves : TRUE).to
  BY DEF NextState
<1>2. ASSUME NEW m \in moves PROVE m.to = "CLOSED"
  <2>1. m \in Moves /\ type \in m.on /\ "CLOSED" \in m.from
    OBVIOUS
  <2>2. CASE proto = "SMTP"
    <3>1. \A x \in SmtpMoves : "CLOSED" \in x.from => x.to = "CLOSED" \/ x.on = {"IMPLICIT_TLS"}
      BY DEF SmtpMoves, Move
    <3>2. QED
      BY <2>1, <2>2, <3>1 DEF Moves
  <2>3. CASE proto = "IMAP"
    <3>1. \A x \in ImapMoves :
            "CLOSED" \in x.from => x.to = "CLOSED" \/ x.on = {"IMPLICIT_TLS"} \/ x.on = {"LOGOUT"}
      BY DEF ImapMoves, Move
    <3>2. QED
      BY <2>1, <2>3, <3>1 DEF Moves
  <2>4. CASE proto = "POP3"
    <3>1. \A x \in Pop3Moves : "CLOSED" \in x.from => x.to = "CLOSED" \/ x.on = {"IMPLICIT_TLS"}
      BY DEF Pop3Moves, Move
    <3>2. QED
      BY <2>1, <2>4, <3>1 DEF Moves
  <2>5. QED
    BY <2>2, <2>3, <2>4 DEF MailProtocols
<1>3. QED
  BY <1>1, <1>2

\* The server's stream as it is parsed.
Lines == [s \in DOMAIN server |-> server[s].line]

\* A client that starts with TLS: no stream is parsed.
Implicit == hello # "none" /\ client = <<>>

Parsed == \E r \in -1 .. 1 : Merged(proto, Lines, client, hello, r, events)

StagesInOrder ==
  /\ stage \in {"wire", "run", "analyze", "done"}
  /\ stage = "wire" => events = <<>> /\ processed = 0 /\ session = NewSession
  /\ processed \in Nat
  /\ stage = "run" => processed < Len(events)
  /\ stage \in {"analyze", "done"} => processed = Len(events)
  /\ stage = "done" => result = Analysis(session, events)

ImplicitReport ==
  stage # "wire" /\ Implicit =>
    /\ stage # "run"
    /\ events = <<Event("IMPLICIT_TLS", "C2S", 0, 1)>>
    /\ session.mode = "IMPLICIT_TLS"
    /\ ~session.sec.authentication_before_tls

ParsedReport ==
  stage # "wire" /\ ~Implicit =>
    /\ Parsed
    /\ session.mode \in {"PLAINTEXT", "TLS"}
    /\ FactsOf(events, processed, session.sec)
    /\ proto = "IMAP" /\ session.state = "CLOSED" =>
         Met(events, processed, {"QUIT", "CONNECTION_LOST"})

ReportInv == StagesInOrder /\ ImplicitReport /\ ParsedReport

LEMMA LinesAre ==
  ASSUME WireInv
  PROVE  /\ proto \in MailProtocols
         /\ Lines \in Seq(STRING) /\ DOMAIN Lines = DOMAIN server
         /\ \A s \in DOMAIN server : Lines[s] = server[s].line
         /\ \A r \in -1 .. 1 : Streams(proto, Lines, client, hello, r)
<1>1. proto \in MailProtocols
  BY MailAssumption DEF WireInv, WireTypeOK, MailProtocols
<1>2. /\ server \in Seq(ServerRecord) /\ client \in Seq(ClientLine)
      /\ hello \in {"none", "line", "tail"}
  BY DEF WireInv, WireTypeOK
<1>3. ASSUME NEW s \in 1 .. Len(server) PROVE server[s].line \in STRING
  <2>1. server[s] \in ServerRecord
    BY <1>2
  <2>2. QED
    BY <2>1 DEF ServerRecord
<1>4. Lines \in Seq(STRING) /\ DOMAIN Lines = DOMAIN server
  BY <1>2, <1>3 DEF Lines
<1>5. \A s \in DOMAIN server : Lines[s] = server[s].line
  BY DEF Lines
<1>6. QED
  BY <1>1, <1>2, <1>4, <1>5 DEF Streams

LEMMA ReportInitial == Init => ReportInv
BY DEF Init, ReportInv, StagesInOrder, ImplicitReport, ParsedReport

\* While the two sides talk there is no report.
LEMMA TalkKeepsReportInv ==
  ASSUME ReportInv, stage = "wire", UNCHANGED report
  PROVE  ReportInv'
<1>1. /\ stage' = "wire" /\ events' = events /\ processed' = processed /\ session' = session
  BY DEF report
<1>2. StagesInOrder'
  BY <1>1 DEF ReportInv, StagesInOrder
<1>3. ImplicitReport' /\ ParsedReport'
  BY <1>1 DEF ImplicitReport, ParsedReport
<1>4. QED
  BY <1>2, <1>3 DEF ReportInv

LEMMA ImplicitFlowKeepsReportInv == ASSUME ReportInv, ImplicitFlow PROVE ReportInv'
<1>1. /\ stage' = "analyze" /\ processed' = 1 /\ Implicit /\ UNCHANGED wire
      /\ events' = <<Event("IMPLICIT_TLS", "C2S", 0, 1)>>
      /\ session' = [NewSession EXCEPT !.state = "ENCRYPTED", !.mode = "IMPLICIT_TLS",
                                       !.sec.tls_started = TRUE]
  BY DEF ImplicitFlow, Implicit
<1>2. Implicit'
  BY <1>1 DEF Implicit, wire
<1>3. session'.mode = "IMPLICIT_TLS" /\ ~session'.sec.authentication_before_tls
  BY <1>1 DEF NewSession
<1>4. Len(events') = 1
  BY <1>1
<1>5. StagesInOrder'
  BY <1>1, <1>4 DEF StagesInOrder
<1>6. ImplicitReport' /\ ParsedReport'
  BY <1>1, <1>2, <1>3 DEF ImplicitReport, ParsedReport
<1>7. QED
  BY <1>5, <1>6 DEF ReportInv

LEMMA ParseFlowKeepsReportInv == ASSUME WireInv, ReportInv, ParseFlow PROVE ReportInv'
<1>1. /\ stage = "wire" /\ ~Implicit /\ UNCHANGED <<wire, processed, session, result>>
      /\ stage' = IF events' = <<>> THEN "analyze" ELSE "run"
  BY DEF ParseFlow, Implicit
<1>2. PICK r \in -1 .. 1 : events' = ParseStreams(proto, client, Lines, hello, r)
  BY DEF ParseFlow, Lines
<1>3. Merged(proto, Lines, client, hello, r, events')
  BY <1>2, LinesAre, ParsedIsMerged
<1>4. /\ proto' = proto /\ client' = client /\ server' = server /\ hello' = hello
      /\ processed' = 0 /\ session' = NewSession
  BY <1>1 DEF wire, ReportInv, StagesInOrder
<1>5. Lines' = Lines /\ Implicit' = Implicit
  BY <1>4 DEF Lines, Implicit
<1>6. Parsed'
  BY <1>3, <1>4, <1>5 DEF Parsed
<1>7. events' \in Seq(AnEvent)
  BY <1>3 DEF Merged
<1>8. StagesInOrder'
  BY <1>1, <1>4, <1>7 DEF StagesInOrder
<1>9. FactsOf(events', 0, NewSession.sec)
  BY DEF FactsOf, Met, AuthBeforeTls, SecurityRecord, NewSession
<1>10. NewSession.mode = "PLAINTEXT" /\ NewSession.state # "CLOSED"
  BY DEF NewSession
<1>11. ImplicitReport' /\ ParsedReport'
  BY <1>1, <1>4, <1>5, <1>6, <1>9, <1>10 DEF ImplicitReport, ParsedReport
<1>12. QED
  BY <1>8, <1>11 DEF ReportInv

LEMMA ProcessEventKeepsReportInv == ASSUME WireInv, ReportInv, ProcessEvent PROVE ReportInv'
<1>1. PICK type : type = events[processed + 1].type
  OBVIOUS
<1>2. /\ stage = "run" /\ UNCHANGED <<wire, events, result>>
      /\ session' = [state |-> NextState(session.state, type),
                     mode |-> ModeAfter(session.mode, type),
                     sec |-> SecurityAfter(session.sec, type)]
      /\ processed' = processed + 1
      /\ stage' = IF processed' = Len(events) THEN "analyze" ELSE "run"
  BY <1>1 DEF ProcessEvent
<1>3. /\ ~Implicit /\ Parsed /\ session.mode \in {"PLAINTEXT", "TLS"}
      /\ FactsOf(events, processed, session.sec)
      /\ proto = "IMAP" /\ session.state = "CLOSED" =>
           Met(events, processed, {"QUIT", "CONNECTION_LOST"})
      /\ processed \in Nat /\ processed < Len(events)
  BY <1>2 DEF ReportInv, StagesInOrder, ImplicitReport, ParsedReport
<1>4. PICK r \in -1 .. 1 : Merged(proto, Lines, client, hello, r, events)
  BY <1>3 DEF Parsed
<1>5. events \in Seq(AnEvent) /\ processed + 1 \in DOMAIN events
  BY <1>3, <1>4 DEF Merged
<1>6. type # "IMPLICIT_TLS"
  <2>1. type \in TlsTypes => type = "TLS_HANDSHAKE_STARTED"
    BY <1>1, <1>4, <1>5, LinesAre, TlsIsHello
  <2>2. QED
    BY <2>1 DEF TlsTypes
<1>7. /\ events' = events /\ proto' = proto /\ client' = client /\ hello' = hello
      /\ server' = server
  BY <1>2 DEF wire
<1>8. Parsed' /\ ~Implicit'
  <2>1. Lines' = Lines
    BY <1>7 DEF Lines
  <2>2. QED
    BY <1>3, <1>7, <2>1 DEF Parsed, Implicit
<1>9. session'.mode \in {"PLAINTEXT", "TLS"}
  BY <1>2, <1>3, <1>6 DEF ModeAfter
<1>10. FactsOf(events', processed', session'.sec)
  <2>1. FactsOf(events, processed + 1, SecurityAfter(session.sec, type))
    BY <1>1, <1>3, FactsGrow
  <2>2. session'.sec = SecurityAfter(session.sec, type)
    BY <1>2
  <2>3. QED
    BY <1>2, <1>7, <2>1, <2>2
<1>11. proto' = "IMAP" /\ session'.state = "CLOSED" =>
         Met(events', processed', {"QUIT", "CONNECTION_LOST"})
  <2> SUFFICES ASSUME proto = "IMAP", NextState(session.state, type) = "CLOSED"
               PROVE  Met(events, processed + 1, {"QUIT", "CONNECTION_LOST"})
    BY <1>2, <1>7
  <2>1. Met(events, processed + 1, {"QUIT", "CONNECTION_LOST"}) <=>
          Met(events, processed, {"QUIT", "CONNECTION_LOST"}) \/ type \in {"QUIT", "CONNECTION_LOST"}
    BY <1>1, <1>3, MetGrows
  <2>2. session.state # "CLOSED" => type \in {"QUIT", "CONNECTION_LOST"}
    BY ImapCloses
  <2>3. QED
    BY <1>3, <2>1, <2>2
<1>12. StagesInOrder'
  BY <1>2, <1>3, <1>5, <1>7 DEF StagesInOrder
<1>13. ImplicitReport' /\ ParsedReport'
  BY <1>8, <1>9, <1>10, <1>11 DEF ImplicitReport, ParsedReport
<1>14. QED
  BY <1>12, <1>13 DEF ReportInv

LEMMA AnalyzeKeepsReportInv == ASSUME ReportInv, Analyze PROVE ReportInv'
<1>1. /\ stage = "analyze" /\ stage' = "done" /\ result' = Analysis(session, events)
      /\ UNCHANGED <<wire, events, processed, session>>
  BY DEF Analyze
<1>2. StagesInOrder'
  BY <1>1 DEF ReportInv, StagesInOrder
<1>3. Implicit' = Implicit /\ Parsed' = Parsed
  BY <1>1 DEF Implicit, Parsed, Lines, wire
<1>4. ImplicitReport' /\ ParsedReport'
  BY <1>1, <1>3 DEF ReportInv, ImplicitReport, ParsedReport, wire
<1>5. QED
  BY <1>2, <1>4 DEF ReportInv

MailInv == WireInv /\ ReportInv

LEMMA MailStep == MailInv /\ [Next]_vars => MailInv'
<1> SUFFICES ASSUME WireInv, ReportInv, [Next]_vars PROVE WireInv' /\ ReportInv'
  BY DEF MailInv
<1>1. ASSUME UNCHANGED wire PROVE WireInv'
  <2>1. /\ proto' = proto /\ client' = client /\ server' = server /\ turn' = turn
        /\ hello' = hello
    BY <1>1 DEF wire
  <2>2. WireTypeOK' /\ ServerLeads' /\ LinesAreSent' /\ GreetedFirst'
    BY <2>1 DEF WireInv, WireTypeOK, ServerLeads, CommandsUpTo, LinesAreSent, GreetedFirst, Offset
  <2>3. HelloAfterConsent' /\ SilentAfterwards' /\ ListsAreClosed'
    BY <2>1 DEF WireInv, HelloAfterConsent, UpgradeGranted, SilentAfterwards, AnswersLast,
                ListsAreClosed
  <2>4. QED
    BY <2>2, <2>3 DEF WireInv
<1>2. CASE ServerSpeaks
  BY <1>2, ServerSpeaksKeepsWireInv, TalkKeepsReportInv DEF ServerSpeaks
<1>3. CASE ClientSends
  BY <1>3, ClientSendsKeepsWireInv, TalkKeepsReportInv DEF ClientSends
<1>4. CASE ClientSendsText
  BY <1>4, ClientSendsTextKeepsWireInv, TalkKeepsReportInv DEF ClientSendsText
<1>5. CASE ClientEndsText
  BY <1>5, ClientEndsTextKeepsWireInv, TalkKeepsReportInv DEF ClientEndsText
<1>6. CASE ClientHello
  BY <1>6, ClientHelloKeepsWireInv, TalkKeepsReportInv DEF ClientHello
<1>7. CASE ImplicitFlow
  BY <1>1, <1>7, ImplicitFlowKeepsReportInv DEF ImplicitFlow
<1>8. CASE ParseFlow
  BY <1>1, <1>8, ParseFlowKeepsReportInv DEF ParseFlow
<1>9. CASE ProcessEvent
  BY <1>1, <1>9, ProcessEventKeepsReportInv DEF ProcessEvent
<1>10. CASE Analyze
  BY <1>1, <1>10, AnalyzeKeepsReportInv DEF Analyze
<1>11. CASE UNCHANGED vars
  <2>1. UNCHANGED wire /\ UNCHANGED report
    BY <1>11 DEF vars
  <2>2. /\ stage' = stage /\ events' = events /\ processed' = processed /\ session' = session
        /\ result' = result
    BY <2>1 DEF report
  <2>3. Implicit' = Implicit /\ Parsed' = Parsed /\ proto' = proto
    BY <2>1, <2>2 DEF Implicit, Parsed, Lines, wire
  <2>4. StagesInOrder'
    BY <2>2 DEF ReportInv, StagesInOrder
  <2>5. ImplicitReport' /\ ParsedReport'
    BY <2>2, <2>3 DEF ReportInv, ImplicitReport, ParsedReport
  <2>6. QED
    BY <1>1, <2>1, <2>4, <2>5 DEF ReportInv
<1>12. QED
  BY <1>2, <1>3, <1>4, <1>5, <1>6, <1>7, <1>8, <1>9, <1>10, <1>11 DEF Next

\* What a conversation can be, and what its report holds, at every moment: the
\* merged list has the events of both streams and no others, in order, and the
\* session's facts are those of the events that were processed.
THEOREM MailInvariant == Spec => []MailInv
<1>1. Init => MailInv
  BY WireInitial, ReportInitial DEF MailInv
<1>2. QED
  BY <1>1, MailStep, PTL DEF Spec

-----------------------------------------------------------------------------
(* The properties.                                                         *)

\* The hello follows the server's consent in a conversation that is parsed.
LEMMA HelloWasGranted ==
  ASSUME WireInv, hello # "none", ~Implicit
  PROVE  UpgradeGranted
BY DEF WireInv, HelloAfterConsent, Implicit

\* An upgrade that was granted was asked for.
LEMMA GrantedWasAsked ==
  ASSUME WireInv, UpgradeGranted
  PROVE  \E c \in DOMAIN client : client[c].text \in Upgrade(proto)
<1>1. PICK s \in DOMAIN server : server[s].to > 0 /\ client[server[s].to].text \in Upgrade(proto)
  BY DEF UpgradeGranted
<1>2. server \in Seq(ServerRecord) /\ client \in Seq(ClientLine)
  BY DEF WireInv, WireTypeOK
<1>3. server[s] \in ServerRecord
  BY <1>2
<1>4. server[s].to \in Nat /\ server[s].to <= Len(client)
  BY <1>3 DEF ServerRecord, WireInv, ServerLeads
<1>5. QED
  BY <1>1, <1>2, <1>4

\* What the server says of an upgrade is not taken for part of a list.
LEMMA NotInAList ==
  ASSUME WireInv, NEW s \in DOMAIN server,
         \/ server[s].line \in Refusing(proto)
         \/ server[s].line \in Granting(proto) /\ server[s].to > 0
  PROVE  proto = "POP3" => ~Listing(proto, Lines, s)
<1> SUFFICES ASSUME proto = "POP3", Listing(proto, Lines, s) PROVE FALSE
  OBVIOUS
<1>1. PICK j \in 1 .. s - 1 :
        Opens(proto, Lines, j) /\ \A k \in j + 1 .. s - 1 : ~Closes(proto, Lines[k])
  BY DEF Listing
<1>2. server \in Seq(ServerRecord) /\ \A k \in DOMAIN server : Lines[k] = server[k].line
  BY LinesAre DEF WireInv, WireTypeOK
<1>3. j \in DOMAIN server /\ s \in j + 1 .. Len(server)
  BY <1>2
<1>4. server[j].line = "+OK CAPA"
  BY <1>1, <1>2, <1>3 DEF Opens
<1>5. ListsClosed(server)
  BY DEF WireInv, ListsAreClosed
<1>6. ClosedBy(server, j, s - 1)
  BY <1>3, <1>4, <1>5 DEF ListsClosed
<1>7. PICK k \in j + 1 .. s - 1 : server[k].line = "."
  BY <1>6 DEF ClosedBy
<1>8. k \in DOMAIN server
  BY <1>2, <1>3
<1>9. Closes(proto, Lines[k])
  BY <1>2, <1>7, <1>8 DEF Closes
<1>10. QED
  BY <1>1, <1>9

\* A command of the client, if it is reported, is no message text.
LEMMA NoTextIsReported ==
  ASSUME WireInv, TextIsNoCommand, NEW c \in DOMAIN client,
         client[c].text \in AuthCommands(proto) \cup Upgrade(proto)
  PROVE  c \in Commands
<1> SUFFICES ASSUME client[c].body PROVE FALSE
  BY DEF Commands
<1>1. proto = "SMTP" /\ client[c].text \in {"."} \cup {l.text : l \in BodyText}
  BY DEF WireInv, LinesAreSent
<1>2. client[c].text # "."
  BY <1>1 DEF AuthCommands, Upgrade
<1>3. QED
  BY <1>1, <1>2 DEF TextIsNoCommand

LEMMA AnswersFollow == MailInv => AnswersFollowCommands
<1> SUFFICES ASSUME MailInv, NEW a \in DOMAIN events, NEW b \in DOMAIN events,
                    events[a].dir = "S2C", events[b].dir = "C2S", events[b].line \in Commands,
                    server[events[a].line].to = events[b].line,
                    \A c \in 1 .. events[b].line : c \in Commands
             PROVE  b < a
  BY DEF AnswersFollowCommands
<1>1. WireInv /\ ReportInv
  BY DEF MailInv
<1>2. stage # "wire"
  BY <1>1 DEF ReportInv, StagesInOrder
<1>3. ~Implicit
  <2> SUFFICES ASSUME Implicit PROVE FALSE
    OBVIOUS
  <2>1. events = <<Event("IMPLICIT_TLS", "C2S", 0, 1)>>
    BY <1>1, <1>2 DEF ReportInv, ImplicitReport
  <2>2. events[a] = Event("IMPLICIT_TLS", "C2S", 0, 1)
    BY <2>1
  <2>3. QED
    BY <2>2 DEF Event
<1>4. PICK r \in -1 .. 1 : Merged(proto, Lines, client, hello, r, events)
  BY <1>1, <1>2, <1>3 DEF ReportInv, ParsedReport, Parsed
<1>5. /\ Streams(proto, Lines, client, hello, r) /\ DOMAIN Lines = DOMAIN server
      /\ client \in Seq(ClientLine) /\ server \in Seq(ServerRecord)
  BY <1>1, LinesAre DEF WireInv, WireTypeOK
<1>6. events[a].line \in DOMAIN server /\ events[a].time = 100 * events[a].line
  BY <1>4, <1>5, EventsAre
<1>7. events[b].line \in DOMAIN client /\ events[b].time = 100 * events[b].line + 50
  <2>1. events[b].line \in DOMAIN client
    BY DEF Commands
  <2>2. events[b].line # Len(client) + 1
    BY <1>5, <2>1
  <2>3. QED
    BY <1>4, <1>5, <2>1, <2>2, EventsAre
<1>8. events[a].line > events[b].line
  <2>1. CommandsUpTo(server[events[a].line].to)
    BY DEF CommandsUpTo, Commands
  <2>2. QED
    BY <1>1, <1>6, <2>1 DEF WireInv, ServerLeads
<1>9. events[b].time < events[a].time
  BY <1>5, <1>6, <1>7, <1>8
<1>10. QED
  BY <1>4, <1>9 DEF Merged, Earlier

\* The made-up clock never shows an answer before the command it answers (the
\* half millisecond of parse_*_streams), while no message text was sent.
THEOREM AnswersFollowTheirCommands == Spec => []AnswersFollowCommands
BY MailInvariant, AnswersFollow, PTL

LEMMA ClearAuth == TextIsNoCommand /\ MailInv => ClearAuthReported
<1> SUFFICES ASSUME TextIsNoCommand, MailInv, stage \in {"analyze", "done"}
             PROVE  /\ session.sec.authentication_before_tls => AuthInClear
                    /\ HelloInPlace /\ AuthInClear => session.sec.authentication_before_tls
  BY DEF ClearAuthReported
<1>1. WireInv /\ ReportInv /\ processed = Len(events)
  BY DEF MailInv, ReportInv, StagesInOrder
<1>2. CASE Implicit
  <2>1. ~session.sec.authentication_before_tls
    BY <1>1, <1>2 DEF ReportInv, ImplicitReport
  <2>2. ~AuthInClear
    BY <1>2 DEF Implicit, AuthInClear, Commands
  <2>3. QED
    BY <2>1, <2>2
<1>3. CASE ~Implicit
  <2>1. PICK r \in -1 .. 1 : Merged(proto, Lines, client, hello, r, events)
    BY <1>1, <1>3 DEF ReportInv, ParsedReport, Parsed
  <2>2. /\ Streams(proto, Lines, client, hello, r) /\ proto \in MailProtocols
        /\ client \in Seq(ClientLine) /\ events \in Seq(AnEvent)
        /\ hello \in {"none", "line", "tail"}
    BY <1>1, <2>1, LinesAre DEF WireInv, WireTypeOK, Merged
  <2>3. session.sec.authentication_before_tls <=> AuthBeforeTls(events, Len(events))
    BY <1>1, <1>3 DEF ReportInv, ParsedReport, FactsOf
  <2>4. ASSUME AuthBeforeTls(events, Len(events)) PROVE AuthInClear
    <3>1. PICK k \in DOMAIN events : events[k].type = "AUTH_ATTEMPT"
      BY <2>2, <2>4 DEF AuthBeforeTls
    <3>2. events[k].type \in ClientTypes
      BY <3>1 DEF ClientTypes
    <3>3. events[k].dir \in {"S2C", "C2S"} /\ events[k].type \notin ServerTypes
          /\ events[k].type # "TLS_HANDSHAKE_STARTED"
      BY <2>1, <2>2, <3>2, EventsAre, TypesOfOneSide DEF AnEvent, TlsTypes
    <3>4. PICK c \in DOMAIN client : events[k].type = Command(proto, client[c].text)
      BY <2>1, <2>2, <3>3, EventsAre
    <3>5. client[c].text \in AuthCommands(proto)
      BY <2>2, <3>1, <3>4, CommandTypes
    <3>6. c \in Commands
      BY <1>1, <3>5, NoTextIsReported
    <3>7. QED
      BY <3>5, <3>6 DEF AuthInClear
  <2>5. ASSUME HelloInPlace, AuthInClear PROVE AuthBeforeTls(events, Len(events))
    <3>1. PICK c \in DOMAIN client : client[c].text \in AuthCommands(proto)
      BY <2>5 DEF AuthInClear, Commands
    <3>2. Command(proto, client[c].text) = "AUTH_ATTEMPT"
      BY <2>2, <3>1, CommandTypes
    <3>3. PICK k \in DOMAIN events :
            events[k].type = "AUTH_ATTEMPT" /\ events[k].time = 100 * c + 50
      BY <2>1, <3>2, CommandHeard DEF NoCommand
    <3>4. ASSUME NEW j \in 1 .. k - 1, events[j].type \in TlsTypes PROVE FALSE
      <4>1. j \in DOMAIN events /\ j < k
        BY <2>2
      <4>2. hello # "none" /\ events[j].time = HelloTime(client, hello, r)
        BY <2>1, <2>2, <3>4, <4>1, TlsIsHello
      <4>3. events[j].time > 100 * c + 50
        BY <2>2, <2>5, <4>2, HelloIsLate DEF HelloInPlace
      <4>4. events[k] \in AnEvent /\ events[j] \in AnEvent
        BY <2>2, <4>1
      <4>5. events[k].time < events[j].time
        BY <3>3, <4>3, <4>4 DEF AnEvent
      <4>6. k < j
        BY <2>1, <4>1, <4>5 DEF Merged, Earlier
      <4>7. QED
        BY <2>2, <4>1, <4>6
    <3>5. k \in 1 .. Len(events) /\ ~Met(events, k - 1, TlsTypes)
      BY <2>2, <3>4 DEF Met
    <3>6. QED
      BY <3>3, <3>5 DEF AuthBeforeTls
  <2>6. QED
    BY <2>3, <2>4, <2>5
<1>4. QED
  BY <1>2, <1>3

\* authentication_before_tls is set exactly when credentials were captured in
\* the clear, unless the clock misplaces the hello; a line of text that reads as
\* a command would be taken for one.
THEOREM ClearAuthIsReported == ASSUME TextIsNoCommand PROVE Spec => []ClearAuthReported
<1>1. MailInv => ClearAuthReported
  BY ClearAuth
<1>2. QED
  BY <1>1, MailInvariant, PTL

\* What the analysis finds in a parsed conversation.
LEMMA ParsedVerdict ==
  ASSUME MailInv, stage = "done", ~Implicit,
         NEW r \in -1 .. 1, Merged(proto, Lines, client, hello, r, events)
  PROVE  /\ result.status = DetermineStatus(session, events)
         /\ Requested(session, events) <=> \E c \in DOMAIN client : client[c].text \in Upgrade(proto)
         /\ Accepted(session, events) <=>
              /\ \E k \in DOMAIN events : events[k].type \in AcceptEvents
              /\ ~\E k \in DOMAIN events : events[k].type \in RejectEvents
         /\ HandshakeObserved(session, events) <=> hello # "none"
<1>1. /\ WireInv /\ ReportInv /\ processed = Len(events) /\ result = Analysis(session, events)
      /\ session.mode \in {"PLAINTEXT", "TLS"} /\ FactsOf(events, Len(events), session.sec)
  BY DEF MailInv, ReportInv, StagesInOrder, ParsedReport
<1>2. /\ Streams(proto, Lines, client, hello, r) /\ proto \in MailProtocols
      /\ client \in Seq(ClientLine) /\ server \in Seq(ServerRecord) /\ events \in Seq(AnEvent)
      /\ hello \in {"none", "line", "tail"}
      /\ DOMAIN Lines = DOMAIN server /\ \A s \in DOMAIN server : Lines[s] = server[s].line
  BY <1>1, LinesAre DEF WireInv, WireTypeOK, Merged
<1>3. DOMAIN events = 1 .. Len(events)
  BY <1>2
<1>4. /\ session.sec.tls_started <=> \E k \in DOMAIN events : events[k].type \in TlsTypes
      /\ session.sec.starttls_requested <=> \E k \in DOMAIN events : events[k].type \in UpgradeRequests
      /\ session.sec.starttls_accepted <=> \E k \in DOMAIN events : events[k].type \in AcceptEvents
      /\ session.sec.starttls_rejected <=> \E k \in DOMAIN events : events[k].type \in RejectEvents
  BY <1>1, <1>3 DEF FactsOf, Met
<1>5. \A types : Has(events, types) <=> \E k \in DOMAIN events : events[k].type \in types
  BY <1>2, HasIs
<1>6. Requested(session, events) <=> \E c \in DOMAIN client : client[c].text \in Upgrade(proto)
  <2>1. Requested(session, events) <=> \E k \in DOMAIN events : events[k].type \in UpgradeRequests
    BY <1>4, <1>5 DEF Requested, UpgradeRequests
  <2>2. QED
    BY <1>2, <2>1, UpgradesHeard
<1>7. Accepted(session, events) <=>
        /\ \E k \in DOMAIN events : events[k].type \in AcceptEvents
        /\ ~\E k \in DOMAIN events : events[k].type \in RejectEvents
  BY <1>4, <1>5 DEF Accepted
<1>8. HandshakeObserved(session, events) <=> hello # "none"
  <2>1. ASSUME HandshakeObserved(session, events) PROVE hello # "none"
    <3>1. PICK k \in DOMAIN events : events[k].type \in TlsTypes \cup HandshakeEvents
      BY <1>4, <1>5, <2>1 DEF HandshakeObserved
    <3>2. QED
      BY <1>2, <3>1, TlsIsHello
  <2>2. ASSUME hello # "none" PROVE HandshakeObserved(session, events)
    <3>1. \E k \in DOMAIN events : events[k].type \in HandshakeEvents
      BY <2>2, HelloHeard DEF HandshakeEvents
    <3>2. QED
      BY <1>5, <3>1 DEF HandshakeObserved
  <2>3. QED
    BY <2>1, <2>2
<1>9. ~ImplicitTls(session, events)
  <2>1. ASSUME NEW i \in DOMAIN events, events[i].type = "TLS_HANDSHAKE_STARTED"
        PROVE  \E g \in DOMAIN events :
                 events[g].type \in GreetingEvents /\ events[g].time <= events[i].time
    <3>1. hello # "none" /\ events[i].time = HelloTime(client, hello, r)
      BY <1>2, <2>1, TlsIsHello DEF HandshakeEvents
    <3>2. client # <<>> /\ Offset(client) >= 6 /\ Offset(client) \in Nat
      BY <1>1, <1>2, <3>1, OffsetIsNat DEF Implicit, WireInv, LinesAreSent
    <3>3. events[i].time >= 100
      <4>1. Len(client) \in Nat
        BY <1>2
      <4>2. QED
        BY <1>2, <3>1, <3>2, <4>1 DEF HelloTime, ClientTime
    <3>4. server # <<>> /\ Greets(proto, server[1].line)
      BY <1>1, <3>2 DEF WireInv, GreetedFirst
    <3>5. 1 \in DOMAIN Lines /\ Greets(proto, Lines[1])
      BY <1>2, <3>4
    <3>6. PICK t \in TypesAt(proto, Lines, 1) : t \in GreetingEvents
      BY <1>2, <3>5, GreetingHeard
    <3>7. PICK g \in DOMAIN events : events[g].type = t /\ events[g].time = 100 * 1
      BY <3>5, <3>6, LineHeard
    <3>8. QED
      BY <3>3, <3>6, <3>7
  <2>2. session.mode # "IMPLICIT_TLS"
    BY <1>1
  <2>3. QED
    BY <1>2, <2>1, <2>2, NotImplicit
<1>10. result.status = DetermineStatus(session, events)
  BY <1>1, <1>9 DEF Analysis
<1>11. QED
  BY <1>6, <1>7, <1>8, <1>10

\* A refusal is heard, and what is heard as one is one.
LEMMA RefusalsHeard ==
  ASSUME WireInv, NEW r \in -1 .. 1, Merged(proto, Lines, client, hello, r, events)
  PROVE  UpgradeRefused <=> \E k \in DOMAIN events : events[k].type \in RejectEvents
<1>1. /\ Streams(proto, Lines, client, hello, r) /\ proto \in MailProtocols
      /\ DOMAIN Lines = DOMAIN server /\ \A s \in DOMAIN server : Lines[s] = server[s].line
  BY LinesAre
<1>2. ASSUME NEW s \in DOMAIN server, server[s].line \in Refusing(proto)
      PROVE  \E k \in DOMAIN events : events[k].type \in RejectEvents
  <2>1. proto = "POP3" => ~Listing(proto, Lines, s)
    BY <1>2, NotInAList
  <2>2. PICK t \in TypesAt(proto, Lines, s) : t \in RejectEvents
    BY <1>1, <1>2, <2>1, RefusalHeard
  <2>3. QED
    BY <1>1, <2>2, LineHeard
<1>3. ASSUME NEW k \in DOMAIN events, events[k].type \in RejectEvents PROVE UpgradeRefused
  BY <1>1, <1>3, ConsentWasSaid DEF UpgradeRefused
<1>4. QED
  BY <1>2, <1>3 DEF UpgradeRefused

LEMMA VerdictIs == TextIsNoCommand /\ MailInv => VerdictSound
<1> SUFFICES ASSUME TextIsNoCommand, MailInv, stage = "done"
             PROVE  /\ result.status = "STARTTLS_SUCCESS" => UpgradeGranted /\ hello # "none"
                    /\ result.status \in {"STARTTLS_AVAILABLE_NOT_USED", "PLAINTEXT_SESSION"} =>
                         ~UpgradeAsked /\ hello = "none"
                    /\ result.status = "STARTTLS_ACCEPTED_NO_HANDSHAKE" =>
                         UpgradeAsked /\ ~UpgradeRefused /\ hello = "none"
                    /\ result.status = "IMPLICIT_TLS" => client = <<>> /\ hello # "none"
  BY DEF VerdictSound
<1>1. WireInv /\ ReportInv /\ result = Analysis(session, events)
  BY DEF MailInv, ReportInv, StagesInOrder
<1>2. CASE Implicit
  <2>1. session.mode = "IMPLICIT_TLS"
    BY <1>1, <1>2 DEF ReportInv, ImplicitReport
  <2>2. result.status = "IMPLICIT_TLS"
    BY <1>1, <2>1 DEF Analysis, ImplicitTls
  <2>3. QED
    BY <1>2, <2>2 DEF Implicit
<1>3. CASE ~Implicit
  <2>1. PICK r \in -1 .. 1 : Merged(proto, Lines, client, hello, r, events)
    BY <1>1, <1>3 DEF ReportInv, ParsedReport, Parsed
  <2> DEFINE asked == \E c \in DOMAIN client : client[c].text \in Upgrade(proto)
  <2>2. /\ result.status = DetermineStatus(session, events)
        /\ Requested(session, events) <=> asked
        /\ Accepted(session, events) => ~\E k \in DOMAIN events : events[k].type \in RejectEvents
        /\ HandshakeObserved(session, events) <=> hello # "none"
    BY <1>3, <2>1, ParsedVerdict
  <2>3. asked <=> UpgradeAsked
    BY <1>1, NoTextIsReported DEF UpgradeAsked, Commands
  <2>4. hello # "none" => UpgradeGranted /\ asked
    BY <1>1, <1>3, HelloWasGranted, GrantedWasAsked
  <2>5. UpgradeRefused => ~Accepted(session, events)
    BY <1>1, <2>1, <2>2, RefusalsHeard
  <2> HIDE DEF asked
  <2>6. /\ result.status = "STARTTLS_SUCCESS" =>
             Accepted(session, events) /\ HandshakeObserved(session, events)
        /\ result.status = "STARTTLS_ACCEPTED_NO_HANDSHAKE" =>
             /\ Requested(session, events) /\ Accepted(session, events)
             /\ ~HandshakeObserved(session, events)
        /\ result.status \in {"STARTTLS_AVAILABLE_NOT_USED", "PLAINTEXT_SESSION"} =>
             ~Requested(session, events)
        /\ result.status # "IMPLICIT_TLS"
    BY <2>2, StatusIs
  <2>7. QED
    BY <2>2, <2>3, <2>4, <2>5, <2>6
<1>4. QED
  BY <1>2, <1>3

\* What a verdict claims of the conversation did happen, whatever the two
\* sides said and wherever the capture ended.
THEOREM VerdictIsSound == ASSUME TextIsNoCommand PROVE Spec => []VerdictSound
<1>1. MailInv => VerdictSound
  BY VerdictIs
<1>2. QED
  BY <1>1, MailInvariant, PTL

\* Nothing the client said in the clear comes after the server's consent, or
\* after the hello in its place.
LEMMA NothingInClearAfterTls ==
  ASSUME WireInv, NEW r \in -1 .. 1, Merged(proto, Lines, client, hello, r, events),
         HelloInPlace, \A s \in DOMAIN server \ {1} : server[s].to # 0,
         DOMAIN client = Commands
  PROVE  ~PlaintextAfterTls(events)
<1>1. /\ Streams(proto, Lines, client, hello, r) /\ proto \in MailProtocols
      /\ client \in Seq(ClientLine) /\ server \in Seq(ServerRecord) /\ events \in Seq(AnEvent)
      /\ hello \in {"none", "line", "tail"}
      /\ DOMAIN Lines = DOMAIN server /\ \A s \in DOMAIN server : Lines[s] = server[s].line
  BY LinesAre DEF WireInv, WireTypeOK, Merged
<1>2. PICK tls : tls = FirstEvent(events, AcceptEvents \cup {"TLS_HANDSHAKE_STARTED"})
  OBVIOUS
<1> SUFFICES ASSUME tls # 0, NEW i \in DOMAIN events, events[i].time > events[tls].time,
                    events[i].type \in CommandEvents, events[i].dir = "C2S"
             PROVE  FALSE
  BY <1>2 DEF PlaintextAfterTls
<1>3. tls \in DOMAIN events /\ events[tls].type \in AcceptEvents \cup {"TLS_HANDSHAKE_STARTED"}
  BY <1>1, <1>2, FirstIs
<1>4. events[i].type # "TLS_HANDSHAKE_STARTED"
  BY DEF CommandEvents
<1>5. events[i].line \in DOMAIN client /\ events[i].time = 100 * events[i].line + 50
  BY <1>1, <1>4, EventsAre
<1>6. events[i] \in AnEvent /\ events[tls] \in AnEvent
  BY <1>1, <1>3
<1>7. CASE events[tls].type = "TLS_HANDSHAKE_STARTED"
  <2>1. hello # "none" /\ events[tls].time = HelloTime(client, hello, r)
    BY <1>1, <1>3, <1>7, TlsIsHello DEF HandshakeEvents
  <2>2. events[tls].time > 100 * events[i].line + 50
    BY <1>1, <1>5, <2>1, HelloIsLate DEF HelloInPlace
  <2>3. QED
    BY <1>5, <1>6, <2>2 DEF AnEvent
<1>8. CASE events[tls].type \in AcceptEvents
  <2>1. PICK s : s = events[tls].line
    OBVIOUS
  <2>2. /\ s \in DOMAIN server /\ events[tls].time = 100 * s
        /\ server[s].line \in Granting(proto)
        /\ proto # "IMAP" => Greeted(proto, Lines, s)
    BY <1>1, <1>3, <1>8, <2>1, ConsentWasSaid
  <2>3. s # 1
    <3>1. ~Greeted(proto, Lines, 1)
      BY DEF Greeted
    <3>2. Greets(proto, server[1].line)
      BY <1>1, <2>2 DEF WireInv, GreetedFirst
    <3>3. proto = "IMAP" /\ s = 1 => FALSE
      BY <1>1, <2>2, <3>2 DEF Greets, Granting
    <3>4. QED
      BY <2>2, <3>1, <3>3
  <2>4. server[s] \in ServerRecord
    BY <1>1, <2>2
  <2>5. server[s].to > 0
    BY <2>2, <2>3, <2>4 DEF ServerRecord
  <2>6. server[s].to = Len(client)
    BY <2>2, <2>5 DEF WireInv, SilentAfterwards, AnswersLast
  <2>7. CommandsUpTo(Len(client))
    BY <1>1 DEF CommandsUpTo, Commands
  <2>8. s > Len(client)
    BY <2>2, <2>6, <2>7 DEF WireInv, ServerLeads
  <2>9. events[i].line \in 1 .. Len(client) /\ s \in Nat /\ Len(client) \in Nat
    BY <1>1, <1>5, <2>2
  <2>10. QED
    BY <1>5, <2>2, <2>8, <2>9
<1>9. QED
  BY <1>3, <1>7, <1>8

LEMMA UpgradeIsRecognised == MailInv => UpgradeRecognised
<1> SUFFICES ASSUME MailInv, stage = "done", UpgradeGranted, hello # "none", HelloInPlace,
                    ~UpgradeRefused, \A s \in DOMAIN server \ {1} : server[s].to # 0,
                    DOMAIN client = Commands
             PROVE  result.status = "STARTTLS_SUCCESS"
  BY DEF UpgradeRecognised
<1>1. WireInv /\ ReportInv
  BY DEF MailInv
<1>2. \E c \in DOMAIN client : client[c].text \in Upgrade(proto)
  BY <1>1, GrantedWasAsked
<1>3. ~Implicit
  BY <1>2 DEF Implicit
<1>4. PICK r \in -1 .. 1 : Merged(proto, Lines, client, hello, r, events)
  BY <1>1, <1>3 DEF ReportInv, ParsedReport, Parsed
<1>5. /\ Streams(proto, Lines, client, hello, r) /\ proto \in MailProtocols
      /\ DOMAIN Lines = DOMAIN server /\ \A s \in DOMAIN server : Lines[s] = server[s].line
      /\ server \in Seq(ServerRecord)
  BY <1>1, LinesAre DEF WireInv, WireTypeOK
<1>6. \E k \in DOMAIN events : events[k].type \in AcceptEvents
  <2>1. PICK s \in DOMAIN server : server[s].to > 0 /\ server[s].line \in Granting(proto)
    BY DEF UpgradeGranted
  <2>2. s \in Nat /\ s > 1
    <3>1. server # <<>> => server[1].to = 0
      BY <1>1 DEF WireInv, GreetedFirst
    <3>2. s # 1
      BY <1>5, <2>1, <3>1
    <3>3. QED
      BY <1>5, <3>2
  <2>3. Greets(proto, Lines[1])
    <3>1. server # <<>> /\ 1 \in DOMAIN server
      BY <1>5, <2>2
    <3>2. QED
      BY <1>1, <1>5, <3>1 DEF WireInv, GreetedFirst
  <2>4. Greeted(proto, Lines, s)
    BY <2>2, <2>3 DEF Greeted
  <2>5. proto = "POP3" => ~Listing(proto, Lines, s)
    BY <1>1, <2>1, NotInAList
  <2>6. PICK t \in TypesAt(proto, Lines, s) : t \in AcceptEvents
    BY <1>5, <2>1, <2>4, <2>5, ConsentHeard
  <2>7. QED
    BY <1>4, <1>5, <2>6, LineHeard
<1>7. ~\E k \in DOMAIN events : events[k].type \in RejectEvents
  BY <1>1, <1>4, RefusalsHeard
<1>8. ~PlaintextAfterTls(events)
  BY <1>1, <1>4, NothingInClearAfterTls
<1>9. /\ result.status = DetermineStatus(session, events)
      /\ Requested(session, events) /\ Accepted(session, events)
      /\ HandshakeObserved(session, events)
  BY <1>2, <1>3, <1>4, <1>6, <1>7, ParsedVerdict
<1>10. QED
  BY <1>8, <1>9, StatusIs

\* An upgrade that took place is recognised: granted, followed by the hello in
\* its place, after no refusal, on a server that greets with one line.
THEOREM UpgradesAreRecognised == Spec => []UpgradeRecognised
BY MailInvariant, UpgradeIsRecognised, PTL

\* After a BYE that was processed there is no command left to process.
LEMMA ClosedStep == MailInv /\ [Next]_vars => [session.state = "CLOSED" => session'.state = "CLOSED"]_vars
<1> SUFFICES ASSUME MailInv, Next, session.state = "CLOSED" PROVE session'.state = "CLOSED"
  BY DEF vars
<1>1. WireInv /\ ReportInv
  BY DEF MailInv
<1>2. CASE ServerSpeaks \/ ClientSends \/ ClientSendsText \/ ClientEndsText \/ ClientHello
  BY <1>2 DEF ServerSpeaks, ClientSends, ClientSendsText, ClientEndsText, ClientHello, report
<1>3. CASE ImplicitFlow
  <2>1. session = NewSession
    BY <1>1, <1>3 DEF ImplicitFlow, ReportInv, StagesInOrder
  <2>2. QED
    BY <2>1 DEF NewSession
<1>4. CASE ParseFlow \/ Analyze
  BY <1>4 DEF ParseFlow, Analyze
<1>5. CASE ProcessEvent
  <2>1. PICK type : type = events[processed + 1].type
    OBVIOUS
  <2>2. stage = "run" /\ session'.state = NextState("CLOSED", type)
    BY <1>5, <2>1 DEF ProcessEvent
  <2>3. /\ ~Implicit /\ processed \in Nat /\ processed < Len(events)
        /\ proto = "IMAP" => Met(events, processed, {"QUIT", "CONNECTION_LOST"})
    BY <1>1, <2>2 DEF ReportInv, StagesInOrder, ImplicitReport, ParsedReport
  <2>4. PICK r \in -1 .. 1 : Merged(proto, Lines, client, hello, r, events)
    BY <1>1, <2>2, <2>3 DEF ReportInv, ParsedReport, Parsed
  <2>5. /\ Streams(proto, Lines, client, hello, r) /\ proto \in MailProtocols
        /\ client \in Seq(ClientLine) /\ server \in Seq(ServerRecord) /\ events \in Seq(AnEvent)
        /\ DOMAIN Lines = DOMAIN server /\ \A s \in DOMAIN server : Lines[s] = server[s].line
    BY <1>1, <2>4, LinesAre DEF WireInv, WireTypeOK, Merged
  <2>6. processed + 1 \in DOMAIN events
    BY <2>3, <2>5
  <2>7. type # "IMPLICIT_TLS"
    <3>1. type \in TlsTypes => type = "TLS_HANDSHAKE_STARTED"
      BY <2>1, <2>4, <2>5, <2>6, TlsIsHello
    <3>2. QED
      BY <3>1 DEF TlsTypes
  <2>8. ASSUME type = "LOGOUT", proto = "IMAP" PROVE FALSE
    <3>1. PICK k \in 1 .. processed : events[k].type \in {"QUIT", "CONNECTION_LOST"}
      BY <2>3, <2>8 DEF Met
    <3>2. k \in DOMAIN events /\ k < processed + 1
      BY <2>3, <2>5
    <3>3. PICK l : l = processed + 1
      OBVIOUS
    <3>4. l \in DOMAIN events /\ events[l].type = "LOGOUT" /\ k < l
      BY <2>1, <2>6, <2>8, <3>2, <3>3
    <3>5. /\ events[l] \in AnEvent /\ events[k] \in AnEvent
          /\ events[l].dir \in {"S2C", "C2S"} /\ events[k].dir \in {"S2C", "C2S"}
      <4>1. events[l] \in AnEvent /\ events[k] \in AnEvent
        BY <2>5, <3>2, <3>4
      <4>2. QED
        BY <4>1 DEF AnEvent
    <3>6. events[l].line \in DOMAIN client /\ events[l].time = 100 * events[l].line + 50
      <4>1. events[l].type \in ClientTypes
        BY <3>4 DEF ClientTypes
      <4>2. events[l].type \notin ServerTypes /\ events[l].type # "TLS_HANDSHAKE_STARTED"
        BY <4>1, TypesOfOneSide DEF TlsTypes
      <4>3. QED
        BY <2>4, <2>5, <3>4, <3>5, <4>2, EventsAre
    <3>7. events[k].dir = "S2C"
      <4>1. ASSUME events[k].dir = "C2S" PROVE FALSE
        <5>1. events[k].type # "TLS_HANDSHAKE_STARTED"
          BY <3>1
        <5>2. PICK c \in DOMAIN client : /\ events[k].type = Command(proto, client[c].text)
                                         /\ events[k].type \in ClientTypes
          BY <2>4, <2>5, <3>2, <4>1, <5>1, EventsAre
        <5>3. events[k].type # "QUIT"
          BY <2>5, <2>8, <5>2, CommandTypes
        <5>4. events[k].type # "CONNECTION_LOST"
          BY <5>2, TypesOfOneSide DEF ServerTypes
        <5>5. QED
          BY <3>1, <5>3, <5>4
      <4>2. QED
        BY <3>5, <4>1
    <3>8. PICK s : s = events[k].line
      OBVIOUS
    <3>9. /\ s \in DOMAIN server /\ events[k].time = 100 * s
          /\ events[k].type \in TypesAt(proto, Lines, s) /\ events[k].type \in ServerTypes
      BY <2>4, <2>5, <3>2, <3>7, <3>8, EventsAre
    <3>10. events[k].type # "QUIT"
      BY <3>9, TypesOfOneSide DEF ClientTypes
    <3>11. server[s].line = "* BYE"
      <4>1. "CONNECTION_LOST" \in TypesAt(proto, Lines, s)
        BY <3>1, <3>9, <3>10
      <4>2. Lines[s] = "* BYE"
        BY <2>5, <4>1, ServerTypesAre
      <4>3. QED
        BY <2>5, <3>9, <4>2
    <3>12. server[s].to = Len(client)
      BY <1>1, <2>8, <3>9, <3>11 DEF WireInv, SilentAfterwards, AnswersLast
    <3>13. CommandsUpTo(server[s].to)
      <4>1. \A c \in DOMAIN client : ~client[c].body
        BY <1>1, <2>8 DEF WireInv, LinesAreSent
      <4>2. QED
        BY <2>5, <3>12, <4>1 DEF CommandsUpTo
    <3>14. s > Len(client)
      BY <1>1, <3>9, <3>12, <3>13 DEF WireInv, ServerLeads
    <3>15. events[l].time < events[k].time
      <4>1. s \in 1 .. Len(server) /\ Len(server) \in Nat
        BY <2>5, <3>9
      <4>2. events[l].line \in 1 .. Len(client) /\ Len(client) \in Nat
        BY <2>5, <3>6
      <4>3. QED
        BY <3>6, <3>9, <3>14, <4>1, <4>2
    <3>16. l < k
      BY <2>4, <3>2, <3>4, <3>15 DEF Merged, Earlier
    <3>17. QED
      BY <2>5, <3>2, <3>4, <3>16
  <2>9. QED
    BY <2>2, <2>5, <2>7, <2>8, ClosedMoves
<1>6. QED
  BY <1>2, <1>3, <1>4, <1>5 DEF Next

\* A session that was closed stays closed, though the errors that answer a QUIT
\* arrive after it on the made-up clock.
THEOREM SessionsStayClosed == Spec => ClosedStaysClosed
<1>1. MailInv /\ [Next]_vars => [session.state = "CLOSED" => session'.state = "CLOSED"]_vars
  BY ClosedStep
<1>2. QED
  BY <1>1, MailInvariant, PTL DEF Spec, ClosedStaysClosed
=============================================================================
