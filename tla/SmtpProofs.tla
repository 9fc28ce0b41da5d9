---------------------------- MODULE SmtpProofs ----------------------------
(***************************************************************************)
(* TLAPS proofs about Smtp, for any clients and scripts, any limits and    *)
(* any number of descriptors and workers.                                  *)
(***************************************************************************)
EXTENDS Smtp, SequenceTheorems, FiniteSetTheorems, WellFoundedInduction, TLAPS

Lines == STRING \X STRING
States == {"GREETING", "EHLO", "READY", "MAIL_FROM", "RCPT_TO", "DATA_INIT", "DATA_BODY"}
Texts == STRING \cup {""}   \* the provers do not know that a literal is in STRING
Owns == [state : States, from : Texts, rcpt : Seq(STRING), data : Seq(STRING),
         errors : Nat, auth : BOOLEAN]
Messages == [from : Texts, rcpt : Seq(STRING), data : Seq(STRING)]
Thens == {"banner", "close", "resume", "body", "reset", "go on"}
Replies == {"220", "221", "235", "250", "354", "421", "552", "5xx", "verdict", ""}
Outs == [k : Conns, line : Nat, reply : Replies, then : Thens]
Items == [k : Conns, fd : Fds, line : Nat, msg : Messages]
Sess == [own : Owns, next : Nat, waiting : BOOLEAN, closed : BOOLEAN]
Entries == [conn : Conns \cup {0}, in : BOOLEAN, edge : BOOLEAN, reader : Conns \cup {0},
            out : Seq(Outs)]
Ips == {IpOf[k] : k \in Conns}

TypeOK ==
    /\ client \in [Conns -> {"new", "open", "fin", "refused"}]
    /\ sent \in [Conns -> Nat] /\ got \in [Conns -> Nat]
    /\ fdOf \in [Conns -> Fds \cup {0}] /\ fds \in [Fds -> Entries]
    /\ reading \in Fds \cup {0} /\ sessions \in [Fds -> Conns \cup {0}]
    /\ sess \in [Conns -> Sess]
    /\ count \in Int /\ ips \in [Ips -> Int]
    /\ queue \in Seq(Items) /\ busy \in SUBSET Items /\ tasks \in Seq(Items)
    /\ mail \in [Conns -> Seq(Messages)] /\ replies \in [Conns -> Seq(Nat \X Replies)]

-----------------------------------------------------------------------------
(***************************************************************************)
(* The invariant.                                                          *)
(***************************************************************************)
\* An open descriptor has one connection, whose session is in the table.
OwnInv ==
    /\ \A j, k \in Conns : fdOf[j] # 0 /\ fdOf[j] = fdOf[k] => j = k
    /\ \A k \in Conns :
          fdOf[k] # 0 => /\ fds[fdOf[k]].conn = k /\ sessions[fdOf[k]] = k
                         /\ ~sess[k].closed /\ client[k] \in {"open", "fin"}

\* The loop expects nothing of a number that is free, refused connections
\* included, and reads only where there is a reader.
EntryInv(fd) ==
    /\ (\A k \in Conns : fdOf[k] # fd) =>
          fds[fd].reader = 0 /\ fds[fd].out = <<>> /\ ~fds[fd].edge
    /\ reading = fd => fds[fd].reader # 0

\* Messages that the handler has not been given yet, and posted verdicts: a
\* connection has at most one of both.
Elems(s) == {s[i] : i \in DOMAIN s}
Pending == Elems(queue) \cup busy
Posted == Elems(tasks)
NoItem(k) == \A x \in Pending \cup Posted : x.k # k

UniqueInv ==
    /\ \A i, j \in DOMAIN queue : queue[i].k = queue[j].k => i = j
    /\ \A i, j \in DOMAIN tasks : tasks[i].k = tasks[j].k => i = j
    /\ \A x, y \in busy : x.k = y.k => x = y
    /\ \A x \in Elems(queue), y \in busy : x.k # y.k
    /\ \A x \in Pending, y \in Posted : x.k # y.k

\* What line i of k comes to, for a client that waits; does it start a reply?
Outcome(k, i) == DispatchLine(k, Play(k)[i - 1].s, Script[k][i])
Answered(k, i) ==
    i \in 1 .. Len(Script[k]) /\ ~Play(k)[i - 1].over /\ Outcome(k, i).then # "go on"

\* An item is the message its line makes, and its session, unless closed,
\* waits for the verdict under the same number.
ItemInv(x) ==
    /\ Answered(x.k, x.line) /\ Outcome(x.k, x.line).reply = "verdict"
    /\ x.msg = Message(Outcome(x.k, x.line).s)
    /\ ~sess[x.k].closed => fdOf[x.k] = x.fd /\ sess[x.k].next = x.line + 1

WorkInv(k) ==
    /\ \A x \in Pending \cup Posted : x.k = k => ItemInv(x)
    /\ \A x \in Pending : x.k = k => mail[k] = Play(k)[x.line - 1].mail

\* The four stages of an open connection: its greeting is being written, ...
Greeting(k) ==
    LET e == fds[fdOf[k]] IN
    /\ e.reader = 0 /\ e.out = <<[k |-> k, line |-> 0, reply |-> "220", then |-> "banner"]>>
    /\ ~e.in /\ ~e.edge
    /\ sess[k].own = Fresh /\ sess[k].next = 1 /\ ~sess[k].waiting /\ got[k] = 0
    /\ replies[k] = <<>> /\ mail[k] = Play(k)[0].mail /\ NoItem(k)

\* ... it has answered all it has read, ...
Listening(k) ==
    LET e == fds[fdOf[k]]
        r == Play(k)[got[k]] IN
    /\ e.reader = k /\ e.out = <<>> /\ e.in
    /\ sess[k].own = r.s /\ sess[k].next = got[k] + 1 /\ ~sess[k].waiting
    /\ ~r.over /\ replies[k] = r.replies /\ mail[k] = r.mail /\ NoItem(k)

\* ... a reply is being written, ...
Replying(k) ==
    LET e == fds[fdOf[k]]
        i == sess[k].next - 1
        a == Outcome(k, i) IN
    /\ e.reader = k /\ e.out = <<[k |-> k, line |-> i, reply |-> a.reply, then |-> a.then]>>
    /\ ~e.in /\ ~e.edge
    /\ Answered(k, i) /\ sess[k].own = a.s /\ sess[k].waiting
    /\ replies[k] = Play(k)[i - 1].replies /\ mail[k] = Play(k)[i].mail /\ NoItem(k)

\* ... or its message is with the workers.
Judged(k) ==
    LET e == fds[fdOf[k]]
        i == sess[k].next - 1 IN
    /\ e.reader = k /\ e.out = <<>> /\ e.in
    /\ Answered(k, i) /\ sess[k].own = Outcome(k, i).s /\ sess[k].waiting
    /\ replies[k] = Play(k)[i - 1].replies
    /\ \E x \in Pending \cup Posted : x.k = k
    /\ \A x \in Posted : x.k = k => mail[k] = Play(k)[i].mail

StageInv(k) ==
    fdOf[k] # 0 => Greeting(k) \/ Listening(k) \/ Replying(k) \/ Judged(k)

\* What there is to read will be read.
EdgeInv(k) ==
    fdOf[k] # 0 /\ Readable(k, got[k]) =>
        fds[fdOf[k]].out # <<>> \/ fds[fdOf[k]].edge \/ reading = fdOf[k]

\* Before its accept a connection is as it was; later it has heard, and the
\* handler was given, what a client that waits would have come to some time.
HeardInv(k) ==
    /\ got[k] <= sent[k] /\ sent[k] <= Len(Script[k]) /\ sess[k].next \in 1 .. got[k] + 1
    /\ client[k] = "new" => /\ got[k] = 0 /\ fdOf[k] = 0 /\ replies[k] = <<>>
                            /\ mail[k] = Play(k)[0].mail /\ NoItem(k)
                            /\ sess[k] = [own |-> Fresh, next |-> 1, waiting |-> FALSE,
                                          closed |-> FALSE]
    /\ replies[k] = <<>> \/ \E i \in 0 .. Len(Script[k]) : replies[k] = Play(k)[i].replies
    /\ \E i \in 0 .. Len(Script[k]) : mail[k] = Play(k)[i].mail

OneInv(k) == WorkInv(k) /\ StageInv(k) /\ EdgeInv(k) /\ HeardInv(k)

SmtpInv ==
    /\ OwnInv
    /\ \A fd \in Fds : EntryInv(fd)
    /\ UniqueInv
    /\ \A k \in Conns : OneInv(k)

-----------------------------------------------------------------------------
(***************************************************************************)
(* What a line does to a session.                                          *)
(***************************************************************************)
\* What is assumed of the constants, as the proofs use it.
LEMMA Consts ==
    /\ IsFiniteSet(Conns) /\ Conns \subseteq Nat \ {0} /\ Fds \subseteq Nat \ {0}
    /\ \A k \in Conns : Script[k] \in Seq(Lines) /\ Len(Script[k]) \in Nat
    /\ \A k \in Conns : \A i \in 1 .. Len(Script[k]) : Script[k][i] \in Lines
    /\ MaxErrors \in Nat /\ MaxRcpt \in Nat /\ MaxMsg \in Nat
<1>1. \A k \in Conns : Script[k] \in Seq(Lines) BY SmtpAssumption DEF Lines
<1>2. \A k \in Conns : Len(Script[k]) \in Nat BY <1>1
<1>3. \A k \in Conns : \A i \in 1 .. Len(Script[k]) : Script[k][i] \in Lines
  BY <1>1, ElementOfSeq
<1>4. Cardinality(Conns) \in Nat /\ Cardinality(Fds) \in Nat
  BY SmtpAssumption, FS_CardinalityType
<1>5. 1 .. Cardinality(Conns) \subseteq Nat \ {0} /\ 1 .. Cardinality(Fds) \subseteq Nat \ {0}
  BY <1>4
<1> QED BY <1>1, <1>2, <1>3, <1>5, SmtpAssumption

\* The replies, and what follows each of them.
Good(a) ==
    /\ a \in [s : Owns, reply : Replies, then : Thens]
    /\ <<a.reply, a.then>> \in {<<"421", "close">>, <<"221", "close">>, <<"5xx", "resume">>,
           <<"250", "resume">>, <<"235", "resume">>, <<"354", "body">>, <<"552", "reset">>,
           <<"verdict", "reset">>, <<"", "go on">>}

\* An error is answered with 5xx, or with 421 and a close.
LEMMA ErrorGood ==
    ASSUME NEW s \in Owns
    PROVE  Good(ErrorReply(s))
<1> DEFINE t == [s EXCEPT !.errors = @ + 1]
<1>1. t \in Owns BY DEF Owns
<1> HIDE DEF t
<1>2. Good(Answer(t, "421", "close")) /\ Good(Answer(t, "5xx", "resume"))
  BY <1>1 DEF Good, Answer, Thens, Replies
<1> QED BY <1>2 DEF ErrorReply, t

\* EHLO, and what handle_ehlo refuses.
LEMMA EhloGood ==
    ASSUME NEW s \in Owns, NEW line \in Lines
    PROVE  Good(HandleEhlo(s, line))
<1>1. [s EXCEPT !.state = "READY"] \in Owns BY DEF Owns, States
<1>2. Good(Answer([s EXCEPT !.state = "READY"], "250", "resume"))
  BY <1>1 DEF Good, Answer, Thens, Replies
<1> QED BY <1>2, ErrorGood DEF HandleEhlo

\* AUTH, MAIL and EHLO in the ready state.
LEMMA ReadyGood ==
    ASSUME NEW k, NEW s \in Owns, NEW line \in Lines
    PROVE  Good(HandleReady(k, s, line))
<1> DEFINE t == [s EXCEPT !.auth = TRUE]
           u == [s EXCEPT !.from = line[2], !.state = "MAIL_FROM"]
<1>1. t \in Owns /\ u \in Owns BY DEF Owns, States, Lines, Texts
<1> HIDE DEF t, u
<1>2. Good(Answer(t, "235", "resume")) /\ Good(Answer(u, "250", "resume"))
  BY <1>1 DEF Good, Answer, Thens, Replies
<1>3. \/ HandleReady(k, s, line) = Answer(t, "235", "resume")
      \/ HandleReady(k, s, line) = Answer(u, "250", "resume")
      \/ HandleReady(k, s, line) = HandleEhlo(s, line)
      \/ HandleReady(k, s, line) = ErrorReply(s)
  BY DEF HandleReady, t, u
<1> QED BY <1>2, <1>3, EhloGood, ErrorGood

\* RCPT.
LEMMA MailFromGood ==
    ASSUME NEW s \in Owns, NEW line \in Lines
    PROVE  Good(HandleMailFrom(s, line))
<1> DEFINE t == [s EXCEPT !.rcpt = Append(@, line[2]), !.state = "RCPT_TO"]
<1>0. Append(s.rcpt, line[2]) \in Seq(STRING) BY DEF Owns, Lines
<1>1. t \in Owns BY <1>0 DEF Owns, States
<1> HIDE DEF t
<1>2. Good(Answer(t, "250", "resume"))
  BY <1>1 DEF Good, Answer, Thens, Replies
<1> QED BY <1>2, ErrorGood DEF HandleMailFrom, t

\* DATA, or one more RCPT.
LEMMA RcptToGood ==
    ASSUME NEW s \in Owns, NEW line \in Lines
    PROVE  Good(HandleRcptTo(s, line))
<1> DEFINE t == [s EXCEPT !.state = "DATA_INIT"]
<1>1. t \in Owns BY DEF Owns, States
<1> HIDE DEF t
<1>2. Good(Answer(t, "354", "body"))
  BY <1>1 DEF Good, Answer, Thens, Replies
<1> QED BY <1>2, MailFromGood DEF HandleRcptTo, t

\* A line of the body, the end of the message, or too much of it.
LEMMA BodyGood ==
    ASSUME NEW s \in Owns, NEW line \in Lines
    PROVE  Good(HandleDataBody(s, line))
<1> DEFINE t == IF line[1] = "." THEN s ELSE [s EXCEPT !.data = Append(@, line[2])]
<1>0. Append(s.data, line[2]) \in Seq(STRING) BY DEF Owns, Lines
<1>1. t \in Owns BY <1>0 DEF Owns, States
<1> HIDE DEF t
<1>2. Good(Answer(t, "552", "reset")) /\ Good(Answer(t, "verdict", "reset"))
      /\ Good(Answer(t, "", "go on"))
  BY <1>1 DEF Good, Answer, Thens, Replies
<1>3. \/ HandleDataBody(s, line) = Answer(t, "552", "reset")
      \/ HandleDataBody(s, line) = Answer(t, "verdict", "reset")
      \/ HandleDataBody(s, line) = Answer(t, "", "go on")
  <2>1. Len(t.data) \in Nat /\ MaxMsg \in Nat BY <1>1, Consts DEF Owns
  <2>2. HandleDataBody(s, line) =
          CASE Len(t.data) > MaxMsg -> Answer(t, "552", "reset")
            [] Len(t.data) <= MaxMsg /\ line[1] = "." -> Answer(t, "verdict", "reset")
            [] OTHER -> Answer(t, "", "go on")
    BY Zenon DEF HandleDataBody, t
  <2> QED BY <2>1, <2>2
<1> QED BY <1>2, <1>3

\* reset_envelope keeps the session's types.
LEMMA ResetOwn ==
    ASSUME NEW s \in Owns
    PROVE  ResetEnvelope(s) \in Owns
  BY EmptySeq DEF ResetEnvelope, Owns, States, Texts

\* Every line is answered in one of these ways.
LEMMA DispatchGood ==
    ASSUME NEW k, NEW s \in Owns, NEW line \in Lines
    PROVE  Good(DispatchLine(k, s, line))
<1>1. CASE s.state = "DATA_BODY" BY <1>1, BodyGood DEF DispatchLine
<1>2. CASE s.state # "DATA_BODY"
  <2> DEFINE r == ResetEnvelope(s)
  <2>0. r \in Owns BY ResetOwn
  <2> HIDE DEF r
  <2>1. Good(Answer(s, "221", "close")) /\ Good(Answer(s, "250", "resume"))
        /\ Good(Answer(s, "", "go on")) /\ Good(Answer(r, "250", "resume"))
    BY <2>0 DEF Good, Answer, Thens, Replies
  <2>2. \/ DispatchLine(k, s, line) = Answer(s, "221", "close")
        \/ DispatchLine(k, s, line) = Answer(r, "250", "resume")
        \/ DispatchLine(k, s, line) = Answer(s, "250", "resume")
        \/ DispatchLine(k, s, line) = HandleEhlo(s, line)
        \/ DispatchLine(k, s, line) = HandleReady(k, s, line)
        \/ DispatchLine(k, s, line) = HandleMailFrom(s, line)
        \/ DispatchLine(k, s, line) = HandleRcptTo(s, line)
        \/ DispatchLine(k, s, line) = Answer(s, "", "go on")
        \/ DispatchLine(k, s, line) = ErrorReply(s)
    BY <1>2 DEF DispatchLine, r
  <2> QED BY <2>1, <2>2, EhloGood, ReadyGood, MailFromGood, RcptToGood, ErrorGood
<1> QED BY <1>1, <1>2

\* What the other proofs use of an answer.
LEMMA GoodParts ==
    ASSUME NEW a, Good(a)
    PROVE  /\ a.s \in Owns /\ a.reply \in Replies /\ a.then \in Thens
           /\ a.reply = "" <=> a.then = "go on"
           /\ a.then # "banner" /\ (a.reply = "verdict" => a.then = "reset")
  BY DEF Good

\* What follows a reply keeps the session's types.
LEMMA ContinueOwn ==
    ASSUME NEW s \in Owns, NEW then
    PROVE  Continue(s, then) \in Owns
<1>1. [s EXCEPT !.state = "EHLO"] \in Owns /\ [s EXCEPT !.state = "DATA_BODY"] \in Owns
  BY DEF Owns, States
<1> QED BY <1>1, ResetOwn DEF Continue

\* These continuations leave the session as it is.
LEMMA ContinueIs ==
    ASSUME NEW s
    PROVE  Continue(s, "go on") = s /\ Continue(s, "close") = s /\ Continue(s, "resume") = s
  BY DEF Continue

\* The session of a connection just accepted.
LEMMA FreshOwn == Fresh \in Owns
  BY EmptySeq DEF Fresh, Owns, States, Texts

\* The message a session has collected.
LEMMA MessageType ==
    ASSUME NEW s \in Owns
    PROVE  Message(s) \in Messages
  BY DEF Owns, Message, Messages

-----------------------------------------------------------------------------
(***************************************************************************)
(* The reference.  Play(k) is a recursive function: that it is what its    *)
(* definition says for every line is shown by the least line where it is   *)
(* not.                                                                    *)
(***************************************************************************)
\* Every nonempty set of naturals has a least element.
LEMMA Least ==
    ASSUME NEW T \in SUBSET Nat, T # {}
    PROVE  \E m \in T : \A y \in T : m <= y
<1> DEFINE R == OpToRel(<, Nat)
<1>1. ASSUME NEW y \in Nat, NEW z \in Nat, y < z
      PROVE  <<y, z>> \in R
  <2>1. <<y, z>> \in Nat \X Nat OBVIOUS
  <2>2. <<y, z>>[1] < <<y, z>>[2] BY <1>1
  <2> QED BY <2>1, <2>2, Zenon DEF OpToRel
<1>2. PICK m \in T : \A y \in T : ~(<<y, m>> \in R)
  BY WFMin, NatLessThanWellFounded
<1> HIDE DEF R
<1>3. ASSUME NEW y \in T PROVE m <= y
  <2>1. ~(y < m) BY <1>1, <1>2, Zenon
  <2> QED BY <2>1
<1> QED BY <1>3

Start == [s |-> Continue(Fresh, "banner"), over |-> FALSE,
          replies |-> <<<<0, "220">>>>, mail |-> <<>>]
IsPlay(k, f, n) ==
    f = [i \in 0 .. n |-> IF i = 0 THEN Start ELSE AfterLine(k, f[i - 1], i)]

\* One more line can be played.
LEMMA PlayMore ==
    ASSUME NEW k, NEW n \in Nat, NEW f, IsPlay(k, f, n)
    PROVE  \E g : IsPlay(k, g, n + 1)
<1> DEFINE g == [i \in 0 .. n + 1 |-> IF i <= n THEN f[i] ELSE AfterLine(k, f[n], n + 1)]
           h == [i \in 0 .. n + 1 |-> IF i = 0 THEN Start ELSE AfterLine(k, g[i - 1], i)]
<1>1. ASSUME NEW i \in 0 .. n + 1 PROVE g[i] = h[i]
  <2>1. CASE i = 0 BY <2>1 DEF IsPlay
  <2>2. CASE i \in 1 .. n
     <3>1. g[i] = f[i] /\ g[i - 1] = f[i - 1] BY <2>2
     <3>2. f[i] = AfterLine(k, f[i - 1], i) BY <2>2 DEF IsPlay
     <3> QED BY <2>2, <3>1, <3>2
  <2>3. CASE i = n + 1
     <3>1. g[i] = AfterLine(k, f[n], n + 1) BY <2>3
     <3>2. g[i - 1] = f[n] BY <2>3
     <3> QED BY <2>3, <3>1, <3>2
  <2> QED BY <2>1, <2>2, <2>3
<1>2. g = h BY <1>1
<1> HIDE DEF h
<1>3. IsPlay(k, g, n + 1) BY <1>2 DEF IsPlay, h
<1> QED BY <1>3

\* Any number of lines can be played.
LEMMA PlayExists ==
    ASSUME NEW k, NEW n \in Nat
    PROVE  \E f : IsPlay(k, f, n)
<1> DEFINE B == {m \in Nat : ~ \E f : IsPlay(k, f, m)}
<1>1. \E f : IsPlay(k, f, 0)
  <2> DEFINE f == [i \in 0 .. 0 |-> Start]
             h == [i \in 0 .. 0 |-> IF i = 0 THEN Start ELSE AfterLine(k, f[i - 1], i)]
  <2>1. f = h OBVIOUS
  <2> HIDE DEF h
  <2>2. IsPlay(k, f, 0) BY <2>1 DEF IsPlay, h
  <2> QED BY <2>2
<1>2. SUFFICES ASSUME B # {} PROVE FALSE OBVIOUS
<1>3. PICK m \in B : \A y \in B : m <= y BY <1>2, Least
<1>4. m # 0 BY <1>1
<1>5. m - 1 \in Nat /\ m - 1 \notin B BY <1>3, <1>4
<1>6. PICK f : IsPlay(k, f, m - 1) BY <1>5
<1>7. \E g : IsPlay(k, g, m - 1 + 1) BY <1>5, <1>6, PlayMore
<1> QED BY <1>3, <1>7

\* The equations of Play, and that Alone is its last value.
LEMMA PlayIs ==
    ASSUME NEW k \in Conns
    PROVE  /\ Play(k)[0] = Start
           /\ \A i \in 1 .. Len(Script[k]) : Play(k)[i] = AfterLine(k, Play(k)[i - 1], i)
           /\ Alone[k] = Play(k)[Len(Script[k])]
<1>1. Len(Script[k]) \in Nat BY Consts
<1>2. Play(k) = CHOOSE f : IsPlay(k, f, Len(Script[k])) BY Zenon DEF Play, IsPlay, Start
<1>3. IsPlay(k, Play(k), Len(Script[k])) BY <1>1, <1>2, PlayExists, Zenon
<1> DEFINE f == Play(k)
<1>4. f = [i \in 0 .. Len(Script[k]) |-> IF i = 0 THEN Start ELSE AfterLine(k, f[i - 1], i)]
  BY <1>3 DEF IsPlay
<1> HIDE DEF f
<1>5. f[0] = Start /\ \A i \in 1 .. Len(Script[k]) : f[i] = AfterLine(k, f[i - 1], i)
  BY <1>1, <1>4
<1>6. Alone[k] = Play(k)[Len(Script[k])] BY Zenon DEF Alone
<1> QED BY <1>5, <1>6 DEF f

Played == [s : Owns, over : BOOLEAN, replies : Seq(Nat \X Replies), mail : Seq(Messages)]

\* The reference begins with the greeting, and without mail.
LEMMA StartType == Start \in Played /\ ~Start.over /\ Start.mail = <<>>
<1>1. Continue(Fresh, "banner") \in Owns BY FreshOwn, ContinueOwn
<1>2. <<<<0, "220">>>> \in Seq(Nat \X Replies)
  <2>1. <<0, "220">> \in Nat \X Replies BY DEF Replies
  <2> QED BY <2>1
<1> QED BY <1>1, <1>2 DEF Start, Played

\* What line i does, when the conversation is not over.
LEMMA AfterLineIs ==
    ASSUME NEW k \in Conns, NEW i \in 1 .. Len(Script[k]), NEW p \in Played
    PROVE  LET a == DispatchLine(k, p.s, Script[k][i])
           IN  /\ Good(a)
               /\ AfterLine(k, p, i) \in Played
               /\ p.over => AfterLine(k, p, i) = p
               /\ ~p.over =>
                    /\ AfterLine(k, p, i).s = Continue(a.s, a.then)
                    /\ AfterLine(k, p, i).over = (a.then = "close")
                    /\ AfterLine(k, p, i).replies =
                          IF a.reply = "" THEN p.replies ELSE Append(p.replies, <<i, a.reply>>)
                    /\ AfterLine(k, p, i).mail =
                          IF a.reply = "verdict" THEN Append(p.mail, Message(a.s)) ELSE p.mail
<1> DEFINE a == DispatchLine(k, p.s, Script[k][i])
<1>1. Good(a) BY Consts, DispatchGood DEF Played
<1>2. a.s \in Owns /\ a.reply \in Replies BY <1>1, GoodParts
<1> DEFINE over == a.then = "close"
           rep  == IF a.reply = "" THEN p.replies ELSE Append(p.replies, <<i, a.reply>>)
           box  == IF a.reply = "verdict" THEN Append(p.mail, Message(a.s)) ELSE p.mail
           new  == [s |-> Continue(a.s, a.then), over |-> over, replies |-> rep, mail |-> box]
<1>3. AfterLine(k, p, i) = IF p.over THEN p ELSE new
  BY Zenon DEF AfterLine
<1>4. Continue(a.s, a.then) \in Owns /\ Message(a.s) \in Messages
  BY <1>2, ContinueOwn, MessageType
<1>5. rep \in Seq(Nat \X Replies)
  <2>1. i \in Nat BY Consts
  <2> HIDE DEF a
  <2>2. <<i, a.reply>> \in Nat \X Replies BY <1>2, <2>1
  <2>3. p.replies \in Seq(Nat \X Replies) BY DEF Played
  <2> QED BY <2>2, <2>3, AppendProperties
<1>6. box \in Seq(Messages)
  <2> HIDE DEF a
  <2> QED BY <1>4 DEF Played
<1>7. over \in BOOLEAN BY Zenon
<1> HIDE DEF a, over, rep, box
<1>8. AfterLine(k, p, i) \in Played
  BY <1>3, <1>4, <1>5, <1>6, <1>7 DEF Played
<1>9. p.over => AfterLine(k, p, i) = p BY <1>3
<1>10. ~p.over => /\ AfterLine(k, p, i).s = Continue(a.s, a.then)
                  /\ AfterLine(k, p, i).over = over
                  /\ AfterLine(k, p, i).replies = rep
                  /\ AfterLine(k, p, i).mail = box
  BY <1>3
<1> HIDE DEF new
<1> QED BY <1>1, <1>8, <1>9, <1>10, Zenon DEF a, over, rep, box

\* The reference has its types after every line.
LEMMA PlayType ==
    ASSUME NEW k \in Conns
    PROVE  \A i \in 0 .. Len(Script[k]) : Play(k)[i] \in Played
<1> DEFINE n == Len(Script[k])
           B == {i \in 0 .. n : Play(k)[i] \notin Played}
<1>1. n \in Nat BY Consts
<1> HIDE DEF n
<1>2. SUFFICES ASSUME B # {} PROVE FALSE BY DEF n
<1>3. PICK m \in B : \A y \in B : m <= y
  <2>1. B \in SUBSET Nat BY <1>1
  <2> QED BY <1>2, <2>1, Least
<1>4. m # 0 BY PlayIs, StartType
<1>5. m \in 1 .. n /\ m - 1 \in 0 .. n /\ m - 1 \notin B BY <1>1, <1>3, <1>4
<1>6. Play(k)[m - 1] \in Played BY <1>5
<1>7. Play(k)[m] = AfterLine(k, Play(k)[m - 1], m) BY <1>5, PlayIs DEF n
<1>8. Play(k)[m] \in Played BY <1>5, <1>6, <1>7, AfterLineIs DEF n
<1> QED BY <1>3, <1>8

\* The line that follows an unfinished conversation.
LEMMA PlayStep ==
    ASSUME NEW k \in Conns, NEW i \in 1 .. Len(Script[k]), ~Play(k)[i - 1].over
    PROVE  LET a == Outcome(k, i)
           IN  /\ Good(a)
               /\ Play(k)[i].s = Continue(a.s, a.then)
               /\ Play(k)[i].over = (a.then = "close")
               /\ Play(k)[i].replies =
                     IF a.reply = "" THEN Play(k)[i - 1].replies
                     ELSE Append(Play(k)[i - 1].replies, <<i, a.reply>>)
               /\ Play(k)[i].mail =
                     IF a.reply = "verdict" THEN Append(Play(k)[i - 1].mail, Message(a.s))
                     ELSE Play(k)[i - 1].mail
<1>1. i - 1 \in 0 .. Len(Script[k]) BY Consts
<1>2. Play(k)[i - 1] \in Played BY <1>1, PlayType
<1>3. Play(k)[i] = AfterLine(k, Play(k)[i - 1], i) BY PlayIs
<1> DEFINE p == Play(k)[i - 1]
           a == DispatchLine(k, p.s, Script[k][i])
<1>4. /\ Good(a)
      /\ ~p.over =>
           /\ AfterLine(k, p, i).s = Continue(a.s, a.then)
           /\ AfterLine(k, p, i).over = (a.then = "close")
           /\ AfterLine(k, p, i).replies =
                 IF a.reply = "" THEN p.replies ELSE Append(p.replies, <<i, a.reply>>)
           /\ AfterLine(k, p, i).mail =
                 IF a.reply = "verdict" THEN Append(p.mail, Message(a.s)) ELSE p.mail
  BY <1>2, AfterLineIs, Zenon
<1>5. a = Outcome(k, i) BY DEF Outcome
<1>6. ~p.over OBVIOUS
<1>7. AfterLine(k, p, i) = Play(k)[i] BY <1>3
<1> HIDE DEF a
<1> QED BY <1>4, <1>5, <1>6, <1>7, Zenon

Begins(s, t) == Len(s) <= Len(t) /\ \A n \in 1 .. Len(s) : s[n] = t[n]

\* Begins is IsPrefix, said of the elements.
LEMMA BeginsPrefix ==
    ASSUME NEW S, NEW s \in Seq(S), NEW t \in Seq(S), Begins(s, t)
    PROVE  IsPrefix(s, t)
<1> DEFINE n == Len(s)
           a == SubSeq(s, 1, n)
           b == SubSeq(t, 1, n)
<1>1. n \in Nat /\ Len(t) \in Nat /\ n <= Len(t) BY DEF Begins
<1>2. /\ a \in Seq(S) /\ Len(a) = n /\ \A i \in 1 .. n : a[i] = s[i]
  BY <1>1
<1>3. /\ b \in Seq(S) /\ Len(b) = n /\ \A i \in 1 .. n : b[i] = t[i]
  BY <1>1
<1>4. \A i \in 1 .. n : a[i] = b[i] BY <1>2, <1>3 DEF Begins
<1>5. a = b BY <1>2, <1>3, <1>4, SeqEqual
<1> QED BY <1>1, <1>5 DEF IsPrefix

\* Later lines add to the replies and the messages.
LEMMA PlayGrows ==
    ASSUME NEW k \in Conns, NEW i \in 0 .. Len(Script[k]), NEW j \in i .. Len(Script[k])
    PROVE  /\ Begins(Play(k)[i].replies, Play(k)[j].replies)
           /\ Begins(Play(k)[i].mail, Play(k)[j].mail)
<1> DEFINE n == Len(Script[k])
           P(m) == /\ Begins(Play(k)[i].replies, Play(k)[m].replies)
                   /\ Begins(Play(k)[i].mail, Play(k)[m].mail)
           B == {m \in i .. n : ~P(m)}
<1>1. n \in Nat BY Consts
<1>2. SUFFICES ASSUME B # {} PROVE FALSE OBVIOUS
<1>3. PICK m \in B : \A y \in B : m <= y
  <2>1. B \in SUBSET Nat BY <1>1
  <2> QED BY <1>2, <2>1, Least
<1>4. m # i
  <2>1. Play(k)[i].replies \in Seq(Nat \X Replies) /\ Play(k)[i].mail \in Seq(Messages)
    BY PlayType DEF Played
  <2>2. P(i) BY <2>1 DEF Begins
  <2> QED BY <1>3, <2>2
<1>5. m \in 1 .. n /\ m - 1 \in i .. n /\ m - 1 \in 0 .. n BY <1>1, <1>3, <1>4
<1>6. P(m - 1)
  <2>1. m - 1 \notin B BY <1>1, <1>3, <1>5
  <2> QED BY <1>5, <2>1
<1> DEFINE p == Play(k)[m - 1]
           a == DispatchLine(k, p.s, Script[k][m])
<1>7. p \in Played BY <1>5, PlayType
<1>8. Play(k)[m] = AfterLine(k, p, m) BY <1>5, PlayIs
<1>11. /\ Good(a)
       /\ p.over => AfterLine(k, p, m) = p
       /\ ~p.over =>
            /\ AfterLine(k, p, m).replies =
                  IF a.reply = "" THEN p.replies ELSE Append(p.replies, <<m, a.reply>>)
            /\ AfterLine(k, p, m).mail =
                  IF a.reply = "verdict" THEN Append(p.mail, Message(a.s)) ELSE p.mail
  BY <1>5, <1>7, AfterLineIs, Zenon
<1>9. CASE p.over
  <2>1. Play(k)[m] = p BY <1>8, <1>9, <1>11
  <2> QED BY <1>3, <1>6, <2>1
<1>10. CASE ~p.over
  <2>1. /\ Play(k)[m].replies \in {p.replies, Append(p.replies, <<m, a.reply>>)}
        /\ Play(k)[m].mail \in {p.mail, Append(p.mail, Message(a.s))}
    <3> HIDE DEF a
    <3> QED BY <1>8, <1>10, <1>11
  <2>2. m \in Nat /\ a.reply \in Replies /\ Message(a.s) \in Messages
    <3>1. m \in Nat BY <1>5
    <3>2. a.s \in Owns /\ a.reply \in Replies BY <1>11, GoodParts, Zenon
    <3> QED BY <3>1, <3>2, MessageType, Zenon
  <2>3. ASSUME NEW S, NEW s \in Seq(S), NEW t \in Seq(S), NEW x \in S, Begins(s, t)
        PROVE  Begins(s, Append(t, x))
    BY <2>3 DEF Begins
  <2>4. Play(k)[i].replies \in Seq(Nat \X Replies) /\ Play(k)[i].mail \in Seq(Messages)
        /\ p.replies \in Seq(Nat \X Replies) /\ p.mail \in Seq(Messages)
    BY <1>7, PlayType DEF Played
  <2>5. Begins(Play(k)[i].replies, Append(p.replies, <<m, a.reply>>))
    BY <1>6, <2>2, <2>3, <2>4
  <2>6. Begins(Play(k)[i].mail, Append(p.mail, Message(a.s)))
    BY <1>6, <2>2, <2>3, <2>4
  <2> QED BY <1>3, <1>6, <2>1, <2>5, <2>6
<1> QED BY <1>9, <1>10

-----------------------------------------------------------------------------
(***************************************************************************)
(* pump() goes through the buffered lines as a client that waits would.    *)
(***************************************************************************)
IsBefore(k, s, f, m) ==
    f = [i \in s.next .. m |-> IF i = s.next THEN s.own
                               ELSE DispatchLine(k, f[i - 1], Script[k][i - 1]).s]

\* One more line can be looked at.
LEMMA BeforeMore ==
    ASSUME NEW k, NEW s, s.next \in Nat, NEW m \in Nat, s.next <= m, NEW f, IsBefore(k, s, f, m)
    PROVE  \E g : IsBefore(k, s, g, m + 1)
<1> DEFINE a == s.next
           line(i, v) == DispatchLine(k, v, Script[k][i - 1]).s
           g == [i \in a .. m + 1 |-> IF i <= m THEN f[i] ELSE line(m + 1, f[m])]
           h == [i \in a .. m + 1 |-> IF i = a THEN s.own ELSE line(i, g[i - 1])]
<1>0. f = [i \in a .. m |-> IF i = a THEN s.own ELSE line(i, f[i - 1])] BY DEF IsBefore
<1>1. a \in Nat /\ a <= m OBVIOUS
<1>2. ASSUME NEW i \in a .. m + 1 PROVE g[i] = h[i]
  <2> HIDE DEF line, a
  <2>1. CASE i = a
    <3>1. i \in a .. m BY <1>1, <2>1
    <3>2. f[i] = s.own BY <1>0, <2>1, <3>1
    <3>3. g[i] = f[i] BY <1>1, <2>1
    <3>4. h[i] = s.own BY <2>1
    <3> QED BY <3>2, <3>3, <3>4
  <2>2. CASE i \in a + 1 .. m
     <3>1. g[i] = f[i] /\ g[i - 1] = f[i - 1] BY <1>1, <2>2
     <3>2. f[i] = line(i, f[i - 1]) BY <1>0, <1>1, <2>2
     <3>3. h[i] = line(i, g[i - 1]) BY <1>1, <2>2
     <3> QED BY <3>1, <3>2, <3>3
  <2>3. CASE i = m + 1
     <3>1. g[i] = line(m + 1, f[m]) BY <1>1, <2>3
     <3>2. g[i - 1] = f[m] BY <1>1, <2>3
     <3>3. h[i] = line(i, g[i - 1]) BY <1>1, <2>3
     <3> QED BY <2>3, <3>1, <3>2, <3>3
  <2> QED BY <1>1, <2>1, <2>2, <2>3
<1>3. g = h BY <1>2
<1> HIDE DEF g
<1>4. IsBefore(k, s, g, m + 1) BY <1>3 DEF IsBefore
<1> QED BY <1>4

\* Any number of lines can be looked at.
LEMMA BeforeExists ==
    ASSUME NEW k, NEW s, s.next \in Nat, NEW n \in Nat, s.next <= n
    PROVE  \E f : IsBefore(k, s, f, n)
<1> DEFINE a == s.next
           B == {m \in Nat : a <= m /\ ~ \E f : IsBefore(k, s, f, m)}
<1>1. \E f : IsBefore(k, s, f, a)
  <2> DEFINE f == [i \in a .. a |-> s.own]
             h == [i \in a .. a |-> IF i = a THEN s.own
                                    ELSE DispatchLine(k, f[i - 1], Script[k][i - 1]).s]
  <2>1. f = h OBVIOUS
  <2> HIDE DEF h
  <2>2. IsBefore(k, s, f, a) BY <2>1 DEF IsBefore, h
  <2> QED BY <2>2
<1>2. SUFFICES ASSUME B # {} PROVE FALSE OBVIOUS
<1>3. PICK m \in B : \A y \in B : m <= y
  <2>1. B \in SUBSET Nat OBVIOUS
  <2> QED BY <1>2, <2>1, Least
<1>4. m # a BY <1>1, <1>3
<1>5. m - 1 \in Nat /\ a <= m - 1 /\ m - 1 \notin B BY <1>3, <1>4
<1>6. PICK f : IsBefore(k, s, f, m - 1) BY <1>5
<1>7. \E g : IsBefore(k, s, g, m - 1 + 1) BY <1>5, <1>6, BeforeMore
<1>8. m - 1 + 1 = m BY <1>3
<1> QED BY <1>3, <1>7, <1>8

\* The equations of Before.
LEMMA BeforeIs ==
    ASSUME NEW k, NEW s, s.next \in Nat, NEW n \in Nat, s.next <= n + 1
    PROVE  /\ Before(k, s, n)[s.next] = s.own
           /\ \A i \in s.next + 1 .. n + 1 :
                 Before(k, s, n)[i] =
                     DispatchLine(k, Before(k, s, n)[i - 1], Script[k][i - 1]).s
<1>1. Before(k, s, n) = CHOOSE f : IsBefore(k, s, f, n + 1) BY Zenon DEF Before, IsBefore
<1>2. n + 1 \in Nat OBVIOUS
<1>3. \E f : IsBefore(k, s, f, n + 1) BY <1>2, BeforeExists
<1>4. IsBefore(k, s, Before(k, s, n), n + 1) BY <1>1, <1>3, Zenon
<1> DEFINE f == Before(k, s, n)
           line(i, v) == DispatchLine(k, v, Script[k][i - 1]).s
<1>5. f = [i \in s.next .. n + 1 |-> IF i = s.next THEN s.own ELSE line(i, f[i - 1])]
  BY <1>4 DEF IsBefore
<1> HIDE DEF f, line
<1>6. f[s.next] = s.own BY <1>5
<1>7. \A i \in s.next + 1 .. n + 1 : f[i] = line(i, f[i - 1]) BY <1>5
<1> QED BY <1>6, <1>7 DEF f, line

\* The state of the reference is that after line i.
SameAs(k, i, own, j) ==
    /\ own = Play(k)[i].s /\ ~Play(k)[i].over
    /\ Play(k)[i].replies = Play(k)[j].replies /\ Play(k)[i].mail = Play(k)[j].mail

\* A line that starts no reply changes the session only.
LEMMA SilentLine ==
    ASSUME NEW k \in Conns, NEW i \in 1 .. Len(Script[k]), NEW j, NEW own,
           SameAs(k, i - 1, own, j), DispatchLine(k, own, Script[k][i]).then = "go on"
    PROVE  SameAs(k, i, DispatchLine(k, own, Script[k][i]).s, j)
<1> DEFINE a == Outcome(k, i)
<1>1. a = DispatchLine(k, own, Script[k][i]) BY DEF Outcome, SameAs
<1>2. /\ Good(a)
      /\ Play(k)[i].s = Continue(a.s, a.then)
      /\ Play(k)[i].over = (a.then = "close")
      /\ Play(k)[i].replies = IF a.reply = "" THEN Play(k)[i - 1].replies
                              ELSE Append(Play(k)[i - 1].replies, <<i, a.reply>>)
      /\ Play(k)[i].mail = IF a.reply = "verdict"
                           THEN Append(Play(k)[i - 1].mail, Message(a.s))
                           ELSE Play(k)[i - 1].mail
  BY PlayStep, Zenon DEF SameAs
<1>3. a.then = "go on" BY <1>1
<1> HIDE DEF a
<1>4. a.reply = "" BY <1>2, <1>3, GoodParts
<1>5. Continue(a.s, a.then) = a.s BY <1>3, ContinueIs
<1> QED BY <1>1, <1>2, <1>3, <1>4, <1>5 DEF SameAs

\* Where pump() stops.
LEMMA PumpedIs ==
    ASSUME NEW k \in Conns, NEW s, NEW n \in 0 .. Len(Script[k]), s.next \in 1 .. n + 1,
           SameAs(k, s.next - 1, s.own, s.next - 1)
    PROVE  LET p == Pumped(k, s, n)
           IN  /\ p.stop \in s.next .. n + 1
               /\ SameAs(k, p.stop - 1, p.own, s.next - 1)
               /\ p.stop <= n => DispatchLine(k, p.own, Script[k][p.stop]).then # "go on"
<1> DEFINE a == s.next
           at == Before(k, s, n)
           Silent(i) == DispatchLine(k, at[i], Script[k][i]).then = "go on"
           stop == CHOOSE i \in a .. n + 1 : /\ \A j \in a .. i - 1 : Silent(j)
                                             /\ i <= n => ~Silent(i)
           P(i) == (\A j \in a .. i - 1 : Silent(j)) => SameAs(k, i - 1, at[i], a - 1)
<1>1. /\ Len(Script[k]) \in Nat /\ n \in Nat /\ n <= Len(Script[k])
      /\ a \in Nat /\ a >= 1 /\ a <= n + 1
  BY Consts
<1>2. /\ at[a] = s.own
      /\ \A i \in a + 1 .. n + 1 : at[i] = DispatchLine(k, at[i - 1], Script[k][i - 1]).s
  BY <1>1, BeforeIs
<1> HIDE DEF at, Silent, P, stop, a
<1>3. ASSUME NEW i \in a .. n + 1 PROVE P(i)
  <2> DEFINE B == {m \in a .. n + 1 : ~P(m)}
  <2>1. SUFFICES ASSUME B # {} PROVE FALSE OBVIOUS
  <2>2. PICK m \in B : \A y \in B : m <= y
    <3>1. B \in SUBSET Nat BY <1>1
    <3> QED BY <2>1, <3>1, Least
  <2>3. P(a) BY <1>2 DEF P, a
  <2>4. /\ m \in a + 1 .. n + 1 /\ m - 1 \in a .. n + 1 /\ m - 1 \notin B
        /\ m - 1 \in 1 .. Len(Script[k])
    BY <1>1, <2>2, <2>3
  <2>5. P(m - 1) BY <2>4
  <2>6. \A j \in a .. m - 1 : Silent(j) BY <2>2 DEF P
  <2>7. Silent(m - 1) /\ \A j \in a .. m - 1 - 1 : Silent(j) BY <1>1, <2>4, <2>6
  <2>8. SameAs(k, m - 1 - 1, at[m - 1], a - 1) BY <2>5, <2>7 DEF P
  <2>9. SameAs(k, m - 1, DispatchLine(k, at[m - 1], Script[k][m - 1]).s, a - 1)
    BY <2>4, <2>7, <2>8, SilentLine DEF Silent
  <2>10. SameAs(k, m - 1, at[m], a - 1) BY <1>2, <2>4, <2>9
  <2> QED BY <2>2, <2>10 DEF P
<1>4. \E i \in a .. n + 1 : (\A j \in a .. i - 1 : Silent(j)) /\ (i <= n => ~Silent(i))
  <2> DEFINE T == {i \in a .. n + 1 : i <= n => ~Silent(i)}
  <2>1. n + 1 \in T BY <1>1
  <2>2. PICK m \in T : \A y \in T : m <= y
    <3>1. T \in SUBSET Nat BY <1>1
    <3> QED BY <2>1, <3>1, Least
  <2>3. ASSUME NEW j \in a .. m - 1 PROVE Silent(j)
    <3>1. j \in a .. n + 1 /\ j <= n /\ ~(m <= j) BY <1>1, <2>2
    <3>2. j \notin T BY <2>2, <3>1
    <3> QED BY <3>1, <3>2
  <2> QED BY <2>2, <2>3
<1>5. /\ stop \in a .. n + 1 /\ \A j \in a .. stop - 1 : Silent(j)
      /\ stop <= n => ~Silent(stop)
  BY <1>4, Zenon DEF stop
<1>6. Pumped(k, s, n) = [own |-> at[stop], stop |-> stop]
  BY Zenon DEF Pumped, stop, Silent, at, a
<1>7. SameAs(k, stop - 1, at[stop], a - 1) BY <1>3, <1>5 DEF P
<1>8. Pumped(k, s, n).own = at[stop] /\ Pumped(k, s, n).stop = stop BY <1>6
<1>9. stop <= n => DispatchLine(k, at[stop], Script[k][stop]).then # "go on" BY <1>5 DEF Silent
<1> QED BY <1>5, <1>7, <1>8, <1>9 DEF a

-----------------------------------------------------------------------------
(***************************************************************************)
(* What a step does not touch.                                             *)
(***************************************************************************)
Same(d) ==
    /\ fdOf'[d] = fdOf[d] /\ sess'[d] = sess[d] /\ got'[d] = got[d] /\ sent'[d] = sent[d]
    /\ client'[d] = client[d] /\ replies'[d] = replies[d] /\ mail'[d] = mail[d]
    /\ fdOf[d] # 0 => /\ fds'[fdOf[d]] = fds[fdOf[d]]
                      /\ reading = fdOf[d] => reading' = reading
ItemsSame(d) ==
    \A x : x.k = d => /\ x \in Pending <=> x \in Pending'
                      /\ x \in Posted <=> x \in Posted'

\* What a step leaves alone stays as the invariant has it.
LEMMA Frame ==
    ASSUME NEW d \in Conns, OneInv(d), Same(d), ItemsSame(d)
    PROVE  OneInv(d)'
<1>1. NoItem(d)' <=> NoItem(d) BY DEF NoItem, ItemsSame
<1>2. WorkInv(d)'
  BY DEF WorkInv, OneInv, ItemInv, Answered, Same, ItemsSame
<1>3. StageInv(d)'
  <2>1. SUFFICES ASSUME fdOf[d] # 0 PROVE StageInv(d)' BY DEF StageInv, Same
  <2>2. CASE Greeting(d) BY <1>1, <2>1, <2>2 DEF Greeting, StageInv, Same
  <2>3. CASE Listening(d) BY <1>1, <2>1, <2>3 DEF Listening, StageInv, Same
  <2>4. CASE Replying(d) BY <1>1, <2>1, <2>4 DEF Replying, StageInv, Same, Answered
  <2>5. CASE Judged(d) BY <2>1, <2>5 DEF Judged, StageInv, Same, Answered, ItemsSame
  <2> QED BY <2>1, <2>2, <2>3, <2>4, <2>5 DEF OneInv, StageInv
<1>4. EdgeInv(d)' BY DEF EdgeInv, OneInv, Same, Readable
<1>5. HeardInv(d)' BY <1>1 DEF HeardInv, OneInv, Same
<1> QED BY <1>2, <1>3, <1>4, <1>5 DEF OneInv

\* Nothing happens to the items.
LEMMA ItemsStay ==
    ASSUME UNCHANGED <<queue, busy, tasks>>
    PROVE  /\ \A d : ItemsSame(d) /\ (NoItem(d)' <=> NoItem(d))
           /\ Pending' = Pending /\ Posted' = Posted
           /\ UniqueInv => UniqueInv'
  BY DEF ItemsSame, NoItem, UniqueInv, Pending, Posted, Elems

-----------------------------------------------------------------------------
\* Types of the fields.
LEMMA EntryType ==
    ASSUME NEW e \in Entries
    PROVE  /\ e.conn \in Conns \cup {0} /\ e.in \in BOOLEAN /\ e.edge \in BOOLEAN
           /\ e.reader \in Conns \cup {0} /\ e.out \in Seq(Outs)
           /\ e.out # <<>> => e.out[1] \in Outs
  BY DEF Entries

\* What the loop's operations make of an entry.
LEMMA AsyncReadIs ==
    ASSUME NEW e \in Entries, NEW k \in Conns
    PROVE  /\ AsyncRead(e, k) \in Entries
           /\ AsyncRead(e, k).conn = e.conn /\ AsyncRead(e, k).in = TRUE
           /\ AsyncRead(e, k).reader = k /\ AsyncRead(e, k).out = e.out
           /\ AsyncRead(e, k).edge = Readable(e.conn, got'[e.conn])
<1> DEFINE b == Readable(e.conn, got'[e.conn])
<1>1. b \in BOOLEAN BY Zenon DEF Readable
<1> HIDE DEF b
<1>2. AsyncRead(e, k) = [e EXCEPT !.in = TRUE, !.reader = k, !.edge = b] BY DEF AsyncRead, b
<1>3. [e EXCEPT !.in = TRUE, !.reader = k, !.edge = b] \in Entries BY <1>1 DEF Entries
<1> QED BY <1>2, <1>3 DEF Entries, b

\* async_write: the one reply that is pending, and no reads.
LEMMA AsyncWriteIs ==
    ASSUME NEW e \in Entries, NEW k \in Conns, NEW line \in Nat, NEW reply \in Replies,
           NEW then \in Thens
    PROVE  LET w == AsyncWrite(e, k, line, reply, then)
           IN  /\ w \in Entries /\ w.conn = e.conn /\ ~w.in /\ ~w.edge /\ w.reader = e.reader
               /\ w.out = <<[k |-> k, line |-> line, reply |-> reply, then |-> then]>>
               /\ w.out # <<>>
<1> DEFINE o == [k |-> k, line |-> line, reply |-> reply, then |-> then]
<1>1. o \in Outs BY DEF Outs
<1> HIDE DEF o
<1>2. <<o>> \in Seq(Outs) /\ <<o>> # <<>> BY <1>1
<1>3. AsyncWrite(e, k, line, reply, then) = [e EXCEPT !.in = FALSE, !.edge = FALSE, !.out = <<o>>]
  BY DEF AsyncWrite, o
<1>4. [e EXCEPT !.in = FALSE, !.edge = FALSE, !.out = <<o>>] \in Entries BY <1>2 DEF Entries
<1> QED BY <1>2, <1>3, <1>4 DEF Entries, o

\* A number that is not in the map.
LEMMA NoEntryType == NoEntry \in Entries
<1>1. <<>> \in Seq(Outs) BY EmptySeq
<1> QED BY <1>1 DEF NoEntry, Entries

\* close_session of an open connection's number closes that connection.
LEMMA CloseSessionIs ==
    ASSUME TypeOK, OwnInv, NEW k \in Conns, NEW fd \in Fds, fdOf[k] = fd, CloseSession(fd)
    PROVE  /\ sessions' = [sessions EXCEPT ![fd] = 0]
           /\ sess' = [sess EXCEPT ![k].closed = TRUE]
           /\ fds' = [fds EXCEPT ![fd] = NoEntry]
           /\ fdOf' = [fdOf EXCEPT ![k] = 0]
           /\ count' = count - 1 /\ ips' = [ips EXCEPT ![IpOf[k]] = @ - 1]
<1>1. fd # 0 /\ k # 0 BY Consts
<1>2. sessions[fd] = k /\ fds[fd].conn = k /\ \A d \in Conns : fdOf[d] = fd <=> d = k
  BY <1>1 DEF OwnInv
<1>3. fds[fd] # NoEntry BY <1>1, <1>2 DEF NoEntry
<1>4. fdOf' = [d \in Conns |-> IF fdOf[d] = fd /\ fds[fd] # NoEntry THEN 0 ELSE fdOf[d]]
      /\ fds' = [fds EXCEPT ![fd] = NoEntry]
  BY DEF CloseSession, CloseFd
<1>5. fdOf' = [fdOf EXCEPT ![k] = 0] BY <1>2, <1>3, <1>4 DEF TypeOK
<1> QED BY <1>1, <1>2, <1>4, <1>5 DEF CloseSession

-----------------------------------------------------------------------------
(***************************************************************************)
(* pump().                                                                 *)
(***************************************************************************)
LEMMA AppendElems ==
    ASSUME NEW S, NEW s \in Seq(S), NEW x \in S
    PROVE  /\ Append(s, x) \in Seq(S) /\ Elems(Append(s, x)) = Elems(s) \cup {x}
           /\ DOMAIN Append(s, x) = DOMAIN s \cup {Len(s) + 1}
           /\ Append(s, x)[Len(s) + 1] = x /\ \A i \in DOMAIN s : Append(s, x)[i] = s[i]
  BY DEF Elems

\* A sequence is its head and its tail.
LEMMA TailElems ==
    ASSUME NEW S, NEW s \in Seq(S), s # <<>>
    PROVE  /\ Head(s) \in S /\ Tail(s) \in Seq(S) /\ Elems(s) = Elems(Tail(s)) \cup {Head(s)}
           /\ Head(s) = s[1] /\ 1 \in DOMAIN s
           /\ \A i \in DOMAIN Tail(s) : i + 1 \in DOMAIN s /\ Tail(s)[i] = s[i + 1] /\ i \in Nat
                                        /\ i + 1 # 1
<1>1. Head(s) \in S /\ Tail(s) \in Seq(S) /\ Head(s) = s[1] /\ Len(Tail(s)) = Len(s) - 1
      /\ Len(s) \in Nat /\ Len(s) >= 1
  OBVIOUS
<1>2. \A i \in DOMAIN Tail(s) : i + 1 \in DOMAIN s /\ Tail(s)[i] = s[i + 1] /\ i \in Nat
                                /\ i + 1 # 1
  BY <1>1
<1>3. \A i \in DOMAIN s : i = 1 \/ (i - 1 \in DOMAIN Tail(s) /\ Tail(s)[i - 1] = s[i])
  BY <1>1
<1>4. 1 \in DOMAIN s BY <1>1
<1>5. Elems(s) \subseteq Elems(Tail(s)) \cup {Head(s)} BY <1>1, <1>3 DEF Elems
<1>6. Elems(Tail(s)) \cup {Head(s)} \subseteq Elems(s) BY <1>1, <1>2, <1>4 DEF Elems
<1> QED BY <1>1, <1>2, <1>4, <1>5, <1>6

\* The session of k is now as given, the others are as in ss.
SessNow(k, ss, o, n, w) ==
    /\ sess' \in [Conns -> Sess] /\ \A d \in Conns : d # k => sess'[d] = ss[d]
    /\ sess'[k].own = o /\ sess'[k].next = n /\ sess'[k].waiting = w
    /\ sess'[k].closed = ss[k].closed

\* Either all lines are taken, or line i starts a reply or makes a message.
LEMMA PumpIs ==
    ASSUME NEW k \in Conns, NEW fd \in Fds, NEW ss \in [Conns -> Sess],
           NEW es \in [Fds -> Entries], got'[k] \in 0 .. Len(Script[k]),
           ss[k].next \in 1 .. got'[k] + 1,
           SameAs(k, ss[k].next - 1, ss[k].own, ss[k].next - 1), Pump(k, fd, ss, es)
    PROVE  \/ \E o \in Owns :
                /\ SameAs(k, got'[k], o, ss[k].next - 1)
                /\ SessNow(k, ss, o, got'[k] + 1, FALSE)
                /\ fds' = [es EXCEPT ![fd] = AsyncRead(es[fd], k)] /\ queue' = queue
           \/ \E i \in ss[k].next .. got'[k] :
                /\ Answered(k, i) /\ Good(Outcome(k, i))
                /\ SameAs(k, i - 1, Play(k)[i - 1].s, ss[k].next - 1)
                /\ SessNow(k, ss, Outcome(k, i).s, i + 1, TRUE)
                /\ \/ /\ Outcome(k, i).reply = "verdict" /\ fds' = es
                      /\ queue' = Append(queue, [k |-> k, fd |-> fd, line |-> i,
                                                 msg |-> Message(Outcome(k, i).s)])
                   \/ /\ Outcome(k, i).reply # "verdict" /\ queue' = queue
                      /\ fds' = [es EXCEPT ![fd] = AsyncWrite(es[fd], k, i, Outcome(k, i).reply,
                                                              Outcome(k, i).then)]
<1> DEFINE n == got'[k]
           s == ss[k]
           p == Pumped(k, s, n)
           a == DispatchLine(k, p.own, Script[k][p.stop])
<1>0. p.stop \in s.next .. n + 1 BY PumpedIs, Zenon
<1>1. /\ SameAs(k, p.stop - 1, p.own, s.next - 1)
      /\ p.stop <= n => a.then # "go on"
  BY PumpedIs, Zenon
<1>2. Len(Script[k]) \in Nat /\ n \in Nat /\ s.next \in Nat /\ s.next >= 1 /\ n <= Len(Script[k])
  BY Consts
<1>3. IF p.stop > n
      THEN /\ sess' = [ss EXCEPT ![k].own = p.own, ![k].next = p.stop, ![k].waiting = FALSE]
           /\ fds' = [es EXCEPT ![fd] = AsyncRead(@, k)]
           /\ UNCHANGED queue
      ELSE /\ sess' = [ss EXCEPT ![k].own = a.s, ![k].next = p.stop + 1, ![k].waiting = TRUE]
           /\ IF a.reply = "verdict"
              THEN /\ queue' = Append(queue, [k |-> k, fd |-> fd, line |-> p.stop,
                                              msg |-> Message(a.s)])
                   /\ fds' = es
              ELSE /\ fds' = [es EXCEPT ![fd] = AsyncWrite(@, k, p.stop, a.reply, a.then)]
                   /\ UNCHANGED queue
  BY Zenon DEF Pump
<1> HIDE DEF a, p, n, s
<1>4. p.stop \in Nat /\ p.stop >= 1 /\ p.stop - 1 \in 0 .. Len(Script[k]) BY <1>0, <1>2
<1>5. p.own = Play(k)[p.stop - 1].s BY <1>1 DEF SameAs
<1>6. p.own \in Owns BY <1>4, <1>5, PlayType DEF Played
<1>7. a = Outcome(k, p.stop) BY <1>5 DEF Outcome, a
<1>9. CASE p.stop > n
  <2>1. p.stop = n + 1 /\ p.stop - 1 = n BY <1>0, <1>2, <1>9
  <2>2. fds' = [es EXCEPT ![fd] = AsyncRead(es[fd], k)] /\ queue' = queue
        /\ sess' = [ss EXCEPT ![k].own = p.own, ![k].next = p.stop, ![k].waiting = FALSE]
    BY <1>3, <1>9
  <2>3. SessNow(k, ss, p.own, n + 1, FALSE)
    <3>1. n + 1 \in Nat BY <1>2
    <3>2. sess' = [ss EXCEPT ![k].own = p.own, ![k].next = n + 1, ![k].waiting = FALSE]
      BY <2>1, <2>2
    <3> QED BY <1>6, <3>1, <3>2 DEF Sess, SessNow
  <2> QED BY <1>1, <1>6, <2>1, <2>2, <2>3 DEF n, s
<1>10. CASE ~(p.stop > n)
  <2>1. p.stop \in s.next .. n /\ p.stop \in 1 .. Len(Script[k]) /\ p.stop <= n
    BY <1>0, <1>2, <1>10
  <2>2. Answered(k, p.stop) BY <1>1, <1>7, <2>1 DEF Answered, SameAs
  <2>3. Good(a) BY <1>6, <2>1, Consts, DispatchGood DEF a
  <2>4. SameAs(k, p.stop - 1, Play(k)[p.stop - 1].s, s.next - 1) BY <1>1, <1>5
  <2>5. SessNow(k, ss, a.s, p.stop + 1, TRUE)
    <3>1. a.s \in Owns BY <2>3, GoodParts, Zenon
    <3>2. p.stop + 1 \in Nat BY <1>4
    <3>3. sess' = [ss EXCEPT ![k].own = a.s, ![k].next = p.stop + 1, ![k].waiting = TRUE]
      BY <1>3, <1>10
    <3> QED BY <3>1, <3>2, <3>3 DEF Sess, SessNow
  <2>6. \/ /\ a.reply = "verdict" /\ fds' = es
           /\ queue' = Append(queue, [k |-> k, fd |-> fd, line |-> p.stop, msg |-> Message(a.s)])
        \/ /\ a.reply # "verdict" /\ queue' = queue
           /\ fds' = [es EXCEPT ![fd] = AsyncWrite(es[fd], k, p.stop, a.reply, a.then)]
    BY <1>3, <1>10
  <2> QED BY <1>7, <2>1, <2>2, <2>3, <2>4, <2>5, <2>6 DEF n, s
<1> QED BY <1>9, <1>10

-----------------------------------------------------------------------------
(***************************************************************************)
(* Steps for one open connection.                                          *)
(***************************************************************************)
\* What a step for connection k leaves alone of the others.
OthersSame(k) ==
    \A d \in Conns : d # k =>
        /\ sess'[d] = sess[d] /\ got'[d] = got[d] /\ sent'[d] = sent[d]
        /\ client'[d] = client[d] /\ replies'[d] = replies[d] /\ mail'[d] = mail[d]
        /\ ItemsSame(d)

\* k stays open: what is left to show is about k.
LEMMA StayOpen ==
    ASSUME TypeOK, SmtpInv, NEW k \in Conns, NEW fd \in Fds, fdOf[k] = fd,
           UNCHANGED <<fdOf, sessions>>,
           \A f \in Fds : f # fd => fds'[f] = fds[f], fds'[fd].conn = k,
           reading' = reading \/ (reading \in {0, fd} /\ reading' \in {0, fd}),
           reading' = fd => fds'[fd].reader # 0,
           ~sess'[k].closed, client'[k] \in {"open", "fin"}, OthersSame(k)
    PROVE  OwnInv' /\ (\A f \in Fds : EntryInv(f)') /\ \A d \in Conns : d # k => OneInv(d)'
<1>1. fd # 0 /\ k # 0 /\ \A d \in Conns : fdOf[d] = fd => d = k
  BY Consts DEF OwnInv, SmtpInv
<1>2. OwnInv'
  <2>1. \A i, j \in Conns : fdOf'[i] # 0 /\ fdOf'[i] = fdOf'[j] => i = j BY DEF OwnInv, SmtpInv
  <2>2. ASSUME NEW d \in Conns, fdOf'[d] # 0
        PROVE  /\ fds'[fdOf'[d]].conn = d /\ sessions'[fdOf'[d]] = d
               /\ ~sess'[d].closed /\ client'[d] \in {"open", "fin"}
    <3>1. CASE d = k BY <1>1, <3>1 DEF OwnInv, SmtpInv
    <3>2. CASE d # k
      <4>1. fdOf[d] \in Fds /\ fdOf[d] # fd BY <1>1, <2>2, <3>2 DEF TypeOK
      <4> QED BY <2>2, <3>2, <4>1 DEF OwnInv, SmtpInv, OthersSame
    <3> QED BY <3>1, <3>2
  <2> QED BY <2>1, <2>2 DEF OwnInv
<1>3. ASSUME NEW f \in Fds PROVE EntryInv(f)'
  <2>1. CASE f = fd BY <2>1 DEF EntryInv
  <2>2. CASE f # fd
    <3>1. fds'[f] = fds[f] /\ EntryInv(f) BY <2>2 DEF SmtpInv
    <3>2. reading' = f => reading = f BY <1>1, <2>2, Consts
    <3> QED BY <3>1, <3>2 DEF EntryInv
  <2> QED BY <2>1, <2>2
<1>4. ASSUME NEW d \in Conns, d # k PROVE OneInv(d)'
  <2>1. OneInv(d) /\ ItemsSame(d) BY <1>4 DEF SmtpInv, OthersSame
  <2>2. Same(d)
    <3>1. fdOf[d] # 0 => fds'[fdOf[d]] = fds[fdOf[d]] /\ (reading = fdOf[d] => reading' = reading)
      <4>1. SUFFICES ASSUME fdOf[d] # 0
                     PROVE  fds'[fdOf[d]] = fds[fdOf[d]] /\ (reading = fdOf[d] => reading' = reading)
        OBVIOUS
      <4>2. fdOf[d] \in Fds /\ fdOf[d] # fd BY <1>1, <1>4, <4>1 DEF TypeOK
      <4> QED BY <4>1, <4>2
    <3> QED BY <1>4, <3>1 DEF Same, OthersSame
  <2> QED BY <2>1, <2>2, Frame
<1> QED BY <1>2, <1>3, <1>4

\* What the reference has been through by line i is something k may have heard.
LEMMA Heard ==
    ASSUME NEW k \in Conns, NEW i \in 0 .. Len(Script[k]), TypeOK,
           got'[k] <= sent'[k], sent'[k] <= Len(Script[k]), sess'[k].next \in 1 .. got'[k] + 1,
           client'[k] # "new", replies'[k] = Play(k)[i].replies,
           \E j \in 0 .. Len(Script[k]) : mail'[k] = Play(k)[j].mail
    PROVE  HeardInv(k)'
  BY DEF HeardInv

\* pump() preserves the invariant, wherever it is called: after new data,
\* or after a reply, with the sessions ss and the descriptors es as they then
\* are and nothing of k with the workers.
LEMMA PumpKeeps ==
    ASSUME TypeOK, SmtpInv, NEW k \in Conns, NEW fd \in Fds, fdOf[k] = fd,
           NEW ss \in [Conns -> Sess], NEW es \in [Fds -> Entries],
           \A d \in Conns : d # k => ss[d] = sess[d], ~ss[k].closed,
           \A f \in Fds : f # fd => es[f] = fds[f],
           es[fd].conn = k, es[fd].reader = k, es[fd].out = <<>>, es[fd].in, NoItem(k),
           got' \in [Conns -> Nat], \A d \in Conns : d # k => got'[d] = got[d],
           got'[k] <= sent[k], ss[k].next \in 1 .. got'[k] + 1,
           SameAs(k, ss[k].next - 1, ss[k].own, ss[k].next - 1),
           replies' \in [Conns -> Seq(Nat \X Replies)],
           \A d \in Conns : d # k => replies'[d] = replies[d],
           replies'[k] = Play(k)[ss[k].next - 1].replies,
           mail[k] = Play(k)[ss[k].next - 1].mail,
           Readable(k, got'[k]) => es[fd].edge \/ reading = fd,
           UNCHANGED <<client, sent, fdOf, reading, sessions, count, ips, busy, tasks, mail>>,
           Pump(k, fd, ss, es)
    PROVE  TypeOK' /\ SmtpInv'
<1> DEFINE j == ss[k].next - 1
           n == got'[k]
<1>1. /\ Len(Script[k]) \in Nat /\ n \in Nat /\ sent[k] \in Nat /\ sent[k] <= Len(Script[k])
      /\ n <= Len(Script[k]) /\ fd # 0 /\ k # 0
  <2>1. HeardInv(k) BY DEF SmtpInv, OneInv
  <2> QED BY <2>1, Consts DEF HeardInv, TypeOK
<1>2. n \in 0 .. Len(Script[k]) /\ j \in 0 .. n /\ j \in 0 .. Len(Script[k]) BY <1>1
<1>3. client[k] \in {"open", "fin"} /\ sessions[fd] = k BY <1>1 DEF SmtpInv, OwnInv
<1>4. reading = fd => es[fd].reader # 0 BY <1>1
<1>5. \/ \E o \in Owns :
                /\ SameAs(k, n, o, j)
                /\ SessNow(k, ss, o, n + 1, FALSE)
                /\ fds' = [es EXCEPT ![fd] = AsyncRead(es[fd], k)] /\ queue' = queue
      \/ \E i \in ss[k].next .. n :
                /\ Answered(k, i) /\ Good(Outcome(k, i))
                /\ SameAs(k, i - 1, Play(k)[i - 1].s, j)
                /\ SessNow(k, ss, Outcome(k, i).s, i + 1, TRUE)
                /\ \/ /\ Outcome(k, i).reply = "verdict" /\ fds' = es
                      /\ queue' = Append(queue, [k |-> k, fd |-> fd, line |-> i,
                                                 msg |-> Message(Outcome(k, i).s)])
                   \/ /\ Outcome(k, i).reply # "verdict" /\ queue' = queue
                      /\ fds' = [es EXCEPT ![fd] = AsyncWrite(es[fd], k, i, Outcome(k, i).reply,
                                                              Outcome(k, i).then)]
  <2>1. got'[k] \in 0 .. Len(Script[k]) BY <1>2
  <2> QED BY <2>1, PumpIs, ZenonT(30)
<1>6. mail'[k] = Play(k)[j].mail /\ replies'[k] = Play(k)[j].replies OBVIOUS
<1> HIDE DEF j, n
<1>7. ASSUME NEW o \in Owns, SameAs(k, n, o, j), SessNow(k, ss, o, n + 1, FALSE),
             fds' = [es EXCEPT ![fd] = AsyncRead(es[fd], k)], queue' = queue
      PROVE  TypeOK' /\ SmtpInv'
  <2> DEFINE e == AsyncRead(es[fd], k)
  <2>1. /\ e \in Entries /\ e.conn = k /\ e.in = TRUE /\ e.reader = k /\ e.out = <<>>
        /\ e.edge = Readable(k, n)
    <3>1. es[fd] \in Entries OBVIOUS
    <3>2. /\ e \in Entries /\ e.conn = es[fd].conn /\ e.in = TRUE /\ e.reader = k
          /\ e.out = es[fd].out /\ e.edge = Readable(es[fd].conn, got'[es[fd].conn])
      BY <3>1, AsyncReadIs, ZenonT(30)
    <3> QED BY <3>2, Zenon DEF n
  <2> HIDE DEF e
  <2>2. /\ fds' \in [Fds -> Entries] /\ fds'[fd] = e
        /\ \A f \in Fds : f # fd => fds'[f] = fds[f]
    BY <1>7, <2>1 DEF e
  <2>3. TypeOK' BY <1>7, <2>2 DEF TypeOK, SessNow
  <2>4. /\ \A d : ItemsSame(d) /\ (NoItem(d)' <=> NoItem(d))
        /\ Pending' = Pending /\ Posted' = Posted /\ UniqueInv'
    BY <1>7, ItemsStay DEF SmtpInv
  <2>5. OthersSame(k) BY <1>7, <2>4 DEF OthersSame, SessNow
  <2>6. ~sess'[k].closed /\ sess'[k].own = o /\ sess'[k].next = n + 1 /\ ~sess'[k].waiting
    BY <1>7 DEF SessNow
  <2>7. OwnInv' /\ (\A f \in Fds : EntryInv(f)') /\ \A d \in Conns : d # k => OneInv(d)'
    BY <1>1, <1>3, <2>1, <2>2, <2>5, <2>6, StayOpen
  <2>8. WorkInv(k)' BY <2>4 DEF WorkInv, NoItem
  <2>9. StageInv(k)'
    <3>1. Listening(k)'
      BY <1>6, <1>7, <2>1, <2>2, <2>4, <2>6 DEF Listening, SameAs, n
    <3> QED BY <3>1 DEF StageInv
  <2>10. EdgeInv(k)' BY <2>1, <2>2 DEF EdgeInv, Readable, n
  <2>11. HeardInv(k)'
    <3>1. sess'[k].next \in 1 .. got'[k] + 1 BY <1>1, <2>6 DEF n
    <3>2. client'[k] # "new" BY <1>3
    <3> QED BY <1>1, <1>2, <1>6, <3>1, <3>2, Heard DEF n
  <2> QED BY <2>3, <2>4, <2>7, <2>8, <2>9, <2>10, <2>11 DEF SmtpInv, OneInv
<1>8. ASSUME NEW i \in ss[k].next .. n, Answered(k, i), Good(Outcome(k, i)),
             SameAs(k, i - 1, Play(k)[i - 1].s, j),
             SessNow(k, ss, Outcome(k, i).s, i + 1, TRUE),
             Outcome(k, i).reply = "verdict", fds' = es,
             queue' = Append(queue, [k |-> k, fd |-> fd, line |-> i,
                                     msg |-> Message(Outcome(k, i).s)])
      PROVE  TypeOK' /\ SmtpInv'
  <2> DEFINE a == Outcome(k, i)
             x == [k |-> k, fd |-> fd, line |-> i, msg |-> Message(a.s)]
  <2>1. i \in 1 .. Len(Script[k]) /\ i \in Nat /\ (i + 1) - 1 = i /\ i + 1 \in 1 .. n + 1
    BY <1>1, <1>8
  <2>2. a.s \in Owns BY <1>8, GoodParts, Zenon
  <2>3. x \in Items /\ x.k = k /\ x.fd = fd /\ x.line = i /\ x.msg = Message(a.s)
    BY <2>1, <2>2, MessageType DEF Items
  <2>4. queue' = Append(queue, x) BY <1>8
  <2> HIDE DEF x, a
  <2>5. /\ queue' \in Seq(Items) /\ Elems(queue') = Elems(queue) \cup {x}
        /\ DOMAIN queue' = DOMAIN queue \cup {Len(queue) + 1}
        /\ queue'[Len(queue) + 1] = x /\ \A m \in DOMAIN queue : queue'[m] = queue[m]
    BY <2>3, <2>4, AppendElems DEF TypeOK
  <2>6. TypeOK' BY <1>8, <2>5 DEF TypeOK, SessNow
  <2>7. Pending' = Pending \cup {x} /\ Posted' = Posted BY <2>5 DEF Pending, Posted
  <2>8. UniqueInv'
    <3>1. \A y \in Pending \cup Posted : y.k # x.k BY <2>3 DEF NoItem
    <3>2. \A m \in DOMAIN queue : queue[m] \in Pending BY DEF Pending, Elems
    <3>3. UniqueInv BY DEF SmtpInv
    <3>4. \A l, m \in DOMAIN queue' : queue'[l].k = queue'[m].k => l = m
      BY <2>5, <3>1, <3>2, <3>3 DEF UniqueInv
    <3>5. \A y \in Elems(queue'), z \in busy' : y.k # z.k
      BY <2>5, <3>1, <3>3 DEF UniqueInv, Pending
    <3>6. \A y \in Pending', z \in Posted' : y.k # z.k BY <2>7, <3>1, <3>3 DEF UniqueInv
    <3> QED BY <3>3, <3>4, <3>5, <3>6 DEF UniqueInv
  <2>9. \A d \in Conns : d # k => ItemsSame(d) BY <2>3, <2>7 DEF ItemsSame
  <2>10. OthersSame(k) BY <1>8, <2>9 DEF OthersSame, SessNow
  <2>11. ~sess'[k].closed /\ sess'[k].own = a.s /\ sess'[k].next = i + 1 /\ sess'[k].waiting
    BY <1>8 DEF SessNow, a
  <2>12. OwnInv' /\ (\A f \in Fds : EntryInv(f)') /\ \A d \in Conns : d # k => OneInv(d)'
    BY <1>1, <1>3, <1>4, <1>8, <2>10, <2>11, StayOpen, ZenonT(60)
  <2>13. mail'[k] = Play(k)[i - 1].mail /\ replies'[k] = Play(k)[i - 1].replies
    BY <1>6, <1>8 DEF SameAs
  <2>14. \A y \in (Pending \cup Posted)' : y.k = k => y = x BY <2>7 DEF NoItem
  <2>15. WorkInv(k)'
    <3>1. ItemInv(x)' BY <1>8, <2>3, <2>11 DEF ItemInv, a, Answered
    <3> QED BY <2>3, <2>13, <2>14, <3>1 DEF WorkInv
  <2>16. StageInv(k)'
    <3>1. \A y \in Posted' : y.k # k BY <2>7 DEF NoItem
    <3>2. x \in (Pending \cup Posted)' BY <2>7
    <3>3. sess'[k].next - 1 = i BY <2>1, <2>11
    <3>4. Judged(k)'
      BY <1>8, <2>3, <2>11, <2>13, <3>1, <3>2, <3>3 DEF Judged, a, Answered
    <3> QED BY <3>4 DEF StageInv
  <2>17. EdgeInv(k)' BY <1>8 DEF EdgeInv, Readable
  <2>18. HeardInv(k)'
    <3>1. sess'[k].next \in 1 .. got'[k] + 1 BY <2>1, <2>11 DEF n
    <3>2. client'[k] # "new" BY <1>3
    <3> QED BY <1>1, <1>2, <1>6, <3>1, <3>2, Heard DEF n
  <2> QED BY <2>6, <2>8, <2>12, <2>15, <2>16, <2>17, <2>18 DEF SmtpInv, OneInv
<1>9. ASSUME NEW i \in ss[k].next .. n, Answered(k, i), Good(Outcome(k, i)),
             SameAs(k, i - 1, Play(k)[i - 1].s, j),
             SessNow(k, ss, Outcome(k, i).s, i + 1, TRUE),
             Outcome(k, i).reply # "verdict", queue' = queue,
             fds' = [es EXCEPT ![fd] = AsyncWrite(es[fd], k, i, Outcome(k, i).reply,
                                                  Outcome(k, i).then)]
      PROVE  TypeOK' /\ SmtpInv'
  <2> DEFINE a == Outcome(k, i)
             e == AsyncWrite(es[fd], k, i, a.reply, a.then)
  <2>1. i \in 1 .. Len(Script[k]) /\ i \in Nat /\ (i + 1) - 1 = i /\ i + 1 \in 1 .. n + 1
    BY <1>1, <1>9
  <2>2. a.s \in Owns /\ a.reply \in Replies /\ a.then \in Thens BY <1>9, GoodParts, Zenon
  <2> HIDE DEF a
  <2>3. /\ e \in Entries /\ e.conn = k /\ ~e.in /\ ~e.edge /\ e.reader = k
        /\ e.out = <<[k |-> k, line |-> i, reply |-> a.reply, then |-> a.then]>>
        /\ e.out # <<>>
    BY <2>1, <2>2, AsyncWriteIs
  <2> HIDE DEF e
  <2>4. /\ fds' \in [Fds -> Entries] /\ fds'[fd] = e
        /\ \A f \in Fds : f # fd => fds'[f] = fds[f]
    BY <1>9, <2>3 DEF e, a
  <2>5. TypeOK' BY <1>9, <2>4 DEF TypeOK, SessNow
  <2>6. /\ \A d : ItemsSame(d) /\ (NoItem(d)' <=> NoItem(d))
        /\ Pending' = Pending /\ Posted' = Posted /\ UniqueInv'
    BY <1>9, ItemsStay DEF SmtpInv
  <2>7. OthersSame(k) BY <1>9, <2>6 DEF OthersSame, SessNow
  <2>8. ~sess'[k].closed /\ sess'[k].own = a.s /\ sess'[k].next = i + 1 /\ sess'[k].waiting
    BY <1>9 DEF SessNow, a
  <2>9. OwnInv' /\ (\A f \in Fds : EntryInv(f)') /\ \A d \in Conns : d # k => OneInv(d)'
    BY <1>1, <1>3, <2>3, <2>4, <2>7, <2>8, StayOpen, ZenonT(60)
  <2>10. WorkInv(k)' BY <2>6 DEF WorkInv, NoItem
  <2>11. StageInv(k)'
    <3>1. sess'[k].next - 1 = i BY <2>1, <2>8
    <3>2. replies'[k] = Play(k)[i - 1].replies BY <1>6, <1>9 DEF SameAs
    <3>3. mail'[k] = Play(k)[i].mail
      <4>1. ~Play(k)[i - 1].over BY <1>9 DEF Answered
      <4>2. Play(k)[i].mail = IF Outcome(k, i).reply = "verdict"
                              THEN Append(Play(k)[i - 1].mail, Message(Outcome(k, i).s))
                              ELSE Play(k)[i - 1].mail
        BY <2>1, <4>1, PlayStep, Zenon
      <4>3. Play(k)[i].mail = Play(k)[i - 1].mail BY <1>9, <4>2
      <4> QED BY <1>6, <1>9, <4>3 DEF SameAs
    <3>4. Replying(k)'
      BY <1>9, <2>3, <2>4, <2>6, <2>8, <3>1, <3>2, <3>3 DEF Replying, a, Answered
    <3> QED BY <3>4 DEF StageInv
  <2>12. EdgeInv(k)' BY <2>3, <2>4 DEF EdgeInv
  <2>13. HeardInv(k)'
    <3>1. sess'[k].next \in 1 .. got'[k] + 1 BY <2>1, <2>8 DEF n
    <3>2. client'[k] # "new" BY <1>3
    <3> QED BY <1>1, <1>2, <1>6, <3>1, <3>2, Heard DEF n
  <2> QED BY <2>5, <2>6, <2>9, <2>10, <2>11, <2>12, <2>13 DEF SmtpInv, OneInv
<1> QED BY <1>5, <1>7, <1>8, <1>9

-----------------------------------------------------------------------------
(***************************************************************************)
(* A connection that is closed.                                            *)
(***************************************************************************)
\* The descriptor of k is closed: its session too, unless nothing of k is with
\* the workers.
LEMMA Leaves ==
    ASSUME TypeOK, SmtpInv, NEW k \in Conns, NEW fd \in Fds, fdOf[k] = fd,
           fds' = [fds EXCEPT ![fd] = NoEntry], fdOf' = [fdOf EXCEPT ![k] = 0],
           sessions' \in [Fds -> Conns \cup {0}],
           \A f \in Fds : f # fd => sessions'[f] = sessions[f],
           sess' \in [Conns -> Sess], \A d \in Conns : d # k => sess'[d] = sess[d],
           sess'[k].next = sess[k].next, sess'[k].closed \/ NoItem(k),
           got' \in [Conns -> Nat], \A d \in Conns : d # k => got'[d] = got[d],
           got[k] <= got'[k], got'[k] <= sent[k],
           replies' \in [Conns -> Seq(Nat \X Replies)],
           \A d \in Conns : d # k => replies'[d] = replies[d],
           \/ replies'[k] = replies[k]
           \/ \E i \in 0 .. Len(Script[k]) : replies'[k] = Play(k)[i].replies,
           reading \in {0, fd}, reading' = 0, count' \in Int,
           ips' \in [Ips -> Int],
           UNCHANGED <<client, sent, queue, busy, tasks, mail>>
    PROVE  TypeOK' /\ SmtpInv'
<1>1. /\ fd # 0 /\ k # 0 /\ fds[fd].conn = k /\ client[k] \in {"open", "fin"}
      /\ \A d \in Conns : fdOf[d] = fd => d = k
  BY Consts DEF OwnInv, SmtpInv
<1>2. /\ fds' \in [Fds -> Entries] /\ fds'[fd] = NoEntry
      /\ \A f \in Fds : f # fd => fds'[f] = fds[f]
  BY NoEntryType DEF TypeOK
<1>3. /\ fdOf' \in [Conns -> Fds \cup {0}] /\ fdOf'[k] = 0
      /\ \A d \in Conns : d # k => fdOf'[d] = fdOf[d]
  BY DEF TypeOK
<1>4. TypeOK' BY <1>2, <1>3 DEF TypeOK
<1>5. /\ \A d : ItemsSame(d) /\ (NoItem(d)' <=> NoItem(d))
      /\ Pending' = Pending /\ Posted' = Posted /\ UniqueInv'
  BY ItemsStay DEF SmtpInv
<1>6. OwnInv'
  <2>1. \A i, j \in Conns : fdOf'[i] # 0 /\ fdOf'[i] = fdOf'[j] => i = j
    BY <1>3 DEF OwnInv, SmtpInv
  <2>2. ASSUME NEW d \in Conns, fdOf'[d] # 0
        PROVE  /\ fds'[fdOf'[d]].conn = d /\ sessions'[fdOf'[d]] = d
               /\ ~sess'[d].closed /\ client'[d] \in {"open", "fin"}
    <3>1. d # k /\ fdOf'[d] = fdOf[d] BY <1>3, <2>2
    <3>2. fdOf[d] \in Fds /\ fdOf[d] # fd BY <1>1, <2>2, <3>1 DEF TypeOK
    <3>3. fds'[fdOf[d]] = fds[fdOf[d]] /\ sessions'[fdOf[d]] = sessions[fdOf[d]]
          /\ sess'[d] = sess[d]
      BY <1>2, <3>1, <3>2
    <3> QED BY <2>2, <3>1, <3>3 DEF OwnInv, SmtpInv
  <2> QED BY <2>1, <2>2 DEF OwnInv
<1>7. ASSUME NEW f \in Fds PROVE EntryInv(f)'
  <2>0. reading' # f BY Consts
  <2>1. CASE f = fd BY <1>2, <2>0, <2>1 DEF EntryInv, NoEntry
  <2>2. CASE f # fd
    <3>1. fds'[f] = fds[f] /\ EntryInv(f) BY <1>2, <2>2 DEF SmtpInv
    <3>2. (\A d \in Conns : fdOf'[d] # f) => \A d \in Conns : fdOf[d] # f BY <1>3, <2>2
    <3> QED BY <2>0, <3>1, <3>2 DEF EntryInv
  <2> QED BY <2>1, <2>2
<1>8. ASSUME NEW d \in Conns, d # k PROVE OneInv(d)'
  <2>1. OneInv(d) /\ ItemsSame(d) BY <1>5 DEF SmtpInv
  <2>2. fdOf[d] # 0 => fds'[fdOf[d]] = fds[fdOf[d]] /\ (reading = fdOf[d] => reading' = reading)
    <3>1. SUFFICES ASSUME fdOf[d] # 0
                   PROVE  fds'[fdOf[d]] = fds[fdOf[d]] /\ (reading = fdOf[d] => reading' = reading)
      OBVIOUS
    <3>2. fdOf[d] \in Fds /\ fdOf[d] # fd BY <1>1, <1>8, <3>1 DEF TypeOK
    <3> QED BY <1>2, <3>1, <3>2
  <2>3. Same(d) BY <1>3, <1>8, <2>2 DEF Same
  <2> QED BY <2>1, <2>3, Frame
<1>9. OneInv(k)'
  <2>1. OneInv(k) BY DEF SmtpInv
  <2>2. WorkInv(k)'
    <3>1. CASE NoItem(k) BY <1>5, <3>1 DEF WorkInv, NoItem
    <3>2. CASE sess'[k].closed
      <4>1. ASSUME NEW x \in Pending \cup Posted, x.k = k PROVE ItemInv(x)'
        BY <2>1, <3>2, <4>1 DEF OneInv, WorkInv, ItemInv, Answered
      <4> QED BY <1>5, <2>1, <4>1 DEF OneInv, WorkInv
    <3> QED BY <3>1, <3>2
  <2>3. StageInv(k)' /\ EdgeInv(k)' BY <1>3 DEF StageInv, EdgeInv
  <2>4. HeardInv(k)'
    <3>1. HeardInv(k) BY <2>1 DEF OneInv
    <3>2. sess'[k].next \in 1 .. got'[k] + 1
      <4>1. sess[k].next \in 1 .. got[k] + 1 /\ got[k] \in Nat /\ got'[k] \in Nat
        BY <3>1 DEF HeardInv, TypeOK
      <4> QED BY <4>1
    <3>3. client'[k] # "new" /\ got'[k] <= sent'[k] /\ sent'[k] <= Len(Script[k])
      BY <1>1, <3>1 DEF HeardInv
    <3>4. /\ replies'[k] = <<>> \/ \E i \in 0 .. Len(Script[k]) : replies'[k] = Play(k)[i].replies
          /\ \E i \in 0 .. Len(Script[k]) : mail'[k] = Play(k)[i].mail
      BY <3>1 DEF HeardInv
    <3> QED BY <3>2, <3>3, <3>4 DEF HeardInv
  <2> QED BY <2>2, <2>3, <2>4 DEF OneInv
<1> QED BY <1>4, <1>5, <1>6, <1>7, <1>8, <1>9 DEF SmtpInv

\* close_session for an open connection, wherever it is called.
LEMMA CloseKeeps ==
    ASSUME TypeOK, SmtpInv, NEW k \in Conns, NEW fd \in Fds, fdOf[k] = fd, CloseSession(fd),
           got' \in [Conns -> Nat], \A d \in Conns : d # k => got'[d] = got[d],
           got[k] <= got'[k], got'[k] <= sent[k],
           replies' \in [Conns -> Seq(Nat \X Replies)],
           \A d \in Conns : d # k => replies'[d] = replies[d],
           \/ replies'[k] = replies[k]
           \/ \E i \in 0 .. Len(Script[k]) : replies'[k] = Play(k)[i].replies,
           reading \in {0, fd}, reading' = 0,
           UNCHANGED <<client, sent, queue, busy, tasks, mail>>
    PROVE  TypeOK' /\ SmtpInv'
<1>1. /\ sessions' = [sessions EXCEPT ![fd] = 0]
      /\ sess' = [sess EXCEPT ![k].closed = TRUE]
      /\ fds' = [fds EXCEPT ![fd] = NoEntry]
      /\ fdOf' = [fdOf EXCEPT ![k] = 0]
      /\ count' = count - 1 /\ ips' = [ips EXCEPT ![IpOf[k]] = @ - 1]
  BY CloseSessionIs DEF SmtpInv
<1>2. sessions' \in [Fds -> Conns \cup {0}] /\ \A f \in Fds : f # fd => sessions'[f] = sessions[f]
  BY <1>1 DEF TypeOK
<1>3. /\ sess' \in [Conns -> Sess] /\ \A d \in Conns : d # k => sess'[d] = sess[d]
      /\ sess'[k].next = sess[k].next /\ sess'[k].closed
  BY <1>1 DEF TypeOK, Sess
<1>4. count' \in Int /\ ips' \in [Ips -> Int] BY <1>1 DEF TypeOK, Ips
<1>5. sess'[k].closed \/ NoItem(k) BY <1>3
<1>6. sess'[k].next = sess[k].next /\ fds' = [fds EXCEPT ![fd] = NoEntry] BY <1>1, <1>3
<1>7. fdOf' = [fdOf EXCEPT ![k] = 0] BY <1>1
<1>8. sess' \in [Conns -> Sess] /\ \A d \in Conns : d # k => sess'[d] = sess[d] BY <1>3
<1> QED BY <1>2, <1>4, <1>5, <1>6, <1>7, <1>8, Leaves, Zenon
-----------------------------------------------------------------------------
(***************************************************************************)
(* The clients and the loop's reads.                                       *)
(***************************************************************************)
\* Only an open connection's number has a reader, output or an edge.
LEMMA Owner ==
    ASSUME TypeOK, SmtpInv, NEW fd \in Fds,
           fds[fd].reader # 0 \/ fds[fd].out # <<>> \/ fds[fd].edge
    PROVE  \E k \in Conns : /\ fdOf[k] = fd /\ fds[fd].conn = k /\ sessions[fd] = k
                            /\ ~sess[k].closed /\ client[k] \in {"open", "fin"}
                            /\ Greeting(k) \/ Listening(k) \/ Replying(k) \/ Judged(k)
<1>1. PICK k \in Conns : fdOf[k] = fd BY DEF SmtpInv, EntryInv
<1>2. fd # 0 BY Consts
<1> QED BY <1>1, <1>2 DEF SmtpInv, OwnInv, OneInv, StageInv

\* What the client sends, or its FIN, makes an edge unless a reply is written.
LEMMA ArriveKeeps ==
    ASSUME TypeOK, SmtpInv, NEW k \in Conns, NEW fd \in Fds, fdOf[k] = fd, Edge(k),
           client' \in [Conns -> {"new", "open", "fin", "refused"}], sent' \in [Conns -> Nat],
           \A d \in Conns : d # k => client'[d] = client[d] /\ sent'[d] = sent[d],
           client'[k] \in {"open", "fin"}, sent[k] <= sent'[k], sent'[k] <= Len(Script[k]),
           UNCHANGED <<got, fdOf, reading, sessionVars, workVars, replies>>
    PROVE  TypeOK' /\ SmtpInv'
<1> DEFINE b == fds[fd].edge \/ fds[fd].in
<1>1. fd \in Fds /\ fds[fd] \in Entries /\ fds[fd].conn = k /\ fd # 0 /\ ~sess[k].closed
  BY Consts DEF TypeOK, SmtpInv, OwnInv
<1>2. fds[fd].edge \in BOOLEAN /\ fds[fd].in \in BOOLEAN BY <1>1, EntryType
<1>3. b \in BOOLEAN BY Zenon
<1>4. fds' = [fds EXCEPT ![fd].edge = b] BY DEF Edge
<1> HIDE DEF b
<1>5. /\ fds' \in [Fds -> Entries] /\ \A f \in Fds : f # fd => fds'[f] = fds[f]
      /\ fds'[fd].conn = k /\ fds'[fd].in = fds[fd].in /\ fds'[fd].reader = fds[fd].reader
      /\ fds'[fd].out = fds[fd].out /\ fds'[fd].edge = b
  BY <1>1, <1>3, <1>4 DEF TypeOK, Entries
<1>6. b <=> fds[fd].edge \/ fds[fd].in BY DEF b
<1>7. TypeOK' BY <1>5 DEF TypeOK, sessionVars, workVars
<1>8. /\ \A d : ItemsSame(d) /\ (NoItem(d)' <=> NoItem(d))
      /\ Pending' = Pending /\ Posted' = Posted /\ UniqueInv'
  BY ItemsStay DEF SmtpInv, workVars
<1>9. OthersSame(k) BY <1>8 DEF OthersSame, sessionVars, workVars
<1>10. OwnInv' /\ (\A f \in Fds : EntryInv(f)') /\ \A d \in Conns : d # k => OneInv(d)'
  <2>1. reading = fd => fds'[fd].reader # 0 BY <1>1, <1>5 DEF SmtpInv, EntryInv
  <2>3. UNCHANGED <<fdOf, sessions>> /\ reading' = reading /\ sess' = sess BY DEF sessionVars
  <2> QED BY <1>1, <1>5, <1>9, <2>1, <2>3, StayOpen
<1>11. OneInv(k) BY DEF SmtpInv
<1>12. WorkInv(k)'
  BY <1>8, <1>11 DEF OneInv, WorkInv, ItemInv, Answered, sessionVars, workVars
<1>13. StageInv(k)' /\ EdgeInv(k)'
  <2>0. fdOf[k] = fd /\ fdOf'[k] = fd OBVIOUS
  <2>1. Greeting(k) \/ Listening(k) \/ Replying(k) \/ Judged(k)
    BY <1>1, <1>11 DEF OneInv, StageInv
  <2>u. sess' = sess /\ got' = got /\ replies' = replies /\ mail' = mail /\ fdOf' = fdOf
    BY DEF sessionVars, workVars
  <2>2. CASE Greeting(k)
    <3>1. Greeting(k)' BY <1>5, <1>6, <1>8, <2>0, <2>2, <2>u DEF Greeting
    <3>2. fds'[fd].out # <<>> BY <1>5, <2>0, <2>2 DEF Greeting
    <3> QED BY <2>0, <3>1, <3>2 DEF StageInv, EdgeInv
  <2>3. CASE Listening(k)
    <3>1. Listening(k)' BY <1>5, <1>8, <2>0, <2>3, <2>u DEF Listening
    <3>2. fds'[fd].edge BY <1>5, <1>6, <2>0, <2>3 DEF Listening
    <3> QED BY <2>0, <3>1, <3>2 DEF StageInv, EdgeInv
  <2>4. CASE Replying(k)
    <3>1. Replying(k)' BY <1>5, <1>6, <1>8, <2>0, <2>4, <2>u, ZenonT(60) DEF Replying, Answered
    <3>2. fds'[fd].out # <<>> BY <1>5, <2>0, <2>4 DEF Replying
    <3> QED BY <2>0, <3>1, <3>2 DEF StageInv, EdgeInv
  <2>5. CASE Judged(k)
    <3>1. Judged(k)' BY <1>5, <1>8, <2>0, <2>5, <2>u, ZenonT(60) DEF Judged, Answered
    <3>2. fds'[fd].edge BY <1>5, <1>6, <2>0, <2>5 DEF Judged
    <3> QED BY <2>0, <3>1, <3>2 DEF StageInv, EdgeInv
  <2> QED BY <2>1, <2>2, <2>3, <2>4, <2>5
<1>14. HeardInv(k)'
  <2>1. HeardInv(k) BY <1>11 DEF OneInv
  <2>2. got[k] <= sent'[k]
    <3>1. got[k] \in Nat /\ sent[k] \in Nat /\ sent'[k] \in Nat /\ got[k] <= sent[k]
      BY <2>1 DEF TypeOK, HeardInv
    <3> QED BY <3>1
  <2> QED BY <2>1, <2>2 DEF HeardInv, sessionVars, workVars
<1> QED BY <1>7, <1>8, <1>10, <1>12, <1>13, <1>14 DEF SmtpInv, OneInv

\* A client's Send and Leave.
LEMMA SendKeeps ==
    ASSUME TypeOK, SmtpInv, NEW k \in Conns, Send(k) \/ Leave(k)
    PROVE  TypeOK' /\ SmtpInv'
<1> DEFINE fd == fdOf[k]
<1>f. fdOf[k] = fd /\ fd \in Fds BY DEF Send, Leave, TypeOK
<1> HIDE DEF fd
<1>0. /\ sent[k] \in Nat /\ Len(Script[k]) \in Nat /\ sent[k] <= Len(Script[k])
  BY Consts DEF TypeOK, SmtpInv, OneInv, HeardInv
<1>1. CASE Send(k)
  <2>1. /\ sent' \in [Conns -> Nat] /\ sent'[k] = sent[k] + 1
        /\ \A d \in Conns : d # k => sent'[d] = sent[d]
    BY <1>0, <1>1 DEF Send, TypeOK
  <2>2. sent[k] <= sent'[k] /\ sent'[k] <= Len(Script[k]) BY <1>0, <1>1, <2>1 DEF Send
  <2>3. client' = client /\ client[k] = "open" /\ fdOf[k] # 0 /\ Edge(k)
        /\ UNCHANGED <<got, fdOf, reading, sessionVars, workVars, replies>>
    BY <1>1 DEF Send
  <2>4. client' \in [Conns -> {"new", "open", "fin", "refused"}] BY <2>3 DEF TypeOK
  <2> QED BY <2>1, <2>2, <2>3, <2>4, <1>f, ArriveKeeps
<1>2. CASE Leave(k)
  <2>1. /\ client' \in [Conns -> {"new", "open", "fin", "refused"}] /\ client'[k] = "fin"
        /\ \A d \in Conns : d # k => client'[d] = client[d]
    BY <1>2 DEF Leave, TypeOK
  <2>2. sent' = sent /\ fdOf[k] # 0 /\ Edge(k)
        /\ UNCHANGED <<got, fdOf, reading, sessionVars, workVars, replies>>
    BY <1>2 DEF Leave
  <2>3. sent' \in [Conns -> Nat] /\ sent[k] <= sent'[k] /\ sent'[k] <= Len(Script[k])
    BY <1>0, <2>2 DEF TypeOK
  <2> QED BY <1>f, <2>1, <2>2, <2>3, ArriveKeeps
<1> QED BY <1>1, <1>2

\* An EPOLLIN event is one of a connection that has a reader.
LEMMA EventInKeeps ==
    ASSUME TypeOK, SmtpInv, NEW fd \in Fds, EventIn(fd)
    PROVE  TypeOK' /\ SmtpInv'
<1>1. /\ reading = 0 /\ reading' = fd /\ fds[fd].in /\ fds[fd].edge
      /\ fds' = [fds EXCEPT ![fd].edge = FALSE]
      /\ UNCHANGED <<client, sent, got, fdOf, replies, sessions, sess, count, ips, queue, busy,
                     tasks, mail>>
  BY DEF EventIn, LoopFree, clientVars, sessionVars, workVars
<1>2. PICK k \in Conns : /\ fdOf[k] = fd /\ fds[fd].conn = k
                         /\ ~sess[k].closed /\ client[k] \in {"open", "fin"}
                         /\ Greeting(k) \/ Listening(k) \/ Replying(k) \/ Judged(k)
  BY <1>1, Owner
<1>3. Listening(k) \/ Judged(k) BY <1>1, <1>2 DEF Greeting, Replying
<1>4. fd # 0 /\ k # 0 BY Consts
<1>5. /\ fds' \in [Fds -> Entries] /\ \A f \in Fds : f # fd => fds'[f] = fds[f]
      /\ fds'[fd].conn = k /\ fds'[fd].in = fds[fd].in /\ fds'[fd].reader = fds[fd].reader
      /\ fds'[fd].out = fds[fd].out
  BY <1>1, <1>2, ZenonT(60) DEF TypeOK, Entries
<1>6. fds[fd].reader = k BY <1>2, <1>3 DEF Listening, Judged
<1>7. TypeOK' BY <1>1, <1>5 DEF TypeOK
<1>8. /\ \A d : ItemsSame(d) /\ (NoItem(d)' <=> NoItem(d))
      /\ Pending' = Pending /\ Posted' = Posted /\ UniqueInv'
  BY <1>1, ItemsStay DEF SmtpInv
<1>9. OthersSame(k) BY <1>1, <1>8 DEF OthersSame
<1>10. OwnInv' /\ (\A f \in Fds : EntryInv(f)') /\ \A d \in Conns : d # k => OneInv(d)'
  BY <1>1, <1>2, <1>4, <1>5, <1>6, <1>9, StayOpen
<1>11. OneInv(k) BY DEF SmtpInv
<1>12. WorkInv(k)' BY <1>1, <1>8, <1>11 DEF OneInv, WorkInv, ItemInv, Answered
<1>13. StageInv(k)'
  <2>1. CASE Listening(k)
    <3>1. Listening(k)' BY <1>1, <1>2, <1>5, <1>8, <2>1 DEF Listening
    <3> QED BY <3>1 DEF StageInv
  <2>2. CASE Judged(k)
    <3>1. Judged(k)' BY <1>1, <1>2, <1>5, <1>8, <2>2 DEF Judged, Answered
    <3> QED BY <3>1 DEF StageInv
  <2> QED BY <1>3, <2>1, <2>2
<1>14. EdgeInv(k)' BY <1>1, <1>2 DEF EdgeInv
<1>15. HeardInv(k)' BY <1>1, <1>2, <1>11 DEF OneInv, HeardInv
<1> QED BY <1>7, <1>8, <1>10, <1>12, <1>13, <1>14, <1>15 DEF SmtpInv, OneInv

\* One read(): the bytes go to the session that waits for them.
LEMMA ReadLoopKeeps ==
    ASSUME TypeOK, SmtpInv, ReadLoop
    PROVE  TypeOK' /\ SmtpInv'
<1> DEFINE fd == reading
<1>1. fd \in Fds /\ UNCHANGED <<client, sent, busy, tasks, mail, replies>>
  BY DEF ReadLoop, LoopFree, TypeOK, clientVars
<1>2. fds[fd].reader # 0 BY <1>1 DEF SmtpInv, EntryInv
<1>3. PICK k \in Conns : /\ fdOf[k] = fd /\ fds[fd].conn = k
                         /\ ~sess[k].closed /\ client[k] \in {"open", "fin"}
                         /\ Greeting(k) \/ Listening(k) \/ Replying(k) \/ Judged(k)
  BY <1>1, <1>2, Owner
<1>4. Listening(k) \/ Replying(k) \/ Judged(k) BY <1>2, <1>3 DEF Greeting
<1>5. fds[fd].reader = k /\ fds[fd] \in Entries /\ fd # 0 /\ k # 0
  BY <1>1, <1>3, <1>4, Consts DEF Listening, Replying, Judged, TypeOK
<1>6. OneInv(k) BY DEF SmtpInv
<1>7. /\ got[k] \in Nat /\ sent[k] \in Nat /\ got[k] <= sent[k] /\ sent[k] <= Len(Script[k])
      /\ Len(Script[k]) \in Nat /\ sess[k].next \in 1 .. got[k] + 1
  BY <1>6, Consts DEF OneInv, HeardInv, TypeOK
<1> HIDE DEF fd
<1>8. \/ /\ got[k] < sent[k] /\ got' = [got EXCEPT ![k] = sent[k]] /\ OnData(k, fd)
      \/ /\ got' = got /\ CloseSession(fd) /\ reading' = 0 /\ queue' = queue
      \/ /\ got[k] = sent[k] /\ client[k] # "fin" /\ reading' = 0
         /\ UNCHANGED <<got, fdOf, fds, sessions, sess, count, ips, queue>>
  BY <1>3, <1>5 DEF ReadLoop, fd, sessionVars
<1>9. ASSUME got[k] < sent[k], got' = [got EXCEPT ![k] = sent[k]], OnData(k, fd)
      PROVE  TypeOK' /\ SmtpInv'
  <2>1. /\ got' \in [Conns -> Nat] /\ got'[k] = sent[k]
        /\ \A d \in Conns : d # k => got'[d] = got[d]
    BY <1>7, <1>9 DEF TypeOK
  <2>2. got[k] <= got'[k] /\ got'[k] <= sent[k] /\ sess[k].next \in 1 .. got'[k] + 1
    BY <1>7, <1>9, <2>1
  <2>3. replies' \in [Conns -> Seq(Nat \X Replies)] BY <1>1 DEF TypeOK
  <2>4. CASE ~sess[k].waiting
    <3>1. Listening(k) BY <1>4, <2>4 DEF Replying, Judged
    <3>2. Pump(k, fd, sess, fds) /\ UNCHANGED <<fdOf, reading, sessions, count, ips>>
      BY <1>9, <2>4 DEF OnData
    <3>3. sess \in [Conns -> Sess] /\ fds \in [Fds -> Entries] BY DEF TypeOK
    <3>4. sess[k].next - 1 = got[k] BY <1>7, <3>1 DEF Listening
    <3>5. SameAs(k, sess[k].next - 1, sess[k].own, sess[k].next - 1)
      BY <3>1, <3>4 DEF SameAs, Listening
    <3>6. replies'[k] = Play(k)[sess[k].next - 1].replies
          /\ mail[k] = Play(k)[sess[k].next - 1].mail
      BY <1>1, <3>1, <3>4 DEF Listening
    <3>7. fds[fd].out = <<>> /\ fds[fd].in /\ NoItem(k) BY <1>3, <3>1 DEF Listening
    <3>8. reading = fd BY DEF fd
    <3> QED
      BY <1>1, <1>3, <1>5, <2>1, <2>2, <2>3, <3>2, <3>3, <3>5, <3>6, <3>7, <3>8, PumpKeeps, Zenon
  <2>5. CASE sess[k].waiting /\ got'[k] - sess[k].next + 1 > MaxPending
    <3>1. CloseSession(fd) /\ reading' = 0 /\ queue' = queue BY <1>9, <2>5 DEF OnData
    <3>2. reading \in {0, fd} BY DEF fd
    <3> QED BY <1>1, <1>3, <2>1, <2>2, <2>3, <3>1, <3>2, CloseKeeps, Zenon
  <2>6. CASE sess[k].waiting /\ ~(got'[k] - sess[k].next + 1 > MaxPending)
    <3>1. UNCHANGED <<fdOf, fds, reading, sessions, sess, count, ips, queue>>
      BY <1>9, <2>6 DEF OnData, sessionVars
    <3>2. TypeOK' BY <1>1, <2>1, <3>1 DEF TypeOK
    <3>3. /\ \A d : ItemsSame(d) /\ (NoItem(d)' <=> NoItem(d))
          /\ Pending' = Pending /\ Posted' = Posted /\ UniqueInv'
      BY <1>1, <3>1, ItemsStay DEF SmtpInv
    <3>4. OthersSame(k) BY <1>1, <2>1, <3>1, <3>3 DEF OthersSame
    <3>5. OwnInv' /\ (\A f \in Fds : EntryInv(f)') /\ \A d \in Conns : d # k => OneInv(d)'
      BY <1>1, <1>3, <1>5, <3>1, <3>4, StayOpen
    <3>6. WorkInv(k)' BY <1>1, <1>6, <3>1, <3>3 DEF OneInv, WorkInv, ItemInv, Answered
    <3>7. StageInv(k)'
      <4>1. Replying(k) \/ Judged(k) BY <1>4, <2>6 DEF Listening
      <4>2. CASE Replying(k)
        <5>1. Replying(k)' BY <1>1, <3>1, <3>3, <4>2 DEF Replying, Answered
        <5> QED BY <5>1 DEF StageInv
      <4>3. CASE Judged(k)
        <5>1. Judged(k)' BY <1>1, <3>1, <3>3, <4>3 DEF Judged, Answered
        <5> QED BY <5>1 DEF StageInv
      <4> QED BY <4>1, <4>2, <4>3
    <3>8. EdgeInv(k)' BY <1>3, <3>1 DEF EdgeInv, fd
    <3>9. HeardInv(k)'
      <4>1. client[k] # "new" BY <1>3
      <4> QED BY <1>1, <1>6, <2>1, <2>2, <3>1, <4>1 DEF OneInv, HeardInv
    <3> QED BY <3>2, <3>3, <3>5, <3>6, <3>7, <3>8, <3>9 DEF SmtpInv, OneInv
  <2> QED BY <2>4, <2>5, <2>6
<1>10. ASSUME got' = got, CloseSession(fd), reading' = 0, queue' = queue
       PROVE  TypeOK' /\ SmtpInv'
  <2>1. got' \in [Conns -> Nat] /\ replies' \in [Conns -> Seq(Nat \X Replies)]
    BY <1>1, <1>10 DEF TypeOK
  <2>2. got[k] <= got'[k] /\ got'[k] <= sent[k] BY <1>7, <1>10
  <2>3. reading \in {0, fd} BY DEF fd
  <2> QED BY <1>1, <1>3, <1>10, <2>1, <2>2, <2>3, CloseKeeps, Zenon
<1>11. ASSUME got[k] = sent[k], client[k] # "fin", reading' = 0,
              UNCHANGED <<got, fdOf, fds, sessions, sess, count, ips, queue>>
       PROVE  TypeOK' /\ SmtpInv'
  <2>1. TypeOK' BY <1>1, <1>11 DEF TypeOK
  <2>2. /\ \A d : ItemsSame(d) /\ (NoItem(d)' <=> NoItem(d))
        /\ Pending' = Pending /\ Posted' = Posted /\ UniqueInv'
    BY <1>1, <1>11, ItemsStay DEF SmtpInv
  <2>3. OthersSame(k) BY <1>1, <1>11, <2>2 DEF OthersSame
  <2>4. OwnInv' /\ (\A f \in Fds : EntryInv(f)') /\ \A d \in Conns : d # k => OneInv(d)'
    <3>1. reading \in {0, fd} BY DEF fd
    <3> QED BY <1>1, <1>3, <1>5, <1>11, <2>3, <3>1, StayOpen
  <2>5. WorkInv(k)' BY <1>1, <1>6, <1>11, <2>2 DEF OneInv, WorkInv, ItemInv, Answered
  <2>6. StageInv(k)'
    <3>1. CASE Listening(k)
      <4>1. Listening(k)' BY <1>1, <1>11, <2>2, <3>1 DEF Listening
      <4> QED BY <4>1 DEF StageInv
    <3>2. CASE Replying(k)
      <4>1. Replying(k)' BY <1>1, <1>11, <2>2, <3>2 DEF Replying, Answered
      <4> QED BY <4>1 DEF StageInv
    <3>3. CASE Judged(k)
      <4>1. Judged(k)' BY <1>1, <1>11, <2>2, <3>3 DEF Judged, Answered
      <4> QED BY <4>1 DEF StageInv
    <3> QED BY <1>4, <3>1, <3>2, <3>3
  <2>7. EdgeInv(k)' BY <1>1, <1>7, <1>11 DEF EdgeInv, Readable
  <2>8. HeardInv(k)' BY <1>1, <1>6, <1>11, <2>2 DEF OneInv, HeardInv
  <2> QED BY <2>1, <2>2, <2>4, <2>5, <2>6, <2>7, <2>8 DEF SmtpInv, OneInv
<1> QED BY <1>8, <1>9, <1>10, <1>11
-----------------------------------------------------------------------------
(***************************************************************************)
(* The loop's writes, the idle sweep and the accept.                       *)
(***************************************************************************)
\* A reply has been written: the greeting, the last one, or one that is
\* followed by the lines that came in meanwhile.
LEMMA WriteDoneKeeps ==
    ASSUME TypeOK, SmtpInv, NEW fd \in Fds, WriteDone(fd)
    PROVE  TypeOK' /\ SmtpInv'
<1>1. reading = 0 /\ fds[fd].out # <<>> /\ got' = got
      /\ UNCHANGED <<client, sent, reading, busy, tasks, mail>>
  BY DEF WriteDone, LoopFree, clientVars
<1>2. PICK k \in Conns : /\ fdOf[k] = fd /\ fds[fd].conn = k
                         /\ ~sess[k].closed /\ client[k] \in {"open", "fin"}
                         /\ Greeting(k) \/ Listening(k) \/ Replying(k) \/ Judged(k)
  BY <1>1, Owner
<1>3. Greeting(k) \/ Replying(k) BY <1>1, <1>2 DEF Listening, Judged
<1>4. fd # 0 /\ k # 0 /\ fds[fd] \in Entries BY Consts DEF TypeOK
<1>5. OneInv(k) /\ UniqueInv BY DEF SmtpInv
<1>6. /\ got[k] \in Nat /\ sent[k] \in Nat /\ got[k] <= sent[k] /\ sent[k] <= Len(Script[k])
      /\ Len(Script[k]) \in Nat /\ sess[k].next \in 1 .. got[k] + 1
  BY <1>5, Consts DEF OneInv, HeardInv, TypeOK
<1> DEFINE w == fds[fd].out[1]
           r == Readable(k, got[k])
           e0 == [fds[fd] EXCEPT !.out = <<>>, !.in = TRUE, !.edge = r]
           es == [fds EXCEPT ![fd] = e0]
           ss == [sess EXCEPT ![k].own = Continue(@, w.then)]
<1>7. w.k = k BY <1>2, <1>3 DEF Greeting, Replying
<1>8. replies' = [replies EXCEPT ![k] = Append(@, <<w.line, w.reply>>)]
  BY <1>2 DEF WriteDone
<1>9. /\ w.then = "banner" => /\ sess' = ss /\ fds' = [es EXCEPT ![fd] = AsyncRead(@, k)]
                              /\ UNCHANGED <<fdOf, sessions, count, ips, queue>>
      /\ w.then = "close" => CloseSession(fd) /\ UNCHANGED queue
      /\ w.then \notin {"banner", "close"} =>
            Resume(k, fd, ss, es) /\ UNCHANGED <<fdOf, sessions, count, ips>>
  BY <1>2, <1>7 DEF WriteDone
<1>10. r \in BOOLEAN BY Zenon DEF Readable
<1>11. Continue(sess[k].own, w.then) \in Owns
  <2>1. sess[k].own \in Owns BY DEF TypeOK, Sess
  <2> QED BY <2>1, ContinueOwn
<1> HIDE DEF w, r
<1>12. /\ es \in [Fds -> Entries] /\ \A f \in Fds : f # fd => es[f] = fds[f]
       /\ es[fd].conn = k /\ es[fd].reader = fds[fd].reader /\ es[fd].out = <<>>
       /\ es[fd].in = TRUE /\ es[fd].edge = r
  <2>1. <<>> \in Seq(Outs) BY EmptySeq
  <2>2. /\ e0 \in Entries /\ e0.conn = k /\ e0.reader = fds[fd].reader /\ e0.out = <<>>
        /\ e0.in = TRUE /\ e0.edge = r
    BY <1>2, <1>4, <1>10, <2>1 DEF Entries
  <2> HIDE DEF e0
  <2> QED BY <2>2 DEF TypeOK
<1>13. /\ ss \in [Conns -> Sess] /\ \A d \in Conns : d # k => ss[d] = sess[d]
       /\ ss[k].own = Continue(sess[k].own, w.then) /\ ss[k].next = sess[k].next
       /\ ss[k].waiting = sess[k].waiting /\ ss[k].closed = sess[k].closed
  BY <1>11 DEF TypeOK, Sess
<1> HIDE DEF es, ss
<1>14. ASSUME Greeting(k)
       PROVE  TypeOK' /\ SmtpInv'
  <2>1. w.line = 0 /\ w.reply = "220" /\ w.then = "banner" BY <1>2, <1>14 DEF Greeting, w
  <2>2. /\ sess' = ss /\ fds' = [es EXCEPT ![fd] = AsyncRead(es[fd], k)]
        /\ UNCHANGED <<fdOf, sessions, count, ips, queue>>
    BY <1>9, <2>1
  <2> DEFINE e == AsyncRead(es[fd], k)
  <2>3. /\ e \in Entries /\ e.conn = k /\ e.in = TRUE /\ e.reader = k /\ e.out = <<>>
        /\ e.edge = Readable(k, got[k])
    <3>1. es[fd] \in Entries BY <1>12
    <3>2. /\ e \in Entries /\ e.conn = es[fd].conn /\ e.in = TRUE /\ e.reader = k
          /\ e.out = es[fd].out /\ e.edge = Readable(es[fd].conn, got'[es[fd].conn])
      BY <3>1, AsyncReadIs, Zenon
    <3>3. es[fd].conn = k /\ es[fd].out = <<>> /\ got' = got BY <1>1, <1>12
    <3> QED BY <3>2, <3>3, Zenon
  <2> HIDE DEF e
  <2>4. /\ fds' \in [Fds -> Entries] /\ fds'[fd] = e
        /\ \A f \in Fds : f # fd => fds'[f] = fds[f]
    BY <1>12, <2>2, <2>3 DEF e
  <2>5. replies' \in [Conns -> Seq(Nat \X Replies)] /\ replies'[k] = <<<<0, "220">>>>
        /\ \A d \in Conns : d # k => replies'[d] = replies[d]
    <3>1. <<0, "220">> \in Nat \X Replies BY DEF Replies
    <3>2. replies[k] = <<>> BY <1>14 DEF Greeting
    <3>3. Append(replies[k], <<0, "220">>) = <<<<0, "220">>>> BY <3>2
    <3>4. <<<<0, "220">>>> \in Seq(Nat \X Replies) BY <3>1
    <3> QED BY <1>8, <2>1, <3>3, <3>4 DEF TypeOK
  <2>6. TypeOK' BY <1>1, <1>13, <2>2, <2>4, <2>5 DEF TypeOK
  <2>7. /\ \A d : ItemsSame(d) /\ (NoItem(d)' <=> NoItem(d))
        /\ Pending' = Pending /\ Posted' = Posted /\ UniqueInv'
    BY <1>1, <1>5, <2>2, ItemsStay
  <2>8. OthersSame(k) BY <1>1, <1>13, <2>2, <2>5, <2>7 DEF OthersSame
  <2>9. OwnInv' /\ (\A f \in Fds : EntryInv(f)') /\ \A d \in Conns : d # k => OneInv(d)'
    <3>1. ~sess'[k].closed /\ client'[k] \in {"open", "fin"} BY <1>1, <1>2, <1>13, <2>2
    <3>2. reading' = reading /\ fds'[fd].conn = k /\ fds'[fd].reader # 0
      BY <1>1, <1>4, <2>3, <2>4
    <3> QED BY <1>2, <2>2, <2>4, <2>8, <3>1, <3>2, StayOpen
  <2>10. WorkInv(k)'
    <3>1. NoItem(k) BY <1>14 DEF Greeting
    <3> QED BY <2>7, <3>1 DEF WorkInv, NoItem
  <2>11. /\ Play(k)[0].s = Continue(Fresh, "banner") /\ ~Play(k)[0].over
         /\ Play(k)[0].replies = <<<<0, "220">>>>
    BY PlayIs DEF Start
  <2>12. StageInv(k)'
    <3>1. /\ got'[k] = 0 /\ sess'[k].next = got'[k] + 1 /\ ~sess'[k].waiting
          /\ sess'[k].own = Continue(Fresh, "banner") /\ mail'[k] = Play(k)[0].mail
          /\ fdOf'[k] = fd /\ NoItem(k)'
      BY <1>1, <1>2, <1>13, <1>14, <2>1, <2>2, <2>7 DEF Greeting
    <3>2. Listening(k)' BY <2>3, <2>4, <2>5, <2>11, <3>1 DEF Listening
    <3> QED BY <3>2 DEF StageInv
  <2>13. EdgeInv(k)' BY <1>1, <1>2, <2>2, <2>3, <2>4 DEF EdgeInv, Readable
  <2>14. HeardInv(k)'
    <3>1. /\ sess'[k].next \in 1 .. got'[k] + 1 /\ client'[k] # "new"
          /\ got'[k] <= sent'[k] /\ sent'[k] <= Len(Script[k])
      BY <1>1, <1>2, <1>6, <1>13, <2>2
    <3>2. 0 \in 0 .. Len(Script[k]) BY <1>6
    <3>3. replies'[k] = Play(k)[0].replies BY <2>5, <2>11
    <3>4. mail'[k] = Play(k)[0].mail BY <1>1, <1>14 DEF Greeting
    <3> QED BY <3>1, <3>2, <3>3, <3>4, Heard
  <2> QED BY <2>6, <2>7, <2>9, <2>10, <2>12, <2>13, <2>14 DEF SmtpInv, OneInv
<1>15. ASSUME Replying(k)
       PROVE  TypeOK' /\ SmtpInv'
  <2> DEFINE i == sess[k].next - 1
             a == Outcome(k, i)
  <2>1. /\ w.line = i /\ w.reply = a.reply /\ w.then = a.then /\ fds[fd].reader = k
        /\ NoItem(k) /\ sess[k].waiting
        /\ sess[k].own = a.s /\ replies[k] = Play(k)[i - 1].replies /\ mail[k] = Play(k)[i].mail
    BY <1>2, <1>15 DEF Replying, w
  <2>2. i \in 1 .. Len(Script[k]) /\ ~Play(k)[i - 1].over /\ a.then # "go on"
    BY <1>15 DEF Replying, Answered
  <2>i. i \in 1 .. Len(Script[k]) BY <2>2
  <2>3. /\ Good(a)
        /\ Play(k)[i].s = Continue(a.s, a.then)
        /\ Play(k)[i].over = (a.then = "close")
        /\ Play(k)[i].replies = IF a.reply = "" THEN Play(k)[i - 1].replies
                                ELSE Append(Play(k)[i - 1].replies, <<i, a.reply>>)
    BY <2>2, PlayStep, Zenon
  <2>4. a.reply # "" /\ a.reply \in Replies /\ a.then # "banner"
    BY <2>2, <2>3, GoodParts, Zenon
  <2> HIDE DEF a
  <2>8. i \in Nat /\ i \in 0 .. Len(Script[k])
    <3> HIDE DEF i
    <3> QED BY <1>6, <2>i
  <2>5. replies'[k] = Play(k)[i].replies /\ \A d \in Conns : d # k => replies'[d] = replies[d]
    BY <1>8, <2>1, <2>3, <2>4 DEF TypeOK
  <2>6. replies' \in [Conns -> Seq(Nat \X Replies)]
    <3>2. <<i, a.reply>> \in Nat \X Replies BY <2>4, <2>8
    <3>3. Append(replies[k], <<i, a.reply>>) \in Seq(Nat \X Replies)
      BY <3>2, AppendProperties DEF TypeOK
    <3> QED BY <1>8, <2>1, <3>3 DEF TypeOK
  <2>7. got' \in [Conns -> Nat] BY <1>1 DEF TypeOK
  <2> HIDE DEF i
  <2>9. CASE a.then = "close"
    <3>1. CloseSession(fd) /\ queue' = queue BY <1>9, <2>1, <2>9
    <3>2. \E m \in 0 .. Len(Script[k]) : replies'[k] = Play(k)[m].replies BY <2>5, <2>8
    <3>3. got[k] <= got'[k] /\ got'[k] <= sent[k] /\ reading' = 0 /\ reading \in {0, fd}
          /\ \A d \in Conns : d # k => got'[d] = got[d]
      BY <1>1, <1>6
    <3> QED BY <1>1, <1>2, <2>5, <2>6, <2>7, <3>1, <3>2, <3>3, CloseKeeps, Zenon
  <2>10. CASE a.then # "close"
    <3>1. Resume(k, fd, ss, es) /\ UNCHANGED <<fdOf, sessions, count, ips>>
      BY <1>9, <2>1, <2>4, <2>10
    <3>2. ~ss[k].closed BY <1>2, <1>13
    <3>3. Pump(k, fd, ss, es) BY <3>1, <3>2 DEF Resume
    <3>4. ss[k].next - 1 = i BY <1>13 DEF i
    <3>5. ss[k].own = Play(k)[i].s /\ ~Play(k)[i].over BY <1>13, <2>1, <2>3, <2>10
    <3>6. SameAs(k, ss[k].next - 1, ss[k].own, ss[k].next - 1) BY <3>4, <3>5 DEF SameAs
    <3>7. replies'[k] = Play(k)[ss[k].next - 1].replies /\ mail[k] = Play(k)[ss[k].next - 1].mail
      BY <2>1, <2>5, <3>4
    <3>8. /\ got'[k] <= sent[k] /\ ss[k].next \in 1 .. got'[k] + 1
          /\ \A d \in Conns : d # k => got'[d] = got[d]
      BY <1>1, <1>6, <1>13
    <3>9. Readable(k, got'[k]) => es[fd].edge \/ reading = fd BY <1>1, <1>12 DEF r
    <3>10. es[fd].reader = k /\ es[fd].in BY <1>12, <2>1
    <3> QED
      BY <1>1, <1>2, <1>12, <1>13, <2>1, <2>5, <2>6, <2>7, <3>1, <3>2, <3>3, <3>6, <3>7, <3>8, <3>9,
         <3>10, PumpKeeps, ZenonT(30)
  <2> QED BY <2>9, <2>10
<1> QED BY <1>3, <1>14, <1>15

\* The idle sweep closes the session, or the descriptor of one that has not
\* been greeted.
LEMMA ExpireKeeps ==
    ASSUME TypeOK, SmtpInv, NEW fd \in Fds, Expire(fd)
    PROVE  TypeOK' /\ SmtpInv'
<1>1. /\ reading = 0 /\ UNCHANGED <<client, sent, got, reading, queue, busy, tasks, mail, replies>>
  BY DEF Expire, LoopFree, clientVars, workVars
<1>2. PICK k \in Conns : fdOf[k] = fd BY DEF Expire
<1>3. fd # 0 BY Consts
<1>4. /\ got[k] \in Nat /\ sent[k] \in Nat /\ got[k] <= sent[k]
  BY DEF SmtpInv, OneInv, HeardInv, TypeOK
<1>5. /\ got' \in [Conns -> Nat] /\ replies' \in [Conns -> Seq(Nat \X Replies)]
      /\ got[k] <= got'[k] /\ got'[k] <= sent[k] /\ reading \in {0, fd} /\ reading' = 0
      /\ replies'[k] = replies[k] /\ \A d \in Conns : d # k => replies'[d] = replies[d]
      /\ \A d \in Conns : d # k => got'[d] = got[d]
  BY <1>1, <1>4 DEF TypeOK
<1>6. CASE fds[fd].reader # 0
  <2>1. CloseSession(fd) BY <1>6 DEF Expire
  <2> QED BY <1>1, <1>2, <1>5, <2>1, CloseKeeps, Zenon
<1>7. CASE fds[fd].reader = 0
  <2>1. CloseFd(fd) /\ UNCHANGED <<sessions, sess, count, ips>> BY <1>7 DEF Expire, sessionVars
  <2>2. Greeting(k)
    <3>1. k # 0 BY Consts
    <3>2. Greeting(k) \/ Listening(k) \/ Replying(k) \/ Judged(k)
      BY <1>2, <1>3 DEF SmtpInv, OneInv, StageInv
    <3> QED BY <1>2, <1>7, <3>1, <3>2 DEF Listening, Replying, Judged
  <2>3. NoItem(k) BY <2>2 DEF Greeting
  <2>4. fds[fd].conn = k /\ k # 0 /\ \A d \in Conns : fdOf[d] = fd <=> d = k
    BY <1>2, <1>3, Consts DEF SmtpInv, OwnInv
  <2>5. fds[fd] # NoEntry BY <2>4 DEF NoEntry
  <2>6. fds' = [fds EXCEPT ![fd] = NoEntry]
        /\ fdOf' = [d \in Conns |-> IF fdOf[d] = fd /\ fds[fd] # NoEntry THEN 0 ELSE fdOf[d]]
    BY <2>1 DEF CloseFd
  <2>7. fdOf' = [fdOf EXCEPT ![k] = 0]
    <3>1. fdOf' = [d \in Conns |-> IF fdOf[d] = fd /\ fds[fd] # NoEntry THEN 0 ELSE fdOf[d]]
      BY <2>6
    <3>2. fdOf' = [d \in Conns |-> IF d = k THEN 0 ELSE fdOf[d]] BY <2>4, <2>5, <3>1
    <3> QED BY <3>2 DEF TypeOK
  <2>8. /\ sessions' \in [Fds -> Conns \cup {0}] /\ sess' \in [Conns -> Sess]
        /\ count' \in Int /\ ips' \in [Ips -> Int]
    BY <2>1 DEF TypeOK
  <2>9. /\ \A f \in Fds : f # fd => sessions'[f] = sessions[f]
        /\ \A d \in Conns : d # k => sess'[d] = sess[d]
        /\ sess'[k].next = sess[k].next
    BY <2>1
  <2>10. fds' = [fds EXCEPT ![fd] = NoEntry] BY <2>6
  <2> QED BY <1>1, <1>2, <1>5, <2>3, <2>7, <2>8, <2>9, <2>10, Leaves, Zenon
<1> QED BY <1>6, <1>7
\* accept4's number is a free one, and the loop expects nothing of it.
LEMMA FreeNumber ==
    ASSUME TypeOK, SmtpInv, FreeFds # {}
    PROVE  LET fd == CHOOSE f \in FreeFds : \A g \in FreeFds : f <= g
           IN  fd \in Fds /\ \A d \in Conns : fdOf[d] # fd
<1>1. FreeFds \in SUBSET Nat BY Consts DEF FreeFds
<1>2. \E f \in FreeFds : \A g \in FreeFds : f <= g BY <1>1, Least
<1> DEFINE fd == CHOOSE f \in FreeFds : \A g \in FreeFds : f <= g
<1>3. fd \in FreeFds BY <1>2, Zenon
<1> HIDE DEF fd
<1>4. fd \in Fds /\ \A d \in Conns : fdOf[d] # fd BY <1>3 DEF FreeFds
<1> QED BY <1>4 DEF fd

\* A connection is accepted, and greeted, or refused.
LEMMA OnAcceptKeeps ==
    ASSUME TypeOK, SmtpInv, NEW k \in Conns, OnAccept(k)
    PROVE  TypeOK' /\ SmtpInv'
<1> DEFINE fd == CHOOSE f \in FreeFds : \A g \in FreeFds : f <= g
           e0 == [NoEntry EXCEPT !.conn = k, !.in = TRUE]
<1>1. /\ reading = 0 /\ client[k] = "new"
      /\ UNCHANGED <<sent, got, reading, queue, busy, tasks, mail, replies>>
  BY DEF OnAccept, LoopFree, workVars
<1>2. fd \in Fds /\ \A d \in Conns : fdOf[d] # fd
  <2>1. FreeFds # {} BY DEF OnAccept
  <2> QED BY <2>1, FreeNumber
<1>3. \/ /\ client' = [client EXCEPT ![k] = "refused"] /\ fds' = [fds EXCEPT ![fd] = e0]
         /\ UNCHANGED <<fdOf, sessions, sess, count, ips>>
      \/ /\ client' = [client EXCEPT ![k] = "open"] /\ fdOf' = [fdOf EXCEPT ![k] = fd]
         /\ fds' = [fds EXCEPT ![fd] = AsyncWrite(e0, k, 0, "220", "banner")]
         /\ sessions' = [sessions EXCEPT ![fd] = k] /\ count' = count + 1
         /\ ips' = [ips EXCEPT ![IpOf[k]] = @ + 1] /\ sess' = sess
  BY Zenon DEF OnAccept, sessionVars
<1> HIDE DEF fd
<1>4. fd # 0 /\ k # 0 /\ fds[fd] \in Entries BY <1>2, Consts DEF TypeOK
<1>5. /\ e0 \in Entries /\ e0.conn = k /\ e0.reader = 0 /\ e0.out = <<>> /\ ~e0.edge
  <2>1. <<>> \in Seq(Outs) BY EmptySeq
  <2> QED BY <2>1 DEF NoEntry, Entries
<1> HIDE DEF e0
<1>6. /\ \A d : ItemsSame(d) /\ (NoItem(d)' <=> NoItem(d))
      /\ Pending' = Pending /\ Posted' = Posted /\ UniqueInv'
  BY <1>1, ItemsStay DEF SmtpInv
<1>7. /\ got[k] = 0 /\ fdOf[k] = 0 /\ replies[k] = <<>> /\ mail[k] = Play(k)[0].mail /\ NoItem(k)
      /\ sess[k] = [own |-> Fresh, next |-> 1, waiting |-> FALSE, closed |-> FALSE]
      /\ HeardInv(k)
  BY <1>1 DEF SmtpInv, OneInv, HeardInv
<1>8. /\ sess[k].own = Fresh /\ sess[k].next = 1 /\ ~sess[k].waiting /\ ~sess[k].closed BY <1>7
\* What both cases share about the other connections.
<1>9. ASSUME NEW d \in Conns, d # k, sess' = sess, fdOf'[d] = fdOf[d], client'[d] = client[d],
             \A f \in Fds : f # fd => fds'[f] = fds[f]
      PROVE  OneInv(d)'
  <2>1. OneInv(d) /\ ItemsSame(d) BY <1>6 DEF SmtpInv
  <2>2. fdOf[d] # 0 => fds'[fdOf[d]] = fds[fdOf[d]]
    <3>1. fdOf[d] \in Fds \cup {0} /\ fdOf[d] # fd BY <1>2 DEF TypeOK
    <3> QED BY <1>9, <3>1
  <2>3. Same(d) BY <1>1, <1>9, <2>2 DEF Same
  <2> QED BY <2>1, <2>3, Frame
<1>10. WorkInv(k)' BY <1>6, <1>7 DEF WorkInv, NoItem
<1>11. ASSUME client' = [client EXCEPT ![k] = "refused"], fds' = [fds EXCEPT ![fd] = e0],
              UNCHANGED <<fdOf, sessions, sess, count, ips>>
       PROVE  TypeOK' /\ SmtpInv'
  <2>1. /\ fds' \in [Fds -> Entries] /\ fds'[fd] = e0
        /\ \A f \in Fds : f # fd => fds'[f] = fds[f]
    BY <1>2, <1>5, <1>11 DEF TypeOK
  <2>2. /\ client' \in [Conns -> {"new", "open", "fin", "refused"}] /\ client'[k] = "refused"
        /\ \A d \in Conns : d # k => client'[d] = client[d]
    BY <1>11 DEF TypeOK
  <2>3. TypeOK' BY <1>1, <1>11, <2>1, <2>2 DEF TypeOK
  <2>4. OwnInv'
    <3>1. ASSUME NEW d \in Conns, fdOf[d] # 0
          PROVE  /\ fds'[fdOf[d]].conn = d /\ sessions[fdOf[d]] = d
                 /\ ~sess[d].closed /\ client'[d] \in {"open", "fin"}
      <4>1. d # k BY <1>7, <3>1
      <4>2. fdOf[d] \in Fds /\ fdOf[d] # fd BY <1>2, <3>1 DEF TypeOK
      <4>3. fds'[fdOf[d]] = fds[fdOf[d]] /\ client'[d] = client[d] BY <2>1, <2>2, <4>1, <4>2
      <4> QED BY <3>1, <4>3 DEF SmtpInv, OwnInv
    <3> QED BY <1>11, <3>1 DEF SmtpInv, OwnInv
  <2>5. ASSUME NEW f \in Fds PROVE EntryInv(f)'
    <3>1. reading' # f BY <1>1, Consts
    <3>2. CASE f = fd BY <1>5, <2>1, <3>1, <3>2 DEF EntryInv
    <3>3. CASE f # fd
      <4>1. fds'[f] = fds[f] /\ EntryInv(f) BY <2>1, <3>3 DEF SmtpInv
      <4> QED BY <1>11, <3>1, <4>1 DEF EntryInv
    <3> QED BY <3>2, <3>3
  <2>6. \A d \in Conns : d # k => OneInv(d)' BY <1>9, <1>11, <2>1, <2>2
  <2>7. StageInv(k)' /\ EdgeInv(k)' BY <1>7, <1>11 DEF StageInv, EdgeInv
  <2>8. HeardInv(k)' BY <1>1, <1>7, <1>11, <2>2 DEF HeardInv
  <2> QED BY <1>6, <1>10, <2>3, <2>4, <2>5, <2>6, <2>7, <2>8 DEF SmtpInv, OneInv
<1>12. ASSUME client' = [client EXCEPT ![k] = "open"], fdOf' = [fdOf EXCEPT ![k] = fd],
              fds' = [fds EXCEPT ![fd] = AsyncWrite(e0, k, 0, "220", "banner")],
              sessions' = [sessions EXCEPT ![fd] = k], count' = count + 1,
              ips' = [ips EXCEPT ![IpOf[k]] = @ + 1], sess' = sess
       PROVE  TypeOK' /\ SmtpInv'
  <2> DEFINE e == AsyncWrite(e0, k, 0, "220", "banner")
  <2>1. /\ e \in Entries /\ e.conn = k /\ ~e.in /\ ~e.edge /\ e.reader = 0
        /\ e.out = <<[k |-> k, line |-> 0, reply |-> "220", then |-> "banner"]>>
        /\ e.out # <<>>
    <3>1. 0 \in Nat /\ "220" \in Replies /\ "banner" \in Thens BY DEF Replies, Thens
    <3>2. /\ e \in Entries /\ e.conn = e0.conn /\ ~e.in /\ ~e.edge /\ e.reader = e0.reader
          /\ e.out = <<[k |-> k, line |-> 0, reply |-> "220", then |-> "banner"]>>
          /\ e.out # <<>>
      BY <1>5, <3>1, AsyncWriteIs
    <3> QED BY <1>5, <3>2, Zenon
  <2> HIDE DEF e
  <2>2. /\ fds' \in [Fds -> Entries] /\ fds'[fd] = e
        /\ \A f \in Fds : f # fd => fds'[f] = fds[f]
    BY <1>2, <1>12, <2>1 DEF TypeOK, e
  <2>3. /\ client' \in [Conns -> {"new", "open", "fin", "refused"}] /\ client'[k] = "open"
        /\ \A d \in Conns : d # k => client'[d] = client[d]
    BY <1>12 DEF TypeOK
  <2>4. /\ fdOf' \in [Conns -> Fds \cup {0}] /\ fdOf'[k] = fd
        /\ \A d \in Conns : d # k => fdOf'[d] = fdOf[d]
    BY <1>2, <1>12 DEF TypeOK
  <2>5. /\ sessions' \in [Fds -> Conns \cup {0}] /\ sessions'[fd] = k
        /\ \A f \in Fds : f # fd => sessions'[f] = sessions[f]
    BY <1>2, <1>12 DEF TypeOK
  <2>6. count' \in Int /\ ips' \in [Ips -> Int] BY <1>12 DEF TypeOK, Ips
  <2>7. TypeOK' BY <1>1, <1>12, <2>2, <2>3, <2>4, <2>5, <2>6 DEF TypeOK
  <2>8. OwnInv'
    <3>1. \A i, j \in Conns : fdOf'[i] # 0 /\ fdOf'[i] = fdOf'[j] => i = j
      BY <1>2, <2>4 DEF SmtpInv, OwnInv
    <3>2. ASSUME NEW d \in Conns, fdOf'[d] # 0
          PROVE  /\ fds'[fdOf'[d]].conn = d /\ sessions'[fdOf'[d]] = d
                 /\ ~sess'[d].closed /\ client'[d] \in {"open", "fin"}
      <4>1. CASE d = k BY <1>8, <1>12, <2>1, <2>2, <2>3, <2>4, <2>5, <4>1
      <4>2. CASE d # k
        <5>1. fdOf'[d] = fdOf[d] /\ fdOf[d] \in Fds /\ fdOf[d] # fd
          BY <1>2, <2>4, <3>2, <4>2 DEF TypeOK
        <5>2. fds'[fdOf[d]] = fds[fdOf[d]] /\ client'[d] = client[d]
              /\ sessions'[fdOf[d]] = sessions[fdOf[d]]
          BY <2>2, <2>3, <2>5, <4>2, <5>1
        <5> QED BY <1>12, <3>2, <5>1, <5>2 DEF SmtpInv, OwnInv
      <4> QED BY <4>1, <4>2
    <3> QED BY <3>1, <3>2 DEF OwnInv
  <2>9. ASSUME NEW f \in Fds PROVE EntryInv(f)'
    <3>1. reading' # f BY <1>1, Consts
    <3>2. CASE f = fd BY <2>4, <3>1, <3>2 DEF EntryInv
    <3>3. CASE f # fd
      <4>1. fds'[f] = fds[f] /\ EntryInv(f) BY <2>2, <3>3 DEF SmtpInv
      <4>2. (\A d \in Conns : fdOf'[d] # f) => \A d \in Conns : fdOf[d] # f
        <5>1. fdOf[k] # f BY <1>7, Consts
        <5> QED BY <2>4, <5>1
      <4> QED BY <3>1, <4>1, <4>2 DEF EntryInv
    <3> QED BY <3>2, <3>3
  <2>10. \A d \in Conns : d # k => OneInv(d)' BY <1>9, <1>12, <2>2, <2>3, <2>4
  <2>11. StageInv(k)'
    <3>1. Greeting(k)' BY <1>1, <1>6, <1>7, <1>8, <1>12, <2>1, <2>2, <2>4 DEF Greeting
    <3> QED BY <3>1 DEF StageInv
  <2>12. EdgeInv(k)' BY <2>1, <2>2, <2>4 DEF EdgeInv
  <2>13. HeardInv(k)' BY <1>1, <1>7, <1>12, <2>3 DEF HeardInv
  <2> QED BY <1>6, <1>10, <2>7, <2>8, <2>9, <2>10, <2>11, <2>12, <2>13 DEF SmtpInv, OneInv
<1> QED BY <1>3, <1>11, <1>12

-----------------------------------------------------------------------------
(***************************************************************************)
(* The workers and their verdicts.                                         *)
(***************************************************************************)
\* A worker takes the first item of the queue.
LEMMA TakeKeeps ==
    ASSUME TypeOK, SmtpInv, Take
    PROVE  TypeOK' /\ SmtpInv'
<1>1. /\ queue # <<>> /\ queue' = Tail(queue) /\ busy' = busy \cup {Head(queue)}
      /\ UNCHANGED <<client, sent, got, fdOf, fds, reading, sessions, sess, count, ips, tasks,
                     mail, replies>>
  BY DEF Take, clientVars, sessionVars
<1> DEFINE x == Head(queue)
<1>2. /\ x \in Items /\ queue' \in Seq(Items) /\ Elems(queue) = Elems(queue') \cup {x}
      /\ x = queue[1] /\ 1 \in DOMAIN queue
      /\ \A i \in DOMAIN queue' : i + 1 \in DOMAIN queue /\ queue'[i] = queue[i + 1] /\ i \in Nat
                                  /\ i + 1 # 1
  BY <1>1, TailElems DEF TypeOK
<1> HIDE DEF x
<1>3. busy' = busy \cup {x} BY <1>1 DEF x
<1>4. TypeOK' BY <1>1, <1>2, <1>3 DEF TypeOK
<1>5. Pending' = Pending /\ Posted' = Posted BY <1>1, <1>2, <1>3 DEF Pending, Posted
<1>6. \A d : ItemsSame(d) BY <1>5 DEF ItemsSame
<1>7. UniqueInv'
  <2>1. UniqueInv BY DEF SmtpInv
  <2>2. \A i, j \in DOMAIN queue' : queue'[i].k = queue'[j].k => i = j
    <3>1. SUFFICES ASSUME NEW i \in DOMAIN queue', NEW j \in DOMAIN queue',
                          queue'[i].k = queue'[j].k
                   PROVE  i = j
      OBVIOUS
    <3>2. i + 1 = j + 1 BY <1>2, <2>1, <3>1 DEF UniqueInv
    <3>3. i \in Nat /\ j \in Nat BY <1>2
    <3> QED BY <3>2, <3>3
  <2>3. \A y \in Elems(queue') : y.k # x.k
    <3>1. SUFFICES ASSUME NEW i \in DOMAIN queue', queue'[i].k = x.k PROVE FALSE BY DEF Elems
    <3>2. i + 1 = 1 BY <1>2, <2>1, <3>1 DEF UniqueInv
    <3> QED BY <1>2, <3>2
  <2>4. \A y \in busy : y.k # x.k BY <1>2, <2>1 DEF UniqueInv
  <2>5. \A y, z \in busy' : y.k = z.k => y = z BY <1>3, <2>1, <2>4 DEF UniqueInv
  <2>6. \A y \in Elems(queue'), z \in busy' : y.k # z.k BY <1>2, <1>3, <2>1, <2>3 DEF UniqueInv
  <2>7. \A i, j \in DOMAIN tasks' : tasks'[i].k = tasks'[j].k => i = j
    BY <1>1, <2>1 DEF UniqueInv
  <2>8. \A y \in Pending', z \in Posted' : y.k # z.k BY <1>5, <2>1 DEF UniqueInv
  <2> QED BY <2>2, <2>5, <2>6, <2>7, <2>8 DEF UniqueInv
<1>8. \A d \in Conns : OneInv(d)'
  <2>1. SUFFICES ASSUME NEW d \in Conns PROVE OneInv(d)' OBVIOUS
  <2>2. Same(d) BY <1>1 DEF Same
  <2> QED BY <1>6, <2>2, Frame DEF SmtpInv
<1>9. OwnInv' /\ \A f \in Fds : EntryInv(f)' BY <1>1 DEF SmtpInv, OwnInv, EntryInv
<1> QED BY <1>4, <1>7, <1>8, <1>9 DEF SmtpInv

\* The handler has been given the message.
LEMMA FinishKeeps ==
    ASSUME TypeOK, SmtpInv, NEW x \in busy, Finish(x)
    PROVE  TypeOK' /\ SmtpInv'
<1> DEFINE k == x.k
           i == x.line
<1>1. /\ busy' = busy \ {x} /\ mail' = [mail EXCEPT ![k] = Append(@, x.msg)]
      /\ tasks' = Append(tasks, x)
      /\ UNCHANGED <<client, sent, got, fdOf, fds, reading, sessions, sess, count, ips, queue,
                     replies>>
  BY DEF Finish, clientVars, sessionVars
<1>2. x \in Items /\ k \in Conns /\ x.fd \in Fds /\ i \in Nat /\ x.msg \in Messages
  BY DEF TypeOK, Items
<1>3. /\ tasks' \in Seq(Items) /\ Elems(tasks') = Elems(tasks) \cup {x}
      /\ DOMAIN tasks' = DOMAIN tasks \cup {Len(tasks) + 1}
      /\ tasks'[Len(tasks) + 1] = x /\ \A m \in DOMAIN tasks : tasks'[m] = tasks[m]
  BY <1>1, <1>2, AppendElems DEF TypeOK
<1>4. UniqueInv /\ OneInv(k) /\ x \in Pending BY <1>2 DEF SmtpInv, Pending
<1>5. \A y \in Elems(queue) \cup (busy \ {x}) \cup Posted : y.k # k
  BY <1>4 DEF UniqueInv
<1>6. Pending' = Elems(queue) \cup (busy \ {x}) /\ Posted' = Posted \cup {x}
  BY <1>1, <1>3 DEF Pending, Posted
<1>7. \A d : d # k => ItemsSame(d) BY <1>6 DEF ItemsSame, Pending
<1>8. /\ Answered(k, i) /\ Outcome(k, i).reply = "verdict"
      /\ x.msg = Message(Outcome(k, i).s)
      /\ ~sess[k].closed => fdOf[k] = x.fd /\ sess[k].next = i + 1
      /\ mail[k] = Play(k)[i - 1].mail
  BY <1>4 DEF OneInv, WorkInv, ItemInv
<1>9. i \in 1 .. Len(Script[k]) /\ i \in 0 .. Len(Script[k])
  <2>1. i \in 1 .. Len(Script[k]) /\ Len(Script[k]) \in Nat
    BY <1>2, <1>8, Consts DEF Answered
  <2> QED BY <2>1
<1>10. Append(mail[k], x.msg) = Play(k)[i].mail
  <2>1. ~Play(k)[i - 1].over BY <1>8 DEF Answered
  <2>2. Play(k)[i].mail = IF Outcome(k, i).reply = "verdict"
                          THEN Append(Play(k)[i - 1].mail, Message(Outcome(k, i).s))
                          ELSE Play(k)[i - 1].mail
    BY <1>2, <1>9, <2>1, PlayStep, Zenon
  <2> QED BY <1>8, <2>2
<1> HIDE DEF k, i
<1>11. /\ mail' \in [Conns -> Seq(Messages)] /\ mail'[k] = Play(k)[i].mail
       /\ \A d \in Conns : d # k => mail'[d] = mail[d]
  <2>1. Append(mail[k], x.msg) \in Seq(Messages) BY <1>2 DEF TypeOK
  <2> QED BY <1>1, <1>2, <1>10, <2>1 DEF TypeOK
<1>12. TypeOK' BY <1>1, <1>3, <1>11 DEF TypeOK
<1>13. UniqueInv'
  <2>1. \A l, m \in DOMAIN tasks' : tasks'[l].k = tasks'[m].k => l = m
    <3>1. \A m \in DOMAIN tasks : tasks[m].k # x.k BY <1>5 DEF Posted, Elems, k
    <3> QED BY <1>3, <1>4, <3>1 DEF UniqueInv
  <2>2. \A y \in Pending', z \in Posted' : y.k # z.k
    BY <1>4, <1>5, <1>6 DEF UniqueInv, Pending, k
  <2> QED BY <1>1, <1>4, <2>1, <2>2 DEF UniqueInv
<1>14. ASSUME NEW d \in Conns, d # k PROVE OneInv(d)'
  <2>1. Same(d) BY <1>1, <1>11, <1>14 DEF Same
  <2>2. OneInv(d) /\ ItemsSame(d) BY <1>7, <1>14 DEF SmtpInv
  <2> QED BY <2>1, <2>2, Frame
<1>15. OwnInv' /\ \A f \in Fds : EntryInv(f)' BY <1>1 DEF SmtpInv, OwnInv, EntryInv
<1>16. x.k = k /\ x.line = i BY DEF k, i
<1>17. WorkInv(k)'
  <2>1. \A y \in (Pending \cup Posted)' : y.k = k => y = x BY <1>5, <1>6
  <2>2. \A y \in Pending' : y.k # k BY <1>5, <1>6
  <2>3. ItemInv(x)' BY <1>1, <1>8, <1>16 DEF ItemInv, Answered
  <2> QED BY <2>1, <2>2, <2>3 DEF WorkInv
<1>18. StageInv(k)'
  <2>1. SUFFICES ASSUME fdOf[k] # 0 PROVE Judged(k)' BY <1>1 DEF StageInv
  <2>2. ~NoItem(k) BY <1>4, <1>16 DEF NoItem
  <2>3. Judged(k)
    BY <1>4, <2>1, <2>2 DEF OneInv, StageInv, Greeting, Listening, Replying
  <2>4. ~sess[k].closed BY <1>2, <2>1 DEF SmtpInv, OwnInv, k
  <2>5. sess[k].next = i + 1 BY <1>8, <2>4
  <2>6. sess[k].next - 1 = i BY <1>2, <2>5
  <2>7. x \in (Pending \cup Posted)' BY <1>6
  <2> QED BY <1>1, <1>11, <1>16, <2>3, <2>6, <2>7 DEF Judged, Answered
<1>19. EdgeInv(k)' BY <1>1, <1>4 DEF OneInv, EdgeInv, Readable
<1>20. HeardInv(k)'
  <2>1. HeardInv(k) BY <1>4 DEF OneInv
  <2>2. client[k] # "new" BY <1>4, <1>16, <2>1 DEF HeardInv, NoItem
  <2> QED BY <1>1, <1>9, <1>11, <2>1, <2>2 DEF HeardInv
<1> QED BY <1>12, <1>13, <1>14, <1>15, <1>17, <1>18, <1>19, <1>20 DEF SmtpInv, OneInv

\* A posted verdict becomes the reply of its session, if that is still open.
LEMMA TaskKeeps ==
    ASSUME TypeOK, SmtpInv, Task
    PROVE  TypeOK' /\ SmtpInv'
<1>0. PICK t : t = Head(tasks) OBVIOUS
<1> DEFINE k == t.k
           i == t.line
           fd == t.fd
<1>1. /\ reading = 0 /\ tasks # <<>> /\ tasks' = Tail(tasks)
      /\ fds' = IF sess[k].closed THEN fds
                ELSE [fds EXCEPT ![fd] = AsyncWrite(@, k, i, "verdict", "reset")]
      /\ UNCHANGED <<client, sent, got, fdOf, reading, sessions, sess, count, ips, queue, busy,
                     mail, replies>>
  BY <1>0 DEF Task, LoopFree, clientVars, sessionVars
<1>2. /\ t \in Items /\ tasks' \in Seq(Items) /\ Elems(tasks) = Elems(tasks') \cup {t}
      /\ t = tasks[1] /\ 1 \in DOMAIN tasks
      /\ \A m \in DOMAIN tasks' : m + 1 \in DOMAIN tasks /\ tasks'[m] = tasks[m + 1] /\ m \in Nat
                                  /\ m + 1 # 1
  BY <1>0, <1>1, TailElems DEF TypeOK
<1>3. k \in Conns /\ fd \in Fds /\ i \in Nat BY <1>2 DEF Items
<1>4. UniqueInv /\ OneInv(k) BY <1>3 DEF SmtpInv
<1>5. t \in Posted /\ Posted = Posted' \cup {t} /\ Pending' = Pending
  BY <1>1, <1>2 DEF Posted, Pending
<1>6. \A y \in Elems(tasks') : y.k # k
  <2>1. SUFFICES ASSUME NEW m \in DOMAIN tasks', tasks'[m].k = k PROVE FALSE BY DEF Elems
  <2>2. m + 1 = 1 BY <1>2, <1>4, <2>1 DEF UniqueInv
  <2> QED BY <1>2, <2>2
<1>7. NoItem(k)'
  <2>1. \A y \in Pending : y.k # k BY <1>4, <1>5 DEF UniqueInv
  <2>2. \A y \in Posted' : y.k # k BY <1>6 DEF Posted
  <2> QED BY <1>5, <2>1, <2>2 DEF NoItem
<1>8. \A d : d # k => ItemsSame(d) BY <1>5 DEF ItemsSame
<1>9. UniqueInv'
  <2>1. \A l, m \in DOMAIN tasks' : tasks'[l].k = tasks'[m].k => l = m
    <3>1. SUFFICES ASSUME NEW l \in DOMAIN tasks', NEW m \in DOMAIN tasks',
                          tasks'[l].k = tasks'[m].k
                   PROVE  l = m
      OBVIOUS
    <3>2. l + 1 = m + 1 BY <1>2, <1>4, <3>1 DEF UniqueInv
    <3>3. l \in Nat /\ m \in Nat BY <1>2
    <3> QED BY <3>2, <3>3
  <2>2. \A y \in Pending', z \in Posted' : y.k # z.k BY <1>4, <1>5 DEF UniqueInv
  <2> QED BY <1>1, <1>4, <2>1, <2>2 DEF UniqueInv
<1>10. t.k = k /\ t.line = i /\ t.fd = fd OBVIOUS
<1>11. /\ Answered(k, i) /\ Outcome(k, i).reply = "verdict"
       /\ ~sess[k].closed => fdOf[k] = fd /\ sess[k].next = i + 1
  <2>1. ItemInv(t) BY <1>4, <1>5 DEF OneInv, WorkInv
  <2> QED BY <2>1 DEF ItemInv
<1> HIDE DEF k, i, fd
<1>12. WorkInv(k)' BY <1>7 DEF WorkInv, NoItem
<1>13. HeardInv(k)' BY <1>1, <1>4, <1>7 DEF OneInv, HeardInv
<1>14. CASE sess[k].closed
  <2>1. fds' = fds BY <1>1, <1>14
  <2>2. TypeOK' BY <1>1, <1>2, <2>1 DEF TypeOK
  <2>3. OwnInv' /\ \A f \in Fds : EntryInv(f)' BY <1>1, <2>1 DEF SmtpInv, OwnInv, EntryInv
  <2>4. ASSUME NEW d \in Conns, d # k PROVE OneInv(d)'
    <3>1. Same(d) BY <1>1, <2>1 DEF Same
    <3>2. OneInv(d) /\ ItemsSame(d) BY <1>8, <2>4 DEF SmtpInv
    <3> QED BY <3>1, <3>2, Frame
  <2>5. fdOf'[k] = 0 BY <1>1, <1>3, <1>14 DEF SmtpInv, OwnInv
  <2>6. StageInv(k)' /\ EdgeInv(k)' BY <2>5 DEF StageInv, EdgeInv
  <2> QED BY <1>9, <1>12, <1>13, <2>2, <2>3, <2>4, <2>6 DEF SmtpInv, OneInv
<1>15. CASE ~sess[k].closed
  <2> DEFINE e == AsyncWrite(fds[fd], k, i, "verdict", "reset")
             a == Outcome(k, i)
  <2>1. fds' = [fds EXCEPT ![fd] = e] /\ fdOf[k] = fd /\ sess[k].next = i + 1 /\ fd # 0
        /\ fds[fd] \in Entries
    BY <1>1, <1>3, <1>11, <1>15, Consts DEF TypeOK
  <2>2. Judged(k)
    <3>1. ~NoItem(k) BY <1>5, <1>10 DEF NoItem
    <3> QED BY <1>4, <2>1, <3>1 DEF OneInv, StageInv, Greeting, Listening, Replying
  <2>3. fds[fd].conn = k /\ client[k] \in {"open", "fin"} /\ fds[fd].reader = k /\ k # 0
    BY <1>3, <2>1, <2>2, Consts DEF SmtpInv, OwnInv, Judged
  <2>4. /\ e \in Entries /\ e.conn = k /\ ~e.in /\ ~e.edge /\ e.reader = k
        /\ e.out = <<[k |-> k, line |-> i, reply |-> "verdict", then |-> "reset"]>>
        /\ e.out # <<>>
    <3>1. "verdict" \in Replies /\ "reset" \in Thens BY DEF Replies, Thens
    <3>2. /\ e \in Entries /\ e.conn = fds[fd].conn /\ ~e.in /\ ~e.edge
          /\ e.reader = fds[fd].reader
          /\ e.out = <<[k |-> k, line |-> i, reply |-> "verdict", then |-> "reset"]>>
          /\ e.out # <<>>
      BY <1>3, <2>1, <3>1, AsyncWriteIs
    <3> QED BY <2>3, <3>2
  <2> HIDE DEF e
  <2>5. /\ fds' \in [Fds -> Entries] /\ fds'[fd] = e
        /\ \A f \in Fds : f # fd => fds'[f] = fds[f]
    BY <1>3, <2>1, <2>4 DEF TypeOK
  <2>6. TypeOK' BY <1>1, <1>2, <2>5 DEF TypeOK
  <2>7. OthersSame(k) BY <1>1, <1>8 DEF OthersSame
  <2>8. OwnInv' /\ (\A f \in Fds : EntryInv(f)') /\ \A d \in Conns : d # k => OneInv(d)'
    <3>1. ~sess'[k].closed /\ client'[k] \in {"open", "fin"} /\ UNCHANGED <<fdOf, sessions>>
          /\ reading' = reading /\ fds'[fd].conn = k /\ fds'[fd].reader # 0
      BY <1>1, <1>15, <2>3, <2>4, <2>5
    <3> QED BY <1>3, <2>1, <2>5, <2>7, <3>1, StayOpen
  <2>9. StageInv(k)'
    <3>1. sess[k].next - 1 = i /\ sess'[k].next - 1 = i BY <1>1, <1>3, <2>1
    <3>2. mail[k] = Play(k)[i].mail BY <1>5, <1>10, <2>2, <3>1 DEF Judged
    <3>3. a.reply = "verdict" /\ a.then = "reset"
      <4>1. i \in 1 .. Len(Script[k]) /\ ~Play(k)[i - 1].over BY <1>11 DEF Answered
      <4>2. Good(a) BY <1>3, <4>1, PlayStep, Zenon
      <4> HIDE DEF a
      <4>3. a.reply = "verdict" BY <1>11 DEF a
      <4> QED BY <4>2, <4>3, GoodParts
    <3>4. sess[k].own = a.s /\ sess[k].waiting /\ replies[k] = Play(k)[i - 1].replies
      BY <2>2, <3>1 DEF Judged
    <3>5. Answered(k, i)' BY <1>11 DEF Answered
    <3>6. Replying(k)'
      BY <1>1, <1>7, <2>1, <2>4, <2>5, <3>1, <3>2, <3>3, <3>4, <3>5 DEF Replying
    <3> QED BY <3>6 DEF StageInv
  <2>10. EdgeInv(k)' BY <1>1, <2>1, <2>4, <2>5 DEF EdgeInv
  <2> QED BY <1>9, <1>12, <1>13, <2>6, <2>8, <2>9, <2>10 DEF SmtpInv, OneInv
<1> QED BY <1>14, <1>15

-----------------------------------------------------------------------------
(***************************************************************************)
(* The theorems.                                                           *)
(***************************************************************************)
\* The invariant holds at first: nobody has connected.
LEMMA SmtpInit == Init => TypeOK /\ SmtpInv
<1> SUFFICES ASSUME Init PROVE TypeOK /\ SmtpInv OBVIOUS
<1>1. /\ client = [k \in Conns |-> "new"] /\ sent = [k \in Conns |-> 0]
      /\ got = [k \in Conns |-> 0] /\ fdOf = [k \in Conns |-> 0]
      /\ fds = [fd \in Fds |-> NoEntry] /\ reading = 0 /\ sessions = [fd \in Fds |-> 0]
      /\ count = 0 /\ ips = [a \in Ips |-> 0]
      /\ queue = <<>> /\ busy = {} /\ tasks = <<>>
      /\ mail = [k \in Conns |-> <<>>] /\ replies = [k \in Conns |-> <<>>]
  BY DEF Init, Ips
<1> DEFINE s0 == [own |-> Fresh, next |-> 1, waiting |-> FALSE, closed |-> FALSE]
<1>2. sess = [k \in Conns |-> s0] BY DEF Init
<1>3. s0 \in Sess /\ s0.next = 1 /\ s0.closed = FALSE BY FreshOwn DEF Sess
<1>4. /\ <<>> \in Seq(Messages) /\ <<>> \in Seq(Items) /\ <<>> \in Seq(Nat \X Replies)
  BY EmptySeq
<1> HIDE DEF s0
<1>5. TypeOK
  <2>1. sess \in [Conns -> Sess] /\ fds \in [Fds -> Entries] BY <1>1, <1>2, <1>3, NoEntryType
  <2>2. mail \in [Conns -> Seq(Messages)] /\ replies \in [Conns -> Seq(Nat \X Replies)]
        /\ queue \in Seq(Items) /\ tasks \in Seq(Items) /\ busy \in SUBSET Items
    BY <1>1, <1>4
  <2>3. client \in [Conns -> {"new", "open", "fin", "refused"}] /\ sent \in [Conns -> Nat]
        /\ got \in [Conns -> Nat] /\ fdOf \in [Conns -> Fds \cup {0}]
        /\ reading \in Fds \cup {0} /\ sessions \in [Fds -> Conns \cup {0}]
        /\ count \in Int /\ ips \in [Ips -> Int]
    BY <1>1
  <2> QED BY <2>1, <2>2, <2>3 DEF TypeOK
<1>6. OwnInv BY <1>1 DEF OwnInv
<1>7. \A fd \in Fds : EntryInv(fd) BY <1>1, Consts DEF EntryInv, NoEntry
<1>8. Elems(queue) = {} /\ Elems(tasks) = {} BY <1>1 DEF Elems
<1>9. UniqueInv BY <1>1, <1>8 DEF UniqueInv, Posted
<1>10. ASSUME NEW k \in Conns PROVE OneInv(k)
  <2>1. NoItem(k) BY <1>1, <1>8 DEF NoItem, Pending, Posted
  <2>2. WorkInv(k) BY <2>1 DEF WorkInv, NoItem
  <2>3. StageInv(k) /\ EdgeInv(k) BY <1>1 DEF StageInv, EdgeInv
  <2>4. Play(k)[0].mail = <<>> /\ Len(Script[k]) \in Nat BY PlayIs, StartType, Consts
  <2>5. /\ sess[k] = s0 /\ got[k] = 0 /\ sent[k] = 0 /\ fdOf[k] = 0 /\ mail[k] = <<>>
        /\ replies[k] = <<>>
    BY <1>1, <1>2
  <2>6. HeardInv(k)
    <3>1. sess[k].next \in 1 .. got[k] + 1 BY <1>3, <2>5
    <3>2. 0 \in 0 .. Len(Script[k]) /\ 0 <= Len(Script[k]) BY <2>4
    <3> QED BY <2>1, <2>4, <2>5, <3>1, <3>2 DEF HeardInv, s0
  <2> QED BY <2>2, <2>3, <2>6 DEF OneInv
<1> QED BY <1>5, <1>6, <1>7, <1>9, <1>10 DEF SmtpInv

\* Every step preserves it.
LEMMA SmtpStep == TypeOK /\ SmtpInv /\ [Next]_vars => TypeOK' /\ SmtpInv'
<1> SUFFICES ASSUME TypeOK, SmtpInv, [Next]_vars PROVE TypeOK' /\ SmtpInv' OBVIOUS
<1>1. ASSUME UNCHANGED vars PROVE TypeOK' /\ SmtpInv'
  <2>1. UNCHANGED <<client, sent, got, fdOf, fds, reading, sessions, sess, count, ips, queue,
                    busy, tasks, mail, replies>>
    BY <1>1 DEF vars, clientVars, sessionVars, workVars
  <2>2. TypeOK' BY <2>1 DEF TypeOK
  <2>3. (\A d : ItemsSame(d)) /\ UniqueInv' BY <2>1, ItemsStay DEF SmtpInv
  <2>4. \A d \in Conns : OneInv(d)'
    <3>1. SUFFICES ASSUME NEW d \in Conns PROVE OneInv(d)' OBVIOUS
    <3>2. Same(d) BY <2>1 DEF Same
    <3> QED BY <2>3, <3>2, Frame DEF SmtpInv
  <2>5. OwnInv' /\ \A f \in Fds : EntryInv(f)' BY <2>1 DEF SmtpInv, OwnInv, EntryInv
  <2> QED BY <2>2, <2>3, <2>4, <2>5 DEF SmtpInv
<1>2. ASSUME NEW k \in Conns, Send(k) \/ Leave(k) PROVE TypeOK' /\ SmtpInv' BY <1>2, SendKeeps
<1>3. ASSUME NEW k \in Conns, OnAccept(k) PROVE TypeOK' /\ SmtpInv' BY <1>3, OnAcceptKeeps
<1>4. ASSUME NEW fd \in Fds, EventIn(fd) PROVE TypeOK' /\ SmtpInv' BY <1>4, EventInKeeps
<1>5. ASSUME NEW fd \in Fds, WriteDone(fd) PROVE TypeOK' /\ SmtpInv' BY <1>5, WriteDoneKeeps
<1>6. ASSUME NEW fd \in Fds, Expire(fd) PROVE TypeOK' /\ SmtpInv' BY <1>6, ExpireKeeps
<1>7. ASSUME NEW x \in busy, Finish(x) PROVE TypeOK' /\ SmtpInv' BY <1>7, FinishKeeps
<1>8. CASE ReadLoop BY <1>8, ReadLoopKeeps
<1>9. CASE Task BY <1>9, TaskKeeps
<1>10. CASE Take BY <1>10, TakeKeeps
<1> QED BY <1>1, <1>2, <1>3, <1>4, <1>5, <1>6, <1>7, <1>8, <1>9, <1>10 DEF Next

(***************************************************************************)
(* The server's variables keep their types, and every open connection is   *)
(* in one of its four stages with what the client that waits would have    *)
(* been told by then; true also when the idle limit hits a greeting.       *)
(***************************************************************************)
THEOREM SmtpInvariant == Spec => [](TypeOK /\ SmtpInv)
<1>1. Init => TypeOK /\ SmtpInv BY SmtpInit
<1>2. TypeOK /\ SmtpInv /\ [Next]_vars => (TypeOK /\ SmtpInv)' BY SmtpStep
<1> QED BY <1>1, <1>2, PTL DEF Spec

(***************************************************************************)
(* No open connection is forgotten by the loop or the workers (pump,       *)
(* resume, on_data and the edge-triggered events): NothingStuck.           *)
(***************************************************************************)
THEOREM SmtpNothingStuck == Spec => []NothingStuck
<1>1. TypeOK /\ SmtpInv => NothingStuck
  <2> SUFFICES ASSUME TypeOK, SmtpInv, NEW k \in Conns, fdOf[k] # 0
               PROVE  /\ sess[k].waiting => Underway(k)
                      /\ sess[k].next <= got[k] => sess[k].waiting
                      /\ Readable(k, got[k]) =>
                            fds[fdOf[k]].out # <<>> \/ fds[fdOf[k]].edge \/ reading = fdOf[k]
    BY DEF NothingStuck, Open
  <2>1. OneInv(k) /\ got[k] \in Nat BY DEF SmtpInv, TypeOK
  <2>2. Greeting(k) \/ Listening(k) \/ Replying(k) \/ Judged(k) BY <2>1 DEF OneInv, StageInv
  <2>3. sess[k].waiting => Underway(k)
    <3>1. SUFFICES ASSUME sess[k].waiting PROVE Underway(k) OBVIOUS
    <3>2. Replying(k) \/ Judged(k) BY <2>2, <3>1 DEF Greeting, Listening
    <3>3. CASE Replying(k) BY <3>3 DEF Replying, Underway
    <3>4. CASE Judged(k)
      <4>1. PICK x \in Pending \cup Posted : x.k = k BY <3>4 DEF Judged
      <4>2. x \in ToSet(queue) \cup busy \cup ToSet(tasks)
        BY <4>1 DEF Pending, Posted, Elems, ToSet
      <4> QED BY <4>1, <4>2 DEF Underway
    <3> QED BY <3>2, <3>3, <3>4
  <2>4. sess[k].next <= got[k] => sess[k].waiting
    <3>1. SUFFICES ASSUME ~sess[k].waiting PROVE ~(sess[k].next <= got[k]) OBVIOUS
    <3>2. Greeting(k) \/ Listening(k) BY <2>2, <3>1 DEF Replying, Judged
    <3>3. sess[k].next = got[k] + 1 BY <3>2 DEF Greeting, Listening
    <3> QED BY <2>1, <3>3
  <2> QED BY <2>1, <2>3, <2>4 DEF OneInv, EdgeInv
<1> QED BY <1>1, SmtpInvariant, PTL

(***************************************************************************)
(* What a client hears and what the handler is given is what a client that *)
(* waits for every answer would have heard and handed in, in order, up to  *)
(* some line (on_data, pump, resume): SessionInOrder.                      *)
(***************************************************************************)
THEOREM SmtpSessionInOrder == Spec => []SessionInOrder
<1>1. TypeOK /\ SmtpInv => SessionInOrder
  <2> SUFFICES ASSUME TypeOK, SmtpInv, NEW k \in Conns
               PROVE  IsPrefix(replies[k], Alone[k].replies) /\ IsPrefix(mail[k], Alone[k].mail)
    BY DEF SessionInOrder
  <2> DEFINE n == Len(Script[k])
             all == Play(k)[n]
  <2>1. n \in Nat /\ HeardInv(k) /\ Alone[k] = all BY Consts, PlayIs DEF SmtpInv, OneInv
  <2> HIDE DEF n
  <2>2. n \in 0 .. n /\ \A i \in 0 .. n : n \in i .. n BY <2>1
  <2>3. all \in Played BY <2>2, PlayType DEF n
  <2>4. all.replies \in Seq(Nat \X Replies) /\ all.mail \in Seq(Messages) BY <2>3 DEF Played
  <2>5. replies[k] \in Seq(Nat \X Replies) /\ mail[k] \in Seq(Messages) BY DEF TypeOK
  <2>6. \A i \in 0 .. n : /\ Begins(Play(k)[i].replies, all.replies)
                          /\ Begins(Play(k)[i].mail, all.mail)
    BY <2>2, PlayGrows DEF n
  <2> HIDE DEF all
  <2>7. Begins(replies[k], all.replies)
    <3>1. CASE replies[k] = <<>> BY <2>4, <3>1 DEF Begins
    <3>2. CASE \E i \in 0 .. n : replies[k] = Play(k)[i].replies BY <2>6, <3>2
    <3> QED BY <2>1, <3>1, <3>2 DEF HeardInv, n
  <2>8. Begins(mail[k], all.mail) BY <2>1, <2>6 DEF HeardInv, n
  <2> QED BY <2>1, <2>4, <2>5, <2>7, <2>8, BeginsPrefix
<1> QED BY <1>1, SmtpInvariant, PTL

-----------------------------------------------------------------------------
(***************************************************************************)
(* The counts.                                                             *)
(***************************************************************************)
At(a) == {k \in Open : IpOf[k] = a}

\* The counts are right, and the table has no session of a closed connection.
CountInv ==
    /\ count = Cardinality(Open)
    /\ \A a \in Ips : ips[a] = Cardinality(At(a))
    /\ \A fd \in Fds : sessions[fd] # 0 => fdOf[sessions[fd]] = fd

\* The steps that change the table: one connection opens or one is closed.
Opens(k, fd) ==
    /\ fdOf[k] = 0 /\ \A d \in Conns : fdOf[d] # fd
    /\ fdOf' = [fdOf EXCEPT ![k] = fd] /\ sessions' = [sessions EXCEPT ![fd] = k]
    /\ count' = count + 1 /\ ips' = [ips EXCEPT ![IpOf[k]] = @ + 1]
Closes(k, fd) ==
    /\ fdOf[k] = fd
    /\ fdOf' = [fdOf EXCEPT ![k] = 0] /\ sessions' = [sessions EXCEPT ![fd] = 0]
    /\ count' = count - 1 /\ ips' = [ips EXCEPT ![IpOf[k]] = @ - 1]
TableSame == UNCHANGED <<fdOf, sessions, count, ips>>

\* close_session is called for an open connection's number only.
LEMMA ClosesOne ==
    ASSUME TypeOK, SmtpInv, NEW fd \in Fds, CloseSession(fd), \E k \in Conns : fdOf[k] = fd
    PROVE  \E k \in Conns : Closes(k, fd)
<1>1. PICK k \in Conns : fdOf[k] = fd OBVIOUS
<1>2. Closes(k, fd) BY <1>1, CloseSessionIs DEF SmtpInv, Closes
<1> QED BY <1>2

\* What a step does to the table, when no greeting is cut off.
LEMMA TableStep ==
    ASSUME TypeOK, SmtpInv, ~StallAtBanner, [Next]_vars
    PROVE  \/ TableSame
           \/ \E k \in Conns, fd \in Fds : Opens(k, fd) \/ Closes(k, fd)
<1>1. CASE UNCHANGED vars BY <1>1 DEF vars, sessionVars, TableSame
<1>2. ASSUME NEW k \in Conns, Send(k) \/ Leave(k) PROVE TableSame
  BY <1>2 DEF Send, Leave, sessionVars, TableSame
<1>3. ASSUME NEW k \in Conns, OnAccept(k)
      PROVE  TableSame \/ \E fd \in Fds : Opens(k, fd)
  <2> DEFINE fd == CHOOSE f \in FreeFds : \A g \in FreeFds : f <= g
  <2>1. fd \in Fds /\ \A d \in Conns : fdOf[d] # fd
    <3>1. FreeFds # {} BY <1>3 DEF OnAccept
    <3> QED BY <3>1, FreeNumber
  <2>2. \/ UNCHANGED <<fdOf, sessions, count, ips>>
        \/ /\ fdOf' = [fdOf EXCEPT ![k] = fd] /\ sessions' = [sessions EXCEPT ![fd] = k]
           /\ count' = count + 1 /\ ips' = [ips EXCEPT ![IpOf[k]] = @ + 1]
    BY <1>3, Zenon DEF OnAccept, sessionVars
  <2>3. fdOf[k] = 0 BY <1>3 DEF OnAccept, SmtpInv, OneInv, HeardInv
  <2> HIDE DEF fd
  <2> QED BY <2>1, <2>2, <2>3 DEF TableSame, Opens
<1>4. ASSUME NEW fd \in Fds, EventIn(fd) PROVE TableSame
  BY <1>4 DEF EventIn, sessionVars, TableSame
<1>5. ASSUME NEW fd \in Fds, WriteDone(fd) PROVE TableSame \/ \E k \in Conns : Closes(k, fd)
  <2>1. fds[fd].out # <<>> BY <1>5 DEF WriteDone
  <2>2. \E k \in Conns : fdOf[k] = fd BY <2>1, Owner
  <2>3. TableSame \/ CloseSession(fd) BY <1>5 DEF WriteDone, TableSame
  <2> QED BY <2>2, <2>3, ClosesOne
<1>6. ASSUME NEW fd \in Fds, Expire(fd) PROVE \E k \in Conns : Closes(k, fd)
  <2>1. CloseSession(fd) /\ \E k \in Conns : fdOf[k] = fd BY <1>6 DEF Expire
  <2> QED BY <2>1, ClosesOne
<1>7. ASSUME NEW x \in busy, Finish(x) PROVE TableSame
  BY <1>7 DEF Finish, sessionVars, TableSame
<1>8. CASE Task \/ Take BY <1>8 DEF Task, Take, sessionVars, TableSame
<1>9. ASSUME ReadLoop PROVE TableSame \/ \E k \in Conns, fd \in Fds : Closes(k, fd)
  <2>1. reading \in Fds BY <1>9 DEF ReadLoop, LoopFree, TypeOK
  <2>2. fds[reading].reader # 0 BY <2>1 DEF SmtpInv, EntryInv
  <2>3. \E k \in Conns : fdOf[k] = reading BY <2>1, <2>2, Owner
  <2>4. TableSame \/ CloseSession(reading)
    BY <1>9 DEF ReadLoop, OnData, sessionVars, TableSame
  <2> QED BY <2>1, <2>3, <2>4, ClosesOne
<1> QED BY <1>1, <1>2, <1>3, <1>4, <1>5, <1>6, <1>7, <1>8, <1>9 DEF Next

\* The connections that are open are finitely many.
LEMMA OpenFinite ==
    /\ IsFiniteSet(Open) /\ Cardinality(Open) \in Nat
    /\ \A a : IsFiniteSet(At(a)) /\ Cardinality(At(a)) \in Nat
<1>1. IsFiniteSet(Open) BY Consts, FS_Subset DEF Open
<1>2. \A a : IsFiniteSet(At(a)) BY <1>1, FS_Subset DEF At
<1> QED BY <1>1, <1>2, FS_CardinalityType

\* A step that opens or closes one connection keeps the counts right.
LEMMA CountStep ==
    ASSUME TypeOK, SmtpInv, CountInv, NEW k \in Conns, NEW fd \in Fds,
           Opens(k, fd) \/ Closes(k, fd)
    PROVE  CountInv'
<1>0. fd # 0 /\ k # 0 /\ IpOf[k] \in Ips BY Consts DEF Ips
<1>1. CASE Opens(k, fd)
  <2>1. /\ fdOf[k] = 0 /\ fdOf'[k] = fd /\ \A d \in Conns : d # k => fdOf'[d] = fdOf[d]
    BY <1>1 DEF Opens, TypeOK
  <2>2. Open' = Open \cup {k} /\ k \notin Open BY <1>0, <2>1 DEF Open
  <2>3. count' = Cardinality(Open')
    BY <1>1, <2>2, OpenFinite, FS_AddElement DEF Opens, CountInv
  <2>4. ASSUME NEW a \in Ips PROVE ips'[a] = Cardinality(At(a)')
    <3>1. CASE a = IpOf[k]
      <4>1. At(a)' = At(a) \cup {k} /\ k \notin At(a) BY <2>2, <3>1 DEF At
      <4>2. ips'[a] = ips[a] + 1 BY <1>1, <3>1 DEF Opens, TypeOK
      <4> QED BY <4>1, <4>2, OpenFinite, FS_AddElement DEF CountInv
    <3>2. CASE a # IpOf[k]
      <4>1. At(a)' = At(a) BY <2>2, <3>2 DEF At
      <4>2. ips'[a] = ips[a] BY <1>1, <3>2 DEF Opens, TypeOK
      <4> QED BY <4>1, <4>2 DEF CountInv
    <3> QED BY <3>1, <3>2
  <2>5. ASSUME NEW f \in Fds, sessions'[f] # 0 PROVE fdOf'[sessions'[f]] = f
    <3>1. CASE f = fd
      <4>1. sessions'[f] = k BY <1>1, <3>1 DEF Opens, TypeOK
      <4> QED BY <2>1, <3>1, <4>1
    <3>2. CASE f # fd
      <4>1. sessions'[f] = sessions[f] BY <1>1, <3>2 DEF Opens, TypeOK
      <4>2. sessions[f] \in Conns /\ fdOf[sessions[f]] = f
        BY <2>5, <4>1 DEF TypeOK, CountInv
      <4>3. sessions[f] # k BY <2>1, <4>2, Consts
      <4> QED BY <2>1, <4>1, <4>2, <4>3
    <3> QED BY <3>1, <3>2
  <2> QED BY <2>3, <2>4, <2>5 DEF CountInv
<1>2. CASE Closes(k, fd)
  <2>1. /\ fdOf[k] = fd /\ fdOf'[k] = 0 /\ \A d \in Conns : d # k => fdOf'[d] = fdOf[d]
    BY <1>2 DEF Closes, TypeOK
  <2>2. Open' = Open \ {k} /\ k \in Open BY <1>0, <2>1 DEF Open
  <2>3. count' = Cardinality(Open')
    BY <1>2, <2>2, OpenFinite, FS_RemoveElement DEF Closes, CountInv
  <2>4. ASSUME NEW a \in Ips PROVE ips'[a] = Cardinality(At(a)')
    <3>1. CASE a = IpOf[k]
      <4>1. At(a)' = At(a) \ {k} /\ k \in At(a) BY <2>2, <3>1 DEF At
      <4>2. ips'[a] = ips[a] - 1 BY <1>2, <3>1 DEF Closes, TypeOK
      <4> QED BY <4>1, <4>2, OpenFinite, FS_RemoveElement, ZenonT(60) DEF CountInv
    <3>2. CASE a # IpOf[k]
      <4>1. At(a)' = At(a) BY <2>2, <3>2 DEF At
      <4>2. ips'[a] = ips[a] BY <1>2, <3>2 DEF Closes, TypeOK
      <4> QED BY <4>1, <4>2 DEF CountInv
    <3> QED BY <3>1, <3>2
  <2>5. ASSUME NEW f \in Fds, sessions'[f] # 0 PROVE fdOf'[sessions'[f]] = f
    <3>1. f # fd /\ sessions'[f] = sessions[f] BY <1>2, <2>5 DEF Closes, TypeOK
    <3>2. sessions[f] \in Conns /\ fdOf[sessions[f]] = f BY <2>5, <3>1 DEF TypeOK, CountInv
    <3>3. sessions[f] # k BY <2>1, <3>1, <3>2
    <3> QED BY <2>1, <3>1, <3>2, <3>3
  <2> QED BY <2>3, <2>4, <2>5 DEF CountInv
<1> QED BY <1>1, <1>2

(***************************************************************************)
(* conn_count, the per-address counts and the session table are those of   *)
(* the connections that are open, on every path that closes one            *)
(* (on_accept, close_session, ip_acquire, ip_release): CountsExact.  The   *)
(* hypothesis is needed: a greeting that is cut off by the idle limit is   *)
(* counted for ever.                                                       *)
(***************************************************************************)
THEOREM SmtpCountsExact == ~StallAtBanner => (Spec => []CountsExact)
<1> SUFFICES ASSUME ~StallAtBanner PROVE Spec => []CountsExact OBVIOUS
<1>1. Init => CountInv
  <2> SUFFICES ASSUME Init PROVE CountInv OBVIOUS
  <2>1. Open = {} /\ count = 0 /\ ips = [a \in Ips |-> 0] /\ sessions = [fd \in Fds |-> 0]
    BY DEF Init, Open, Ips
  <2>2. \A a : At(a) = {} BY <2>1 DEF At
  <2> QED BY <2>1, <2>2, FS_EmptySet DEF CountInv
<1>2. TypeOK /\ SmtpInv /\ CountInv /\ [Next]_vars => CountInv'
  <2> SUFFICES ASSUME TypeOK, SmtpInv, CountInv, [Next]_vars PROVE CountInv' OBVIOUS
  <2>1. CASE TableSame BY <2>1 DEF TableSame, CountInv, Open, At
  <2> QED BY <2>1, TableStep, CountStep
<1>3. TypeOK /\ SmtpInv /\ CountInv => CountsExact
  <2> SUFFICES ASSUME TypeOK, SmtpInv, CountInv PROVE CountsExact OBVIOUS
  <2>1. DOMAIN ips = Ips BY DEF TypeOK
  <2>2. \A a \in DOMAIN ips : ips[a] = Cardinality({k \in Open : IpOf[k] = a})
    BY <2>1 DEF CountInv, At
  <2>3. \A k \in Open : ~sess[k].closed BY DEF SmtpInv, OwnInv, Open
  <2>4. ASSUME NEW fd \in Fds
        PROVE  sessions[fd] = IF \E k \in Open : fdOf[k] = fd
                              THEN CHOOSE k \in Open : fdOf[k] = fd ELSE 0
    <3>1. CASE \E k \in Open : fdOf[k] = fd
      <4> DEFINE c == CHOOSE k \in Open : fdOf[k] = fd
      <4>1. c \in Open /\ fdOf[c] = fd BY <3>1, Zenon
      <4> HIDE DEF c
      <4>2. sessions[fd] = c BY <4>1 DEF SmtpInv, OwnInv, Open
      <4> QED BY <3>1, <4>2 DEF c
    <3>2. CASE ~\E k \in Open : fdOf[k] = fd
      <4>1. sessions[fd] = 0
        <5>1. SUFFICES ASSUME sessions[fd] # 0 PROVE FALSE OBVIOUS
        <5>2. sessions[fd] \in Conns /\ fdOf[sessions[fd]] = fd /\ fd # 0
          BY <5>1, Consts DEF TypeOK, CountInv
        <5> QED BY <3>2, <5>2 DEF Open
      <4> QED BY <3>2, <4>1
    <3> QED BY <3>1, <3>2
  <2> QED BY <2>2, <2>3, <2>4 DEF CountsExact, CountInv
<1> QED BY <1>1, <1>2, <1>3, SmtpInvariant, PTL DEF Spec
=============================================================================
