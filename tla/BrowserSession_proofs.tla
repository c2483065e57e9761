----------------------- MODULE BrowserSession_proofs -----------------------
(***************************************************************************)
(* Proofs about BrowserSession, for any number of requests, sessions,      *)
(* forms and pages and for every configuration of the session middleware.  *)
(*                                                                         *)
(* The invariant (Good) says where content can be: a request works on a    *)
(* copy of the session of its own id, an id that a login has given out is  *)
(* known to no other request, and only a request that nobody overlapped    *)
(* may rely on what it has stored.  It is an operator of the state, so     *)
(* that an action that touches the store and a request is two small steps. *)
(***************************************************************************)
EXTENDS BrowserSession, TLAPS

-----------------------------------------------------------------------------
(* What the program does to a session. *)

Sound(s) == (s.inputs # NoFlash => s.inputs = s.errors) /\ Len(s.intend) <= 2

\* The last URL of q is url; there is none while q is empty.
Ends(q, url) == IF q = <<>> THEN url = NoUrl ELSE q[Len(q)] = url

\* Session t is s with the same form, signed in only if s is, and with the same
\* last URL.
Kept(s, t) ==
    /\ t \in Session /\ Sound(t)
    /\ t.form = s.form
    /\ t.auth = "in" => s.auth = "in"
    /\ \A url : Ends(s.intend, url) => Ends(t.intend, url)

LEMMA BlankSession == Blank \in Session /\ Sound(Blank) /\ Ends(Blank.intend, NoUrl)
BY DEF Blank, Session, Flash, Sound, Ends

LEMMA Singleton ==
    ASSUME NEW S, NEW a \in S, NEW b \in S
    PROVE  /\ <<a>> \in Seq(S) /\ Len(<<a>>) = 1 /\ <<a>>[1] = a /\ <<a>> # <<>>
           /\ Append(<<a>>, b) \in Seq(S) /\ Len(Append(<<a>>, b)) = 2
           /\ Append(<<a>>, b)[2] = b /\ Append(<<a>>, b) # <<>>
OBVIOUS

LEMMA SetupIntendKeeps ==
    ASSUME NEW q \in Seq(Page \cup {NoUrl})
    PROVE  /\ SetupIntend(q) \in Seq(Page \cup {NoUrl}) /\ Len(SetupIntend(q)) <= 2
           /\ \A url : Ends(q, url) => Ends(SetupIntend(q), url)
<1>1. CASE q = <<>>
  <2>1. SetupIntend(q) = <<NoUrl>>
      BY <1>1 DEF SetupIntend
  <2> QED BY <1>1, <2>1, Singleton DEF Ends
<1>2. CASE q # <<>>
  <2>1. SetupIntend(q) = <<q[Len(q)]>> /\ q[Len(q)] \in Page \cup {NoUrl}
      BY <1>2 DEF SetupIntend
  <2> QED BY <1>2, <2>1, Singleton DEF Ends
<1> QED BY <1>1, <1>2

LEMMA SetUrlSets ==
    ASSUME NEW q \in Seq(Page \cup {NoUrl}), NEW url \in Page \cup {NoUrl}
    PROVE  /\ SetUrl(q, url) \in Seq(Page \cup {NoUrl}) /\ Len(SetUrl(q, url)) <= 2
           /\ Ends(SetUrl(q, url), url)
<1>1. CASE q = <<>>
    BY <1>1, Singleton DEF SetUrl, GetIntend, Ends
<1>2. CASE q # <<>>
  <2>1. GetIntend(q) = <<Head(q)>> /\ Head(q) \in Page \cup {NoUrl}
      BY <1>2 DEF GetIntend
  <2> QED BY <2>1, Singleton DEF SetUrl, Ends
<1> QED BY <1>1, <1>2

LEMMA EnteredKeeps == ASSUME NEW s \in Session, Sound(s) PROVE Kept(s, Entered(s))
BY SetupIntendKeeps DEF Entered, Kept, Session, Sound

\* A flash replaces both messages, whatever was there.
LEMMA FlashErrorsKeeps ==
    ASSUME NEW s \in Session, Sound(s), NEW route \in Flash, NEW body \in BOOLEAN
    PROVE  Kept(s, FlashErrors(s, route, body))
<1>1. NoFlash \in Flash
    BY DEF Flash
<1> QED BY <1>1 DEF FlashErrors, Kept, Session, Sound

LEMMA EnteredFormKeeps == ASSUME NEW s \in Session, Sound(s) PROVE Kept(s, EnteredForm(s))
<1>1. NoFlash \in Flash
    BY DEF Flash
<1> QED BY <1>1, EnteredKeeps DEF EnteredForm, TakeErrors, TakeInputs, Kept, Session, Sound

LEMMA GuardKeeps ==
    ASSUME NEW s \in Session, Sound(s)
    PROVE  Kept(s, UserFromSession(s)) /\ Kept(s, ResetSession(s)) /\ Kept(s, AfterWebGuard(s))
BY DEF UserFromSession, ResetSession, AfterWebGuard, Kept, Session, Sound

LEMMA PairsKeep ==
    ASSUME NEW s \in Session, Sound(s)
    PROVE  /\ \A route \in Flash, body \in BOOLEAN :
                  Kept(s, FlashErrors(EnteredForm(s), route, body))
           /\ Kept(s, Entered(AfterWebGuard(s)))
           /\ Kept(s, AfterWebGuard(Entered(s)))
<1>1. \A u, v : Kept(s, u) /\ Kept(u, v) => Kept(s, v)
    BY DEF Kept
<1>2. \A u : Kept(s, u) => u \in Session /\ Sound(u)
    BY DEF Kept
<1>3. ASSUME NEW route \in Flash, NEW body \in BOOLEAN
      PROVE  Kept(s, FlashErrors(EnteredForm(s), route, body))
    BY <1>1, <1>2, EnteredFormKeeps, FlashErrorsKeeps
<1>4. Kept(s, Entered(AfterWebGuard(s)))
    BY <1>1, <1>2, EnteredKeeps, GuardKeeps
<1>5. Kept(s, AfterWebGuard(Entered(s)))
    BY <1>1, <1>2, EnteredKeeps, GuardKeeps
<1> QED BY <1>3, <1>4, <1>5

LEMMA RememberingSets ==
    ASSUME NEW s \in Session, Sound(s), NEW url \in Page \cup {NoUrl}
    PROVE  LET t == Remembering(s, url)
           IN  /\ t \in Session /\ Sound(t) /\ t.form = s.form
               /\ t.auth = "in" => s.auth = "in"
               /\ Ends(t.intend, url)
<1>1. SetUrl(s.intend, url) \in Seq(Page \cup {NoUrl}) /\ Len(SetUrl(s.intend, url)) <= 2
      /\ Ends(SetUrl(s.intend, url), url)
    BY SetUrlSets DEF Session
<1> QED BY <1>1 DEF Remembering, Session, Sound

-----------------------------------------------------------------------------
(* The invariant, of store st, cookie ck, requests rq, used forms uf, past pa *)
(* and cleared forms cl.                                                      *)

Past == [shared : BOOLEAN, committed : BOOLEAN, destroyed : BOOLEAN, wanted : Page \cup {NoUrl}]

Typed(st, ck, rq, uf, pa, cl) ==
    /\ DOMAIN st \subseteq Sid /\ st \in [DOMAIN st -> Session]
    /\ ck \in Sid \cup {NoSid}
    /\ rq \in [Req -> Request]
    /\ uf \subseteq Form
    /\ pa \in [Sid -> Past]
    /\ cl \subseteq uf

Holds(q, s) == q.pc # "idle" /\ s \in {q.sid, q.fresh}

\* The forms a request has seen in its session.
Forms(q) == {q.sess.form, q.original.form} \ {NoForm}

\* How far request q is, and what it holds at that point.
Fits(q) ==
    /\ q.pc = "idle" => q = Idle
    /\ q.pc # "idle" => q.sid \in Sid
    /\ q.pc \in {"verified", "issued", "mapped"} => q.kind = "attempt"
    /\ q.kind = "refused" => q.pc \in {"filter", "respond"}
    /\ q.kind \in {"page", "refused"} => q.arg \in Page \cup {NoUrl}
    /\ q.fresh # NoSid => q.pc \in {"mapped", "redirect", "respond"} /\ q.kind = "attempt"
    /\ Sound(q.sess)
    /\ q.kind = "restart" /\ q.pc = "loaded" => q.sess = q.original
    /\ q.kind = "restart" /\ q.pc # "loaded" /\ q.original.form # NoForm =>
          q.sess.form = NoForm /\ q.pc \in {"redirect", "respond"}

\* What request q holds agrees with what was stored and recorded.
Agrees(q, st, uf, pa) ==
    /\ Forms(q) \subseteq uf
    /\ q.fresh # NoSid => pa[q.fresh].wanted = NoUrl
    /\ q.pc # "idle" /\ (q.sess.auth = "in" \/ q.pc = "issued") => pa[q.sid].committed
    /\ q.pc # "idle" /\ ~pa[q.sid].shared =>
          Ends(q.sess.intend, IF q.kind = "refused" THEN q.arg ELSE pa[q.sid].wanted)
    /\ q.kind = "restart" /\ q.pc = "respond" /\ q.original.form # NoForm
         /\ q.alone /\ ~q.failed /\ q.sid \in DOMAIN st => st[q.sid].form = NoForm

\* Session s with content c in the store agrees with what was recorded.
StoredWell(s, c, uf, pa) ==
    /\ Sound(c)
    /\ c.form \in uf \cup {NoForm}
    /\ c.auth = "in" => pa[s].committed
    /\ ~pa[s].shared => Ends(c.intend, pa[s].wanted)

\* A fresh id is nobody else's; a request that is alone is; requests with one id
\* are on record.
IdsApart(r, ck, rq, pa) ==
    /\ rq[r].fresh # NoSid => rq[r].fresh \notin {rq[r].sid, ck}
    /\ \A q \in Req \ {r} :
          /\ rq[r].fresh # NoSid => rq[r].fresh \notin {rq[q].sid, rq[q].fresh}
          /\ rq[r].pc # "idle" /\ rq[r].alone => rq[r].sid # rq[q].sid
          /\ rq[r].pc # "idle" /\ rq[r].sid = rq[q].sid => pa[rq[r].sid].shared

\* A form is in one session, whoever holds a copy of it.
FormsApart(st, rq) ==
    /\ \A r, q \in Req : Forms(rq[r]) \cap Forms(rq[q]) # {} => rq[r].sid = rq[q].sid
    /\ \A r \in Req, s \in DOMAIN st : st[s].form \in Forms(rq[r]) => s = rq[r].sid
    /\ \A s, t \in DOMAIN st : st[s].form = st[t].form /\ st[s].form # NoForm => s = t

\* What was destroyed is gone until its id is given out anew.
GoneWell(st, rq, pa) ==
    \A s \in Sid : pa[s].destroyed => s \notin DOMAIN st /\ \A r \in Req : ~Holds(rq[r], s)

\* No content has a form that was cleared.
NotShown(f, st, rq) == /\ \A s \in DOMAIN st : st[s].form # f
                       /\ \A r \in Req : rq[r].sess.form # f

Good(st, ck, rq, uf, pa, cl) ==
    /\ Typed(st, ck, rq, uf, pa, cl)
    /\ \A r \in Req : Fits(rq[r]) /\ Agrees(rq[r], st, uf, pa) /\ IdsApart(r, ck, rq, pa)
    /\ \A s \in DOMAIN st : StoredWell(s, st[s], uf, pa)
    /\ FormsApart(st, rq)
    /\ GoneWell(st, rq, pa)
    /\ \A f \in cl : NotShown(f, st, rq)

-----------------------------------------------------------------------------
(* Small steps that keep it. *)

\* Request r goes on as x, with the ids it has and a form it had.
LEMMA LocalStep ==
    ASSUME NEW st, NEW ck, NEW rq, NEW uf, NEW pa, NEW cl, Good(st, ck, rq, uf, pa, cl),
           NEW r \in Req, NEW x \in Request,
           rq[r].pc # "idle", x.pc # "idle",
           x.sid = rq[r].sid, x.fresh = rq[r].fresh, x.alone = rq[r].alone,
           x.original = rq[r].original, x.sess.form \in {NoForm, rq[r].sess.form},
           Fits(x), Agrees(x, st, uf, pa)
    PROVE  Good(st, ck, [rq EXCEPT ![r] = x], uf, pa, cl)
<1> DEFINE rn == [rq EXCEPT ![r] = x]
<1>1. /\ rq \in [Req -> Request] /\ rn \in [Req -> Request]
      /\ rn[r] = x /\ \A q \in Req : q # r => rn[q] = rq[q]
    BY DEF Good, Typed
<1> HIDE DEF rn
<1>2. \A q \in Req :
          /\ rn[q].sid = rq[q].sid /\ rn[q].fresh = rq[q].fresh
          /\ rn[q].alone = rq[q].alone
          /\ rn[q].pc = "idle" <=> rq[q].pc = "idle"
          /\ Forms(rn[q]) \subseteq Forms(rq[q])
    BY <1>1 DEF Forms
<1>3. Typed(st, ck, rn, uf, pa, cl)
    BY <1>1 DEF Good, Typed
<1>4. \A q \in Req : Fits(rn[q]) /\ Agrees(rn[q], st, uf, pa)
    BY <1>1 DEF Good
<1>5. \A q \in Req : IdsApart(q, ck, rn, pa)
  <2> SUFFICES ASSUME NEW q \in Req PROVE IdsApart(q, ck, rn, pa)
      OBVIOUS
  <2>1. IdsApart(q, ck, rq, pa)
      BY DEF Good
  <2>2. \A p \in Req \ {q} :
          /\ rn[q].fresh # NoSid => rn[q].fresh \notin {rn[p].sid, rn[p].fresh}
          /\ rn[q].pc # "idle" /\ rn[q].alone => rn[q].sid # rn[p].sid
          /\ rn[q].pc # "idle" /\ rn[q].sid = rn[p].sid => pa[rn[q].sid].shared
      BY <1>2, <2>1 DEF IdsApart
  <2> QED BY <1>2, <2>1, <2>2 DEF IdsApart
<1>6. FormsApart(st, rn)
  <2>1. FormsApart(st, rq)
      BY DEF Good
  <2>2. \A q, p \in Req : Forms(rn[q]) \cap Forms(rn[p]) # {} => rn[q].sid = rn[p].sid
      BY <1>2, <2>1 DEF FormsApart
  <2>3. \A q \in Req, s \in DOMAIN st : st[s].form \in Forms(rn[q]) => s = rn[q].sid
      BY <1>2, <2>1 DEF FormsApart
  <2> QED BY <2>1, <2>2, <2>3 DEF FormsApart
<1>7. GoneWell(st, rn, pa)
  <2>1. GoneWell(st, rq, pa)
      BY DEF Good
  <2> QED BY <1>2, <2>1 DEF GoneWell, Holds
<1>8. \A f \in cl : NotShown(f, st, rn)
    BY <1>1, SessionAssumption DEF Good, Typed, NotShown
<1>9. Good(st, ck, rn, uf, pa, cl)
    BY <1>3, <1>4, <1>5, <1>6, <1>7, <1>8 DEF Good
<1> QED BY <1>9 DEF rn

Stored(st, s, c) == [t \in DOMAIN st \cup {s} |-> IF t = s THEN c ELSE st[t]]

\* The URL that request q, if refused, leaves on record.
Recorded(q, pa) == IF q.kind = "refused" THEN [pa EXCEPT ![q.sid].wanted = q.arg] ELSE pa

\* Request r stores its copy of the session under its id.
LEMMA PutOwnStep ==
    ASSUME NEW st, NEW ck, NEW rq, NEW uf, NEW pa, NEW cl, Good(st, ck, rq, uf, pa, cl),
           NEW r \in Req, rq[r].pc \notin {"idle", "loaded"}
    PROVE  Good(Stored(st, rq[r].sid, rq[r].sess), ck, rq, uf, Recorded(rq[r], pa), cl)
<1> DEFINE s == rq[r].sid
           c == rq[r].sess
           sn == Stored(st, s, c)
           pn == Recorded(rq[r], pa)
<1>1. rq[r] \in Request /\ s \in Sid /\ c \in Session
    BY DEF Good, Typed, Fits, Request
<1>2. Fits(rq[r]) /\ Agrees(rq[r], st, uf, pa) /\ IdsApart(r, ck, rq, pa)
    BY DEF Good
<1>3. DOMAIN sn = DOMAIN st \cup {s} /\ sn[s] = c /\ \A t \in DOMAIN st : t # s => sn[t] = st[t]
    BY DEF Stored
<1>4. pa \in [Sid -> Past] /\ pn \in [Sid -> Past]
    BY <1>1, <1>2 DEF Good, Typed, Recorded, Past, Fits
<1>5. \A t \in Sid :
          /\ pn[t].shared = pa[t].shared
          /\ pn[t].committed = pa[t].committed
          /\ pn[t].destroyed = pa[t].destroyed
          /\ t # s => pn[t].wanted = pa[t].wanted
    BY <1>1, <1>4 DEF Recorded, Past
<1>6. pn[s].wanted = IF rq[r].kind = "refused" THEN rq[r].arg ELSE pa[s].wanted
    BY <1>1, <1>4 DEF Recorded, Past
<1>7. sn \in [DOMAIN sn -> Session]
    BY <1>1, <1>3 DEF Good, Typed, Stored
<1> HIDE DEF sn, pn
<1>8. Typed(sn, ck, rq, uf, pn, cl)
    BY <1>1, <1>3, <1>4, <1>7 DEF Good, Typed
<1>9. \A q \in Req \ {r} : rq[q].pc # "idle" /\ rq[q].sid = s => pa[s].shared /\ ~rq[q].alone
    BY <1>2 DEF Good, IdsApart, s
<1>10. \A q \in Req : rq[q].fresh # NoSid => rq[q].fresh # s /\ rq[q].fresh \in Sid
    BY <1>1 DEF Good, IdsApart, Typed, Request
<1>11. \A q \in Req : Agrees(rq[q], sn, uf, pn)
  <2> SUFFICES ASSUME NEW q \in Req PROVE Agrees(rq[q], sn, uf, pn)
      OBVIOUS
  <2>1. Agrees(rq[q], st, uf, pa) /\ Fits(rq[q])
      BY DEF Good
  <2>2. Forms(rq[q]) \subseteq uf
      BY <2>1 DEF Agrees
  <2>3. rq[q].fresh # NoSid => pn[rq[q].fresh].wanted = NoUrl
      BY <2>1, <1>5, <1>10 DEF Agrees
  <2>4. rq[q].pc # "idle" /\ (rq[q].sess.auth = "in" \/ rq[q].pc = "issued") => pn[rq[q].sid].committed
      BY <2>1, <1>5 DEF Agrees, Fits
  <2>5. rq[q].pc # "idle" /\ ~pn[rq[q].sid].shared =>
          Ends(rq[q].sess.intend, IF rq[q].kind = "refused" THEN rq[q].arg ELSE pn[rq[q].sid].wanted)
      BY <2>1, <1>5, <1>6, <1>9 DEF Agrees, Fits
  <2>6. rq[q].kind = "restart" /\ rq[q].pc = "respond" /\ rq[q].original.form # NoForm
          /\ rq[q].alone /\ ~rq[q].failed /\ rq[q].sid \in DOMAIN sn => sn[rq[q].sid].form = NoForm
      BY <2>1, <1>3, <1>9 DEF Agrees, Fits
  <2> QED BY <2>2, <2>3, <2>4, <2>5, <2>6 DEF Agrees
<1>12. \A q \in Req : IdsApart(q, ck, rq, pn)
  <2> SUFFICES ASSUME NEW q \in Req PROVE IdsApart(q, ck, rq, pn)
      OBVIOUS
  <2> QED BY <1>5 DEF Good, IdsApart, Fits
<1>13. \A t \in DOMAIN sn : StoredWell(t, sn[t], uf, pn)
  <2>1. StoredWell(s, c, uf, pn)
      BY <1>1, <1>2, <1>5, <1>6 DEF StoredWell, Agrees, Fits, Forms
  <2>2. \A t \in DOMAIN st : t # s => StoredWell(t, st[t], uf, pn)
      BY <1>5 DEF Good, Typed, StoredWell
  <2> QED BY <1>3, <2>1, <2>2
<1>14. FormsApart(sn, rq)
  <2>1. FormsApart(st, rq)
      BY DEF Good
  <2>2. c.form # NoForm => c.form \in Forms(rq[r])
      BY DEF Forms
  <2>3. \A q \in Req : c.form \in Forms(rq[q]) => s = rq[q].sid
      BY <2>1, <2>2 DEF FormsApart, Forms
  <2>4. \A t \in DOMAIN st : st[t].form = c.form /\ c.form # NoForm => t = s
      BY <2>1, <2>2 DEF FormsApart
  <2> QED BY <1>3, <2>1, <2>3, <2>4 DEF FormsApart
<1>15. GoneWell(sn, rq, pn)
    BY <1>1, <1>3, <1>5 DEF Good, GoneWell, Holds
<1>16. \A f \in cl : NotShown(f, sn, rq)
    BY <1>3 DEF Good, NotShown
<1>17. Good(sn, ck, rq, uf, pn, cl)
    BY <1>8, <1>11, <1>12, <1>13, <1>14, <1>15, <1>16 DEF Good
<1> QED BY <1>17 DEF sn, pn

\* Request r stores the empty session under the id a login has given it.
LEMMA PutFreshStep ==
    ASSUME NEW st, NEW ck, NEW rq, NEW uf, NEW pa, NEW cl, Good(st, ck, rq, uf, pa, cl),
           NEW r \in Req, rq[r].fresh # NoSid
    PROVE  Good(Stored(st, rq[r].fresh, Blank), ck, rq, uf, pa, cl)
<1> DEFINE s == rq[r].fresh
           sn == Stored(st, s, Blank)
<1>1. rq[r] \in Request /\ s \in Sid /\ rq[r].pc # "idle"
    BY DEF Good, Typed, Fits, Request
<1>2. Fits(rq[r]) /\ Agrees(rq[r], st, uf, pa) /\ IdsApart(r, ck, rq, pa)
    BY DEF Good
<1>3. DOMAIN sn = DOMAIN st \cup {s} /\ sn[s] = Blank /\ \A t \in DOMAIN st : t # s => sn[t] = st[t]
    BY DEF Stored
<1>4. sn \in [DOMAIN sn -> Session]
    BY <1>1, <1>3, BlankSession DEF Good, Typed, Stored
<1> HIDE DEF sn
<1>5. Typed(sn, ck, rq, uf, pa, cl)
    BY <1>1, <1>3, <1>4 DEF Good, Typed
<1>6. \A q \in Req : rq[q].sid # s
    BY <1>2 DEF IdsApart
<1>7. \A q \in Req : Agrees(rq[q], sn, uf, pa)
    BY <1>3, <1>6 DEF Good, Agrees
<1>8. StoredWell(s, Blank, uf, pa)
    BY <1>2, BlankSession DEF Blank, StoredWell, Agrees
<1>9. \A t \in DOMAIN sn : StoredWell(t, sn[t], uf, pa)
    BY <1>3, <1>8 DEF Good
<1>10. FormsApart(sn, rq)
  <2>1. FormsApart(st, rq)
      BY DEF Good
  <2>2. Blank.form = NoForm /\ \A q \in Req : NoForm \notin Forms(rq[q])
      BY DEF Blank, Forms
  <2> QED BY <1>3, <2>1, <2>2 DEF FormsApart
<1>11. GoneWell(sn, rq, pa)
    BY <1>1, <1>3 DEF Good, GoneWell, Holds
<1>12. \A f \in cl : NotShown(f, sn, rq)
    BY <1>3, SessionAssumption DEF Good, Typed, NotShown, Blank
<1>13. Good(sn, ck, rq, uf, pa, cl)
    BY <1>5, <1>7, <1>9, <1>10, <1>11, <1>12 DEF Good
<1> QED BY <1>13 DEF sn

LEMMA IdleFits == Idle \in Request /\ Fits(Idle) /\ Forms(Idle) = {} /\ Idle.pc = "idle"
                    /\ Idle.sid = NoSid /\ Idle.fresh = NoSid /\ Idle.sess = Blank /\ Idle.kind = "none"
BY BlankSession DEF Idle, Request, Fits, Forms, Blank

\* Request r ends; the browser has the id it had, or the one of r.  A form may
\* count as cleared that is in no session and no other request.
LEMMA FinishStep ==
    ASSUME NEW st, NEW ck, NEW rq, NEW uf, NEW pa, NEW cl, Good(st, ck, rq, uf, pa, cl),
           NEW r \in Req, rq[r].pc # "idle",
           NEW cn \in {ck, Current(rq[r])}, NEW ln,
           cl \subseteq ln, ln \subseteq uf,
           \A f \in ln \ cl : /\ \A s \in DOMAIN st : st[s].form # f
                             /\ \A q \in Req \ {r} : rq[q].sess.form # f
    PROVE  Good(st, cn, [rq EXCEPT ![r] = Idle], uf, pa, ln)
<1> DEFINE rn == [rq EXCEPT ![r] = Idle]
<1>1. /\ rq \in [Req -> Request] /\ rn \in [Req -> Request]
      /\ rn[r] = Idle /\ \A q \in Req : q # r => rn[q] = rq[q]
    BY IdleFits DEF Good, Typed
<1> HIDE DEF rn
<1>2. cn \in Sid \cup {NoSid}
    BY <1>1 DEF Good, Typed, Fits, Request, Current
<1>3. Typed(st, cn, rn, uf, pa, ln)
    BY <1>1, <1>2 DEF Good, Typed
<1>4. \A q \in Req : Fits(rn[q])
    BY <1>1, IdleFits DEF Good
<1>5. Agrees(Idle, st, uf, pa)
    BY IdleFits DEF Agrees
<1>6. \A q \in Req : Agrees(rn[q], st, uf, pa)
    BY <1>1, <1>5 DEF Good
<1>7. \A q \in Req : IdsApart(q, cn, rn, pa)
  <2> SUFFICES ASSUME NEW q \in Req, q # r PROVE IdsApart(q, cn, rn, pa)
      BY <1>1, IdleFits DEF IdsApart
  <2>1. IdsApart(q, ck, rq, pa) /\ rn[q] = rq[q] /\ Fits(rq[q]) /\ rq[q] \in Request
      BY <1>1 DEF Good
  <2>2. rq[q].fresh # NoSid => rq[q].fresh \notin {rq[r].sid, rq[r].fresh, ck}
      BY <2>1 DEF IdsApart
  <2>3. rq[q].fresh # NoSid => rq[q].fresh # cn
      BY <2>2 DEF Current
  <2>4. rq[q].pc # "idle" => rq[q].sid # NoSid
      BY <2>1, SessionAssumption DEF Fits
  <2>5. \A p \in Req \ {q} :
          /\ rn[q].fresh # NoSid => rn[q].fresh \notin {rn[p].sid, rn[p].fresh}
          /\ rn[q].pc # "idle" /\ rn[q].alone => rn[q].sid # rn[p].sid
          /\ rn[q].pc # "idle" /\ rn[q].sid = rn[p].sid => pa[rn[q].sid].shared
      BY <1>1, <2>1, <2>4, IdleFits DEF IdsApart
  <2> QED BY <2>1, <2>3, <2>5 DEF IdsApart
<1>8. FormsApart(st, rn)
  <2>1. FormsApart(st, rq)
      BY DEF Good
  <2>2. \A q \in Req : Forms(rn[q]) # {} => rn[q] = rq[q]
      BY <1>1, IdleFits
  <2> QED BY <2>1, <2>2 DEF FormsApart
<1>9. GoneWell(st, rn, pa)
    BY <1>1, IdleFits DEF Good, GoneWell, Holds
<1>10. \A f \in ln : NotShown(f, st, rn)
  <2> SUFFICES ASSUME NEW f \in ln PROVE NotShown(f, st, rn)
      OBVIOUS
  <2>1. f # Idle.sess.form
      BY SessionAssumption, IdleFits DEF Good, Typed, Blank
  <2>2. \A s \in DOMAIN st : st[s].form # f
      BY DEF Good, NotShown
  <2>3. \A q \in Req \ {r} : rq[q].sess.form # f
      BY DEF Good, NotShown
  <2> QED BY <1>1, <2>1, <2>2, <2>3 DEF NotShown
<1>11. Good(st, cn, rn, uf, pa, ln)
    BY <1>3, <1>4, <1>6, <1>7, <1>8, <1>9, <1>10 DEF Good
<1> QED BY <1>11 DEF rn

\* Only the sessions in some set stay stored.
LEMMA RemoveStep ==
    ASSUME NEW st, NEW ck, NEW rq, NEW uf, NEW pa, NEW cl, Good(st, ck, rq, uf, pa, cl),
           NEW kept \in SUBSET DOMAIN st
    PROVE  Good([t \in kept |-> st[t]], ck, rq, uf, pa, cl)
<1> DEFINE sn == [t \in kept |-> st[t]]
<1>1. DOMAIN sn \subseteq DOMAIN st /\ \A t \in DOMAIN sn : sn[t] = st[t]
    OBVIOUS
<1>2. Typed(sn, ck, rq, uf, pa, cl)
    BY DEF Good, Typed
<1> HIDE DEF sn
<1>3. \A q \in Req : Agrees(rq[q], sn, uf, pa)
    BY <1>1 DEF Good, Agrees
<1>4. \A t \in DOMAIN sn : StoredWell(t, sn[t], uf, pa)
    BY <1>1 DEF Good
<1>5. FormsApart(sn, rq)
  <2>1. FormsApart(st, rq)
      BY DEF Good
  <2> QED BY <1>1, <2>1 DEF FormsApart
<1>6. GoneWell(sn, rq, pa)
    BY <1>1 DEF Good, GoneWell
<1>7. \A f \in cl : NotShown(f, sn, rq)
    BY <1>1 DEF Good, NotShown
<1>8. Good(sn, ck, rq, uf, pa, cl)
    BY <1>2, <1>3, <1>4, <1>5, <1>6, <1>7 DEF Good
<1> QED BY <1>8 DEF sn

Free(s, st, rq) == s \notin DOMAIN st /\ \A r \in Req : ~Holds(rq[r], s)

\* The record of id s changes, in a way that nothing disagrees with.
LEMMA PastStep ==
    ASSUME NEW st, NEW ck, NEW rq, NEW uf, NEW pa, NEW cl, Good(st, ck, rq, uf, pa, cl),
           NEW s \in Sid, NEW p \in Past,
           \/ Free(s, st, rq) /\ (p.destroyed = TRUE \/ p = NoPast)
           \/ /\ p.shared = pa[s].shared /\ p.destroyed = pa[s].destroyed
              /\ p.wanted = pa[s].wanted /\ p.committed = TRUE
           \/ /\ p.shared = pa[s].shared /\ p.destroyed = FALSE
              /\ p.wanted = pa[s].wanted /\ p.committed = pa[s].committed
    PROVE  Good(st, ck, rq, uf, [pa EXCEPT ![s] = p], cl)
<1> DEFINE pn == [pa EXCEPT ![s] = p]
<1>1. pn \in [Sid -> Past] /\ pn[s] = p /\ \A t \in Sid : t # s => pn[t] = pa[t]
    BY DEF Good, Typed
<1> HIDE DEF pn
<1>2. Typed(st, ck, rq, uf, pn, cl)
    BY <1>1 DEF Good, Typed
<1>3. \A q \in Req : rq[q] \in Request /\ Fits(rq[q])
    BY DEF Good, Typed
<1>4. \A q \in Req : /\ rq[q].pc # "idle" => rq[q].sid \in Sid
                     /\ rq[q].fresh # NoSid => rq[q].fresh \in Sid /\ rq[q].pc # "idle"
    BY <1>3 DEF Fits, Request
<1>5. Free(s, st, rq) =>
          \A q \in Req : /\ rq[q].pc # "idle" => rq[q].sid # s
                         /\ rq[q].fresh # NoSid => rq[q].fresh # s
    BY <1>4 DEF Free, Holds
<1>6. \A q \in Req : Agrees(rq[q], st, uf, pn)
  <2> SUFFICES ASSUME NEW q \in Req PROVE Agrees(rq[q], st, uf, pn)
      OBVIOUS
  <2>1. Agrees(rq[q], st, uf, pa)
      BY DEF Good
  <2>2. CASE Free(s, st, rq)
      BY <1>1, <1>4, <1>5, <2>1, <2>2 DEF Agrees
  <2>3. CASE ~Free(s, st, rq)
      BY <1>1, <1>4, <2>1, <2>3 DEF Agrees
  <2> QED BY <2>2, <2>3
<1>7. \A q \in Req : IdsApart(q, ck, rq, pn)
  <2> SUFFICES ASSUME NEW q \in Req PROVE IdsApart(q, ck, rq, pn)
      OBVIOUS
  <2>1. IdsApart(q, ck, rq, pa)
      BY DEF Good
  <2>2. rq[q].pc # "idle" => pn[rq[q].sid].shared = pa[rq[q].sid].shared
      BY <1>1, <1>4, <1>5
  <2> QED BY <2>1, <2>2 DEF IdsApart
<1>8. \A t \in DOMAIN st : StoredWell(t, st[t], uf, pn)
  <2> SUFFICES ASSUME NEW t \in DOMAIN st PROVE StoredWell(t, st[t], uf, pn)
      OBVIOUS
  <2>1. StoredWell(t, st[t], uf, pa) /\ t \in Sid
      BY DEF Good, Typed
  <2> QED BY <1>1, <2>1 DEF StoredWell, Free
<1>9. GoneWell(st, rq, pn)
    BY <1>1 DEF Good, GoneWell, Free, NoPast
<1>10. Good(st, ck, rq, uf, pn, cl)
    BY <1>2, <1>6, <1>7, <1>8, <1>9 DEF Good
<1> QED BY <1>10 DEF pn

Joined(rq, r, s, x) ==
    [q \in Req |-> IF q = r THEN x
                   ELSE IF rq[q].sid = s THEN [rq[q] EXCEPT !.alone = FALSE] ELSE rq[q]]

\* Request r arrives with session s, that of its cookie or a new one.
LEMMA ArriveStep ==
    ASSUME NEW st, NEW ck, NEW rq, NEW uf, NEW pa, NEW cl, Good(st, ck, rq, uf, pa, cl),
           NEW r \in Req, rq[r].pc = "idle",
           NEW s \in Sid, NEW x \in Request, NEW p \in Past,
           \/ s = ck /\ s \in DOMAIN st /\ x.sess = st[s]
           \/ Free(s, st, rq) /\ x.sess = Blank /\ pa[s] = NoPast,
           p.shared <=> (pa[s].shared \/ ~x.alone),
           p.committed = pa[s].committed, p.destroyed = pa[s].destroyed, p.wanted = pa[s].wanted,
           x.pc = "loaded", x.kind # "refused", x.sid = s, x.fresh = NoSid,
           x.kind = "page" => x.arg \in Page \cup {NoUrl},
           x.original = x.sess,
           x.alone <=> \A q \in Req : ~Holds(rq[q], s)
    PROVE  Good(st, ck, Joined(rq, r, s, x), uf, [pa EXCEPT ![s] = p], cl)
<1> DEFINE rn == Joined(rq, r, s, x)
           content == x.sess
           pn == [pa EXCEPT ![s] = p]
<1>1. pn \in [Sid -> Past] /\ pn[s] = p /\ \A t \in Sid : t # s => pn[t] = pa[t]
    BY DEF Good, Typed
<1>2. \A q \in Req : rq[q] \in Request /\ Fits(rq[q]) /\ Agrees(rq[q], st, uf, pa)
    BY DEF Good, Typed
<1>3. rn[r] = x /\ \A q \in Req : rn[q] \in Request
  <2>1. ASSUME NEW q \in Req PROVE [rq[q] EXCEPT !.alone = FALSE] \in Request
    <3>1. rq[q] \in Request
        BY <1>2
    <3> QED BY <3>1 DEF Request
  <2> QED BY <1>2, <2>1 DEF Joined
<1>4. \A q \in Req \ {r} :
          /\ rn[q].pc = rq[q].pc /\ rn[q].kind = rq[q].kind /\ rn[q].arg = rq[q].arg
          /\ rn[q].sid = rq[q].sid /\ rn[q].fresh = rq[q].fresh /\ rn[q].failed = rq[q].failed
          /\ rn[q].sess = rq[q].sess /\ rn[q].original = rq[q].original
          /\ rn[q].alone => rq[q].alone /\ rq[q].sid # s
          /\ rq[q].sid # s => rn[q] = rq[q]
  <2> SUFFICES ASSUME NEW q \in Req, q # r
               PROVE  /\ rn[q].pc = rq[q].pc /\ rn[q].kind = rq[q].kind /\ rn[q].arg = rq[q].arg
                      /\ rn[q].sid = rq[q].sid /\ rn[q].fresh = rq[q].fresh
                      /\ rn[q].failed = rq[q].failed
                      /\ rn[q].sess = rq[q].sess /\ rn[q].original = rq[q].original
                      /\ rn[q].alone => rq[q].alone /\ rq[q].sid # s
                      /\ rq[q].sid # s => rn[q] = rq[q]
      OBVIOUS
  <2>1. rq[q] \in Request
      BY <1>2
  <2> QED BY <2>1 DEF Request, Joined
<1>5. rn \in [Req -> Request]
    BY <1>3 DEF Joined
<1> HIDE DEF rn, pn
<1>6. Typed(st, ck, rn, uf, pn, cl)
    BY <1>1, <1>5 DEF Good, Typed
<1>7. \A t \in Sid : /\ pn[t].committed = pa[t].committed /\ pn[t].destroyed = pa[t].destroyed
                     /\ pn[t].wanted = pa[t].wanted /\ (pa[t].shared => pn[t].shared)
    BY <1>1
<1>8. \A q \in Req : /\ rq[q].pc = "idle" => rq[q].sid = NoSid /\ rq[q].fresh = NoSid /\ rq[q] = Idle
                     /\ rq[q].pc # "idle" => rq[q].sid \in Sid
                     /\ rq[q].fresh # NoSid => rq[q].fresh \in Sid /\ rq[q].pc # "idle"
    BY <1>2, IdleFits DEF Fits, Request
<1>9. \A q \in Req : rq[q].fresh # s
    BY <1>8, SessionAssumption DEF Good, IdsApart, Free, Holds
<1>10. StoredWell(s, content, uf, pa)
  <2>1. CASE s \in DOMAIN st /\ content = st[s]
      BY <2>1 DEF Good
  <2>2. CASE content = Blank /\ pa[s] = NoPast
    <3>1. Blank.form = NoForm /\ Blank.auth = "none" /\ NoPast.wanted = NoUrl
        BY DEF Blank, NoPast
    <3> QED BY <2>2, <3>1, BlankSession DEF StoredWell
  <2> QED BY <2>1, <2>2
<1>11. Fits(x)
    BY <1>10 DEF Fits, StoredWell
<1>12. Agrees(x, st, uf, pn)
    BY <1>1, <1>7, <1>10 DEF Agrees, StoredWell, Forms
<1>13. \A q \in Req : Fits(rn[q])
  <2> SUFFICES ASSUME NEW q \in Req, q # r PROVE Fits(rn[q])
      BY <1>3, <1>11
  <2>1. Fits(rq[q])
      BY <1>2
  <2>2. rq[q].pc = "idle" => rn[q] = Idle
      BY <1>4, <1>8, SessionAssumption
  <2> QED BY <1>4, <2>1, <2>2 DEF Fits
<1>14. \A q \in Req : Agrees(rn[q], st, uf, pn)
  <2> SUFFICES ASSUME NEW q \in Req, q # r PROVE Agrees(rn[q], st, uf, pn)
      BY <1>3, <1>12
  <2>1. Agrees(rq[q], st, uf, pa)
      BY <1>2
  <2> QED BY <1>4, <1>7, <1>8, <2>1 DEF Agrees, Forms
<1>15. \A q \in Req : IdsApart(q, ck, rn, pn)
  <2>1. IdsApart(r, ck, rn, pn)
    <3>1. \A q \in Req \ {r} : x.alone => x.sid # rq[q].sid
        BY <1>8, SessionAssumption DEF Holds
    <3>2. \A q \in Req \ {r} : x.sid = rq[q].sid => pn[x.sid].shared
        BY <1>1, <1>8, SessionAssumption DEF Holds
    <3> QED BY <1>3, <1>4, <3>1, <3>2 DEF IdsApart
  <2>2. ASSUME NEW q \in Req, q # r PROVE IdsApart(q, ck, rn, pn)
    <3>1. IdsApart(q, ck, rq, pa) /\ rn[q].fresh = rq[q].fresh /\ rn[q].sid = rq[q].sid
          /\ rn[q].pc = rq[q].pc /\ (rn[q].alone => rq[q].alone /\ rq[q].sid # s)
        BY <1>4, <2>2 DEF Good
    <3>2. \A t \in Req \ {q, r} : rn[t].fresh = rq[t].fresh /\ rn[t].sid = rq[t].sid
        BY <1>4
    <3>3. rq[q].pc # "idle" /\ rq[q].sid = s => pn[s].shared
        BY <1>1 DEF Holds
    <3>4. rq[q].pc # "idle" /\ pa[rq[q].sid].shared => pn[rq[q].sid].shared
        BY <1>7, <1>8
    <3>5. rn[r].sid = s /\ rn[r].fresh = NoSid /\ rq[q].fresh # s
        BY <1>3, <1>9
    <3>6. \A t \in Req \ {q} :
          /\ rn[q].fresh # NoSid => rn[q].fresh \notin {rn[t].sid, rn[t].fresh}
          /\ rn[q].pc # "idle" /\ rn[q].alone => rn[q].sid # rn[t].sid
          /\ rn[q].pc # "idle" /\ rn[q].sid = rn[t].sid => pn[rn[q].sid].shared
      <4> SUFFICES ASSUME NEW t \in Req \ {q}
                   PROVE  /\ rn[q].fresh # NoSid => rn[q].fresh \notin {rn[t].sid, rn[t].fresh}
                          /\ rn[q].pc # "idle" /\ rn[q].alone => rn[q].sid # rn[t].sid
                          /\ rn[q].pc # "idle" /\ rn[q].sid = rn[t].sid
                                => pn[rn[q].sid].shared
          OBVIOUS
      <4>1. CASE t = r
          BY <4>1, <3>1, <3>3, <3>5
      <4>2. CASE t # r
        <5>1. /\ rq[q].fresh # NoSid => rq[q].fresh \notin {rq[t].sid, rq[t].fresh}
              /\ rq[q].pc # "idle" /\ rq[q].alone => rq[q].sid # rq[t].sid
              /\ rq[q].pc # "idle" /\ rq[q].sid = rq[t].sid => pa[rq[q].sid].shared
            BY <3>1 DEF IdsApart
        <5>2. rn[t].fresh = rq[t].fresh /\ rn[t].sid = rq[t].sid
            BY <3>2, <4>2
        <5> QED BY <5>1, <5>2, <3>1, <3>4
      <4> QED BY <4>1, <4>2
    <3> QED BY <3>1, <3>6 DEF IdsApart
  <2> QED BY <2>1, <2>2
<1>16. \A t \in DOMAIN st : StoredWell(t, st[t], uf, pn)
    BY <1>7 DEF Good, Typed, StoredWell
<1>17. FormsApart(st, rn)
  <2>1. FormsApart(st, rq)
      BY DEF Good
  <2>2. \A q \in Req \ {r} : Forms(rn[q]) = Forms(rq[q]) /\ rn[q].sid = rq[q].sid
      BY <1>4 DEF Forms
  <2>3. Forms(rn[r]) = {content.form} \ {NoForm} /\ rn[r].sid = s
      BY <1>3 DEF Forms
  <2>4. content.form # NoForm => s \in DOMAIN st /\ content = st[s]
      BY DEF Blank
  <2>5. \A q, t \in Req : Forms(rn[q]) \cap Forms(rn[t]) # {} => rn[q].sid = rn[t].sid
      BY <2>1, <2>2, <2>3, <2>4 DEF FormsApart
  <2>6. \A q \in Req, t \in DOMAIN st : st[t].form \in Forms(rn[q]) => t = rn[q].sid
      BY <2>1, <2>2, <2>3, <2>4 DEF FormsApart
  <2> QED BY <2>1, <2>5, <2>6 DEF FormsApart
<1>18. GoneWell(st, rn, pn)
  <2>1. ~pn[s].destroyed
      BY <1>7 DEF Good, GoneWell, NoPast
  <2>2. \A q \in Req \ {r}, t \in Sid : Holds(rn[q], t) <=> Holds(rq[q], t)
      BY <1>4 DEF Holds
  <2>3. \A t \in Sid \ {s} : ~Holds(rn[r], t)
      BY <1>3, SessionAssumption DEF Holds
  <2> QED BY <1>7, <2>1, <2>2, <2>3 DEF Good, GoneWell
<1>19. \A f \in cl : NotShown(f, st, rn)
  <2> SUFFICES ASSUME NEW f \in cl PROVE NotShown(f, st, rn)
      OBVIOUS
  <2>1. NotShown(f, st, rq) /\ f # NoForm
      BY SessionAssumption DEF Good, Typed
  <2>2. rn[r].sess.form # f
      BY <1>3, <2>1 DEF NotShown, Blank
  <2> QED BY <1>4, <2>1, <2>2 DEF NotShown
<1>20. Good(st, ck, rn, uf, pn, cl)
    BY <1>6, <1>13, <1>14, <1>15, <1>16, <1>17, <1>18, <1>19 DEF Good
<1> QED BY <1>20 DEF rn, pn

\* A login gives request r the new id s.
LEMMA FreshStep ==
    ASSUME NEW st, NEW ck, NEW rq, NEW uf, NEW pa, NEW cl, Good(st, ck, rq, uf, pa, cl),
           NEW r \in Req, NEW x \in Request, NEW s \in Sid,
           Free(s, st, rq), s # ck, pa[s] = NoPast,
           rq[r].pc = "issued", x.pc = "mapped", x.fresh = s,
           x.sid = rq[r].sid, x.alone = rq[r].alone, x.kind = rq[r].kind,
           x.original = rq[r].original, x.sess.form = rq[r].sess.form,
           Sound(x.sess), x.sess.intend = rq[r].sess.intend
    PROVE  Good(st, ck, [rq EXCEPT ![r] = x], uf, pa, cl)
<1> DEFINE rn == [rq EXCEPT ![r] = x]
<1>1. /\ rq \in [Req -> Request] /\ rn \in [Req -> Request]
      /\ rn[r] = x /\ \A q \in Req : q # r => rn[q] = rq[q]
    BY DEF Good, Typed
<1> HIDE DEF rn
<1>2. \A q \in Req :
          /\ rn[q].sid = rq[q].sid /\ rn[q].alone = rq[q].alone
          /\ rn[q].pc = "idle" <=> rq[q].pc = "idle"
          /\ Forms(rn[q]) = Forms(rq[q])
    BY <1>1 DEF Forms
<1>3. Typed(st, ck, rn, uf, pa, cl)
    BY <1>1 DEF Good, Typed
<1>4. Fits(rq[r]) /\ Agrees(rq[r], st, uf, pa)
    BY DEF Good
<1>5. Fits(x) /\ Agrees(x, st, uf, pa)
    BY <1>4 DEF Fits, Agrees, Forms, NoPast
<1>6. \A q \in Req : Fits(rn[q]) /\ Agrees(rn[q], st, uf, pa)
    BY <1>1, <1>5 DEF Good
<1>7. \A q \in Req : s # rq[q].sid /\ s # rq[q].fresh
  <2> SUFFICES ASSUME NEW q \in Req PROVE s # rq[q].sid /\ s # rq[q].fresh
      OBVIOUS
  <2>1. rq[q].pc = "idle" => rq[q] = Idle
      BY DEF Good, Fits
  <2> QED BY <2>1, IdleFits, SessionAssumption DEF Free, Holds
<1>8. \A q \in Req : IdsApart(q, ck, rn, pa)
  <2> SUFFICES ASSUME NEW q \in Req PROVE IdsApart(q, ck, rn, pa)
      OBVIOUS
  <2>1. IdsApart(q, ck, rq, pa)
      BY DEF Good
  <2>2. CASE q = r
      BY <1>1, <1>2, <1>7, <2>1, <2>2 DEF IdsApart
  <2>3. CASE q # r
      BY <1>1, <1>2, <1>7, <2>1, <2>3 DEF IdsApart
  <2> QED BY <2>2, <2>3
<1>9. FormsApart(st, rn)
  <2>1. FormsApart(st, rq)
      BY DEF Good
  <2> QED BY <1>2, <2>1 DEF FormsApart
<1>10. GoneWell(st, rn, pa)
    BY <1>1 DEF Good, GoneWell, Holds, NoPast
<1>11. \A f \in cl : NotShown(f, st, rn)
    BY <1>1 DEF Good, NotShown
<1>12. Good(st, ck, rn, uf, pa, cl)
    BY <1>3, <1>6, <1>8, <1>9, <1>10, <1>11 DEF Good
<1> QED BY <1>12 DEF rn

\* Request r registers the new form f.
LEMMA NewFormStep ==
    ASSUME NEW st, NEW ck, NEW rq, NEW uf, NEW pa, NEW cl, Good(st, ck, rq, uf, pa, cl),
           NEW r \in Req, NEW x \in Request, NEW f \in Form \ uf,
           rq[r].pc # "idle", x.pc # "idle",
           x.sid = rq[r].sid, x.fresh = rq[r].fresh, x.alone = rq[r].alone,
           x.original = rq[r].original, x.sess.form = f,
           Fits(x), Agrees(x, st, uf \cup {f}, pa)
    PROVE  Good(st, ck, [rq EXCEPT ![r] = x], uf \cup {f}, pa, cl)
<1> DEFINE rn == [rq EXCEPT ![r] = x]
           un == uf \cup {f}
<1>1. /\ rq \in [Req -> Request] /\ rn \in [Req -> Request]
      /\ rn[r] = x /\ \A q \in Req : q # r => rn[q] = rq[q]
    BY DEF Good, Typed
<1> HIDE DEF rn
<1>2. \A q \in Req :
          /\ rn[q].sid = rq[q].sid /\ rn[q].fresh = rq[q].fresh
          /\ rn[q].alone = rq[q].alone
          /\ rn[q].pc = "idle" <=> rq[q].pc = "idle"
          /\ Forms(rn[q]) \subseteq Forms(rq[q]) \cup {f}
    BY <1>1 DEF Forms
<1>3. Typed(st, ck, rn, un, pa, cl)
    BY <1>1 DEF Good, Typed
<1>4. \A q \in Req : Fits(rn[q]) /\ Agrees(rn[q], st, un, pa)
  <2>1. \A q \in Req : Fits(rq[q]) /\ Agrees(rq[q], st, un, pa)
      BY DEF Good, Agrees
  <2> QED BY <1>1, <2>1
<1>5. \A q \in Req : IdsApart(q, ck, rn, pa)
  <2> SUFFICES ASSUME NEW q \in Req PROVE IdsApart(q, ck, rn, pa)
      OBVIOUS
  <2>1. IdsApart(q, ck, rq, pa)
      BY DEF Good
  <2>2. \A p \in Req \ {q} :
          /\ rn[q].fresh # NoSid => rn[q].fresh \notin {rn[p].sid, rn[p].fresh}
          /\ rn[q].pc # "idle" /\ rn[q].alone => rn[q].sid # rn[p].sid
          /\ rn[q].pc # "idle" /\ rn[q].sid = rn[p].sid => pa[rn[q].sid].shared
      BY <1>2, <2>1 DEF IdsApart
  <2> QED BY <1>2, <2>1, <2>2 DEF IdsApart
<1>6. \A s \in DOMAIN st : StoredWell(s, st[s], un, pa) /\ st[s].form # f
    BY SessionAssumption DEF Good, StoredWell
<1>7. \A q \in Req : q # r => f \notin Forms(rn[q])
    BY <1>1 DEF Good, Agrees
<1>8. FormsApart(st, rn)
  <2>1. FormsApart(st, rq)
      BY DEF Good
  <2>2. \A q, p \in Req : Forms(rn[q]) \cap Forms(rn[p]) # {} => rn[q].sid = rn[p].sid
      BY <1>2, <1>7, <2>1 DEF FormsApart
  <2>3. \A q \in Req, s \in DOMAIN st : st[s].form \in Forms(rn[q]) => s = rn[q].sid
      BY <1>2, <1>6, <2>1 DEF FormsApart
  <2> QED BY <2>1, <2>2, <2>3 DEF FormsApart
<1>9. GoneWell(st, rn, pa)
  <2>1. GoneWell(st, rq, pa)
      BY DEF Good
  <2> QED BY <1>2, <2>1 DEF GoneWell, Holds
<1>10. \A g \in cl : NotShown(g, st, rn)
    BY <1>1 DEF Good, Typed, NotShown
<1>11. Good(st, ck, rn, un, pa, cl)
    BY <1>3, <1>4, <1>5, <1>6, <1>8, <1>9, <1>10 DEF Good
<1> QED BY <1>11 DEF rn, un

\* The process starts again, with the sessions that are stored.
LEMMA CrashStep ==
    ASSUME NEW st, NEW ck, NEW rq, NEW uf, NEW pa, NEW cl, Good(st, ck, rq, uf, pa, cl)
    PROVE  Good(st, ck, [r \in Req |-> Idle], uf, pa, cl)
<1> DEFINE rn == [r \in Req |-> Idle]
<1>1. rn \in [Req -> Request] /\ \A q \in Req : rn[q] = Idle
    BY IdleFits
<1> HIDE DEF rn
<1>2. Typed(st, ck, rn, uf, pa, cl)
    BY <1>1 DEF Good, Typed
<1>3. Agrees(Idle, st, uf, pa)
    BY IdleFits DEF Agrees
<1>4. \A q \in Req : Fits(rn[q]) /\ Agrees(rn[q], st, uf, pa)
    BY <1>1, <1>3, IdleFits
<1>5. \A q \in Req : IdsApart(q, ck, rn, pa)
    BY <1>1, IdleFits DEF IdsApart
<1>6. FormsApart(st, rn)
    BY <1>1, IdleFits DEF Good, FormsApart
<1>7. GoneWell(st, rn, pa)
    BY <1>1, IdleFits DEF Good, GoneWell, Holds
<1>8. \A f \in cl : NotShown(f, st, rn)
    BY <1>1, IdleFits, SessionAssumption DEF Good, Typed, NotShown, Blank
<1>9. Good(st, ck, rn, uf, pa, cl)
    BY <1>2, <1>4, <1>5, <1>6, <1>7, <1>8 DEF Good
<1> QED BY <1>9 DEF rn

-----------------------------------------------------------------------------
(* The actions, each a few of these steps. *)

Consistent == Good(store, cookie, req, usedForms, past, cleared)

LEMMA Now ==
    ASSUME Consistent, NEW r \in Req
    PROVE  /\ req \in [Req -> Request] /\ req[r] \in Request
           /\ Fits(req[r]) /\ Agrees(req[r], store, usedForms, past)
           /\ past \in [Sid -> Past]
BY DEF Consistent, Good, Typed

LEMMA FreeUnused == ASSUME NEW s PROVE Unused(s) => Free(s, store, req) /\ s # cookie
BY DEF Unused, Held, Free, Holds

\* A request that has loaded its session goes on with what it makes of it.
LEMMA WorkKeeps ==
    ASSUME Consistent, NEW r \in Req, req[r].pc = "loaded",
           NEW content \in Session, Sound(content),
           content.form \in {NoForm, req[r].sess.form},
           content.auth = "in" => req[r].sess.auth = "in",
           \A url : Ends(req[r].sess.intend, url) => Ends(content.intend, url),
           NEW pc \in {"filter", "respond", "redirect", "verified"},
           pc = "verified" => req[r].kind = "attempt",
           req[r].kind = "restart" /\ req[r].original.form # NoForm =>
               pc = "redirect" /\ content.form = NoForm,
           Work(r, content, pc),
           UNCHANGED <<store, cookie, usedForms, past, cleared>>
    PROVE  Consistent'
<1> DEFINE x == [req[r] EXCEPT !.sess = content, !.pc = pc]
<1>1. /\ req[r] \in Request /\ Fits(req[r]) /\ Agrees(req[r], store, usedForms, past)
    BY Now
<1>2. x \in Request /\ x.pc = pc /\ x.sess = content /\ x.kind = req[r].kind /\ x.arg = req[r].arg
      /\ x.sid = req[r].sid /\ x.fresh = req[r].fresh /\ x.alone = req[r].alone
      /\ x.original = req[r].original /\ x.failed = req[r].failed
    BY <1>1 DEF Request
<1>3. req' = [req EXCEPT ![r] = x]
    BY DEF Work
<1> HIDE DEF x
<1>4. Fits(x)
    BY <1>1, <1>2 DEF Fits
<1>5. Agrees(x, store, usedForms, past)
    BY <1>1, <1>2 DEF Agrees, Fits, Forms
<1>6. Good(store, cookie, [req EXCEPT ![r] = x], usedForms, past, cleared)
    BY <1>2, <1>4, <1>5, LocalStep DEF Consistent
<1> QED BY <1>3, <1>6 DEF Consistent

\* A request goes on without touching its session.
LEMMA GotoKeeps ==
    ASSUME Consistent, NEW r \in Req, req[r].pc \in {"loaded", "verified", "issued", "mapped"},
           NEW pc \in {"issued", "redirect", "respond"},
           pc = "issued" => req[r].pc = "verified" /\ past[req[r].sid].committed,
           pc = "redirect" => req[r].pc = "mapped",
           req[r].kind = "restart" => req[r].sess.form = NoForm,
           Goto(r, pc),
           UNCHANGED <<store, cookie, usedForms, past, cleared>>
    PROVE  Consistent'
<1> DEFINE x == [req[r] EXCEPT !.pc = pc]
<1>1. /\ req[r] \in Request /\ Fits(req[r]) /\ Agrees(req[r], store, usedForms, past)
    BY Now
<1>2. x \in Request /\ x.pc = pc /\ x.sess = req[r].sess /\ x.kind = req[r].kind /\ x.arg = req[r].arg
      /\ x.sid = req[r].sid /\ x.fresh = req[r].fresh /\ x.alone = req[r].alone
      /\ x.original = req[r].original /\ x.failed = req[r].failed
    BY <1>1 DEF Request
<1>3. req' = [req EXCEPT ![r] = x]
    BY DEF Goto
<1> HIDE DEF x
<1>4. Fits(x)
    BY <1>1, <1>2 DEF Fits
<1>5. Agrees(x, store, usedForms, past)
    BY <1>1, <1>2 DEF Agrees, Fits, Forms
<1>6. Good(store, cookie, [req EXCEPT ![r] = x], usedForms, past, cleared)
    BY <1>2, <1>4, <1>5, LocalStep DEF Consistent
<1> QED BY <1>3, <1>6 DEF Consistent

LEMMA ArriveKeeps ==
    ASSUME Consistent, NEW r \in Req,
           NEW kind \in {"login", "register", "restart", "attempt", "guest", "api", "password", "page"},
           NEW arg \in Form \cup Page \cup {NoUrl}, kind = "page" => arg \in Page \cup {NoUrl},
           Arrive(r, kind, arg)
    PROVE  Consistent'
<1>1. PICK s \in Sid :
          LET known == cookie \in DOMAIN store
              content == IF known THEN store[s] ELSE Blank
          IN  /\ IF known THEN s = cookie ELSE Unused(s)
              /\ req' = [q \in Req |->
                    IF q = r THEN [pc |-> "loaded", kind |-> kind, arg |-> arg, sid |-> s,
                                   fresh |-> NoSid, isNew |-> ~known, alone |-> ~Held(s),
                                   saved |-> FALSE, failed |-> FALSE,
                                   sess |-> content, original |-> content]
                    ELSE IF req[q].sid = s THEN [req[q] EXCEPT !.alone = FALSE] ELSE req[q]]
              /\ past' = [past EXCEPT ![s] =
                    IF known THEN [past[s] EXCEPT !.shared = past[s].shared \/ Held(s)] ELSE NoPast]
    BY DEF Arrive
<1> DEFINE known == cookie \in DOMAIN store
           content == IF known THEN store[s] ELSE Blank
           x == [pc |-> "loaded", kind |-> kind, arg |-> arg, sid |-> s,
                 fresh |-> NoSid, isNew |-> ~known, alone |-> ~Held(s),
                 saved |-> FALSE, failed |-> FALSE, sess |-> content, original |-> content]
           p == IF known THEN [past[s] EXCEPT !.shared = past[s].shared \/ Held(s)] ELSE NoPast
           before == IF known THEN past ELSE [past EXCEPT ![s] = NoPast]
<1>2. req[r].pc = "idle"
    BY DEF Arrive
<1>3. past \in [Sid -> Past] /\ past[s] \in Past /\ NoPast \in Past
    BY Now DEF Past, NoPast
<1>4. p \in Past
    BY <1>3 DEF Past, Held
<1>5. known => s = cookie /\ s \in DOMAIN store
    BY <1>1
<1>6. ~known => Free(s, store, req)
    BY <1>1, FreeUnused
<1>7. content \in Session
    BY <1>5, BlankSession DEF Consistent, Good, Typed
<1>8. x \in Request
    BY <1>7 DEF Request, Held
<1>9. Good(store, cookie, req, usedForms, before, cleared)
    BY <1>3, <1>6, PastStep DEF Consistent
<1>10. past' = [before EXCEPT ![s] = p]
  <2>1. CASE known
    <3>1. past' = [past EXCEPT ![s] = [past[s] EXCEPT !.shared = past[s].shared \/ Held(s)]]
        BY <1>1, <2>1
    <3>2. p = [past[s] EXCEPT !.shared = past[s].shared \/ Held(s)] /\ before = past
        BY <2>1
    <3> QED BY <3>1, <3>2
  <2>2. CASE ~known
    <3>1. past' = [past EXCEPT ![s] = NoPast] /\ p = NoPast /\ before = [past EXCEPT ![s] = NoPast]
        BY <1>1, <2>2
    <3> QED BY <1>3, <3>1
  <2> QED BY <2>1, <2>2
<1>11. (~Held(s)) <=> \A q \in Req : ~Holds(req[q], s)
    BY DEF Held, Holds
<1>12. ~known => ~Held(s)
    BY <1>1 DEF Unused
<1>13. req' = Joined(req, r, s, x)
    BY <1>1 DEF Joined
<1>14. /\ p.committed = before[s].committed /\ p.destroyed = before[s].destroyed
       /\ p.wanted = before[s].wanted
       /\ p.shared <=> (before[s].shared \/ ~x.alone)
    BY <1>3, <1>12 DEF Past
<1>15. /\ x.pc = "loaded" /\ x.kind # "refused" /\ x.sid = s /\ x.fresh = NoSid
       /\ x.original = x.sess /\ (x.kind = "page" => x.arg \in Page \cup {NoUrl})
       /\ x.alone <=> \A q \in Req : ~Holds(req[q], s)
    BY <1>11
<1>16. \/ s = cookie /\ s \in DOMAIN store /\ x.sess = store[s]
       \/ Free(s, store, req) /\ x.sess = Blank /\ before[s] = NoPast
    BY <1>3, <1>5, <1>6
<1> HIDE DEF x, content, p, before, known
<1>17. Good(store, cookie, Joined(req, r, s, x), usedForms, [before EXCEPT ![s] = p], cleared)
    BY <1>2, <1>4, <1>8, <1>9, <1>14, <1>15, <1>16, ArriveStep
<1> QED BY <1>10, <1>13, <1>17 DEF Consistent, Arrive

\* WorkKeeps for most requests: all but a restart.
LEMMA KeptWorkKeeps ==
    ASSUME Consistent, NEW r \in Req, req[r].pc = "loaded", req[r].kind # "restart",
           NEW content, Kept(req[r].sess, content),
           NEW pc \in {"filter", "respond", "verified"},
           pc = "verified" => req[r].kind = "attempt",
           Work(r, content, pc),
           UNCHANGED <<store, cookie, usedForms, past, cleared>>
    PROVE  Consistent'
BY WorkKeeps DEF Kept

\* A query or body the validation rejects, on either route that has one.
LEMMA RejectKeeps ==
    ASSUME Consistent, NEW r \in Req, NEW body \in BOOLEAN, req[r].pc = "loaded",
           req[r].kind \in {"login", "register"}, Reject(r, body),
           UNCHANGED <<store, cookie, usedForms, past, cleared>>
    PROVE  Consistent'
<1>1. req[r].sess \in Session /\ Sound(req[r].sess)
    BY Now DEF Request, Fits
<1> DEFINE s == EnteredForm(req[r].sess)
           t == FlashErrors(s, req[r].kind, body)
<1>2. Kept(req[r].sess, s)
    BY <1>1, EnteredFormKeeps
<1>3. req[r].kind \in Flash
    BY DEF Flash
<1>4. Kept(req[r].sess, t)
    BY <1>1, <1>3, PairsKeep
<1>5. Work(r, t, "filter") \/ Work(r, s, "respond")
    BY DEF Reject
<1> HIDE DEF s, t
<1> QED BY <1>2, <1>4, <1>5, KeptWorkKeeps

LEMMA ShowLoginKeeps ==
    ASSUME Consistent, NEW r \in Req, NEW valid \in BOOLEAN, ShowLogin(r, valid)
    PROVE  Consistent'
<1>1. req[r].sess \in Session /\ Sound(req[r].sess)
    BY Now DEF Request, Fits
<1>2. CASE valid
    BY <1>1, <1>2, EnteredFormKeeps, KeptWorkKeeps DEF ShowLogin
<1>3. CASE ~valid
    BY <1>3, RejectKeeps DEF ShowLogin
<1> QED BY <1>2, <1>3

LEMMA RegisterEmailKeeps ==
    ASSUME Consistent, NEW r \in Req, NEW f \in Form, NEW valid \in BOOLEAN,
           RegisterEmail(r, f, valid)
    PROVE  Consistent'
<1>1. req[r] \in Request /\ Fits(req[r]) /\ Agrees(req[r], store, usedForms, past)
    BY Now
<1>2. req[r].sess \in Session /\ Sound(req[r].sess)
    BY <1>1 DEF Request, Fits
<1>3. CASE ~valid
    BY <1>3, RejectKeeps DEF RegisterEmail
<1>4. CASE valid
  <2> DEFINE s == EnteredForm(req[r].sess)
             c == [s EXCEPT !.form = f]
             x == [req[r] EXCEPT !.sess = c, !.pc = "handler"]
  <2>1. s \in Session /\ Kept(req[r].sess, s)
      BY <1>2, EnteredFormKeeps DEF Kept
  <2> HIDE DEF s
  <2>2. c \in Session /\ Sound(c) /\ c.form = f /\ c.auth = s.auth /\ c.intend = s.intend
      BY <2>1 DEF Session, Sound, Kept
  <2>3. req' = [req EXCEPT ![r] = x] /\ usedForms' = usedForms \cup {f} /\ f \notin usedForms
        /\ req[r].pc = "loaded" /\ req[r].kind = "register"
      BY <1>4 DEF RegisterEmail, Work, s
  <2> HIDE DEF c
  <2>4. x \in Request /\ x.pc = "handler" /\ x.sess = c /\ x.kind = req[r].kind /\ x.arg = req[r].arg
        /\ x.sid = req[r].sid /\ x.fresh = req[r].fresh /\ x.alone = req[r].alone
        /\ x.original = req[r].original
      BY <1>1, <2>2 DEF Request
  <2> HIDE DEF x
  <2>5. Fits(x)
      BY <1>1, <2>2, <2>3, <2>4 DEF Fits
  <2>6. Agrees(x, store, usedForms \cup {f}, past)
      BY <1>1, <2>1, <2>2, <2>3, <2>4 DEF Agrees, Kept, Forms
  <2>7. Good(store, cookie, [req EXCEPT ![r] = x], usedForms \cup {f}, past, cleared)
      BY <2>2, <2>3, <2>4, <2>5, <2>6, NewFormStep DEF Consistent
  <2> QED BY <2>3, <2>7 DEF Consistent, RegisterEmail
<1> QED BY <1>3, <1>4

LEMMA ShowPasswordKeeps ==
    ASSUME Consistent, NEW r \in Req, ShowPassword(r) PROVE Consistent'
<1>1. req[r].sess \in Session /\ Sound(req[r].sess)
    BY Now DEF Request, Fits
<1>2. CASE CheckShowPassword(req[r])
    BY <1>1, <1>2, EnteredFormKeeps, KeptWorkKeeps DEF ShowPassword
<1>3. CASE ~CheckShowPassword(req[r])
    BY <1>3, GotoKeeps DEF ShowPassword
<1> QED BY <1>2, <1>3

LEMMA RestartKeeps ==
    ASSUME Consistent, NEW r \in Req, Restart(r) PROVE Consistent'
<1>1. req[r].sess \in Session /\ Sound(req[r].sess)
    BY Now DEF Request, Fits
<1>2. CASE CanRestartLogin(req[r])
  <2> DEFINE s == EnteredForm(req[r].sess)
             c == [s EXCEPT !.form = NoForm]
  <2>1. s \in Session /\ Kept(req[r].sess, s)
      BY <1>1, EnteredFormKeeps DEF Kept
  <2>2. Work(r, c, "redirect") /\ req[r].pc = "loaded" /\ req[r].kind = "restart"
        /\ UNCHANGED <<store, cookie, usedForms, past, cleared>>
      BY <1>2 DEF Restart
  <2> HIDE DEF s
  <2>3. c \in Session /\ Sound(c) /\ c.form = NoForm /\ c.auth = s.auth /\ c.intend = s.intend
      BY <2>1 DEF Session, Sound, Kept
  <2> HIDE DEF c
  <2> QED BY <2>1, <2>2, <2>3, WorkKeeps DEF Kept
<1>3. CASE ~CanRestartLogin(req[r])
    BY <1>3, GotoKeeps DEF Restart, CanRestartLogin
<1> QED BY <1>2, <1>3

LEMMA LoginGuardKeeps ==
    ASSUME Consistent, NEW r \in Req, NEW verdict, LoginGuard(r, verdict) PROVE Consistent'
<1>1. req[r].sess \in Session /\ Sound(req[r].sess)
    BY Now DEF Request, Fits
<1>2. CASE verdict \in {"invalid", "unauthorized"}
  <2>1. "attempt" \in Flash
      BY DEF Flash
  <2> QED BY <1>1, <1>2, <2>1, FlashErrorsKeeps, KeptWorkKeeps DEF LoginGuard
<1>3. CASE verdict = "failure"
    BY <1>3, GotoKeeps DEF LoginGuard
<1>4. CASE verdict \notin {"invalid", "unauthorized", "failure"}
    BY <1>1, <1>4, EnteredFormKeeps, KeptWorkKeeps DEF LoginGuard
<1> QED BY <1>2, <1>3, <1>4

LEMMA IssueChallengeKeeps ==
    ASSUME Consistent, NEW r \in Req, IssueChallenge(r) PROVE Consistent'
<1>1. /\ req \in [Req -> Request] /\ req[r] \in Request /\ Fits(req[r])
      /\ past \in [Sid -> Past] /\ req[r].pc = "verified"
    BY Now DEF IssueChallenge
<1>2. CASE Goto(r, "respond") /\ UNCHANGED past
  <2>1. req[r].kind # "restart"
      BY <1>1 DEF Fits
  <2> QED BY <1>1, <1>2, <2>1, GotoKeeps DEF IssueChallenge
<1>3. CASE Goto(r, "issued") /\ past' = [past EXCEPT ![req[r].sid].committed = TRUE]
  <2> DEFINE s == req[r].sid
             p == [past[s] EXCEPT !.committed = TRUE]
             x == [req[r] EXCEPT !.pc = "issued"]
  <2>1. s \in Sid /\ past[s] \in Past
      BY <1>1 DEF Fits
  <2>2. p \in Past /\ p.committed = TRUE /\ p.shared = past[s].shared
        /\ p.destroyed = past[s].destroyed /\ p.wanted = past[s].wanted
      BY <2>1 DEF Past
  <2>3. past' = [past EXCEPT ![s] = p] /\ req' = [req EXCEPT ![r] = x]
      BY <1>3 DEF Goto
  <2>4. x \in Request /\ x.pc = "issued" /\ x.sess = req[r].sess /\ x.kind = req[r].kind
        /\ x.arg = req[r].arg /\ x.sid = s /\ x.fresh = req[r].fresh /\ x.alone = req[r].alone
        /\ x.original = req[r].original
      BY <1>1 DEF Request
  <2> HIDE DEF p, x
  <2>5. Good(store, cookie, req, usedForms, past', cleared)
      BY <2>1, <2>2, <2>3, PastStep DEF Consistent
  <2>6. Agrees(req[r], store, usedForms, past') /\ past'[s].committed
      BY <1>1, <2>1, <2>2, <2>3, <2>5 DEF Good
  <2>7. Fits(x) /\ Agrees(x, store, usedForms, past')
      BY <1>1, <2>4, <2>6 DEF Fits, Agrees, Forms
  <2>8. Good(store, cookie, req', usedForms, past', cleared)
      BY <1>1, <2>3, <2>4, <2>5, <2>7, LocalStep
  <2> QED BY <2>8 DEF Consistent, IssueChallenge
<1> QED BY <1>2, <1>3 DEF IssueChallenge

LEMMA MapUserKeeps ==
    ASSUME Consistent, NEW r \in Req, MapUser(r) PROVE Consistent'
<1>1. /\ req \in [Req -> Request] /\ req[r] \in Request /\ Fits(req[r])
      /\ past \in [Sid -> Past] /\ req[r].pc = "issued"
    BY Now DEF MapUser
<1>2. CASE ~user
  <2>1. req[r].kind # "restart"
      BY <1>1 DEF Fits
  <2> QED BY <1>1, <1>2, <2>1, GotoKeeps DEF MapUser
<1>3. CASE user
  <2>1. PICK s \in Sid :
            /\ Unused(s) /\ Remove(req[r].sid)
            /\ req' = [req EXCEPT ![r] = [@ EXCEPT !.pc = "mapped", !.fresh = s,
                                                   !.sess = SignedIn(req[r].sess)]]
            /\ past' = [past EXCEPT ![s] = NoPast]
      BY <1>3 DEF MapUser
  <2> DEFINE x == [req[r] EXCEPT !.pc = "mapped", !.fresh = s, !.sess = SignedIn(req[r].sess)]
  <2>2. SignedIn(req[r].sess) \in Session /\ Sound(SignedIn(req[r].sess))
        /\ SignedIn(req[r].sess).form = req[r].sess.form
        /\ SignedIn(req[r].sess).intend = req[r].sess.intend
      BY <1>1 DEF SignedIn, Request, Session, Sound, Fits
  <2>3. x \in Request /\ x.pc = "mapped" /\ x.sess = SignedIn(req[r].sess) /\ x.kind = req[r].kind
        /\ x.sid = req[r].sid /\ x.fresh = s /\ x.alone = req[r].alone
        /\ x.original = req[r].original
      BY <1>1, <2>2 DEF Request
  <2>4. req' = [req EXCEPT ![r] = x]
      BY <2>1
  <2> HIDE DEF x
  <2>5. Good(store', cookie, req, usedForms, past, cleared) /\ DOMAIN store' \subseteq DOMAIN store
      BY <2>1, RemoveStep DEF Remove, Consistent
  <2>6. Free(s, store', req) /\ s # cookie
      BY <2>1, <2>5, FreeUnused DEF Free
  <2>7. NoPast \in Past
      BY DEF Past, NoPast
  <2>8. Good(store', cookie, req, usedForms, past', cleared) /\ past'[s] = NoPast
      BY <1>1, <2>1, <2>5, <2>6, <2>7, PastStep
  <2>9. Good(store', cookie, req', usedForms, past', cleared)
      BY <1>1, <2>2, <2>3, <2>4, <2>6, <2>8, FreshStep
  <2> QED BY <2>9 DEF Consistent, MapUser
<1> QED BY <1>2, <1>3

LEMMA SaveMappedKeeps ==
    ASSUME Consistent, NEW r \in Req, SaveMapped(r) PROVE Consistent'
<1>1. /\ req[r] \in Request /\ Fits(req[r]) /\ req[r].pc = "mapped"
      /\ req[r].kind = "attempt" /\ UNCHANGED <<cookie, usedForms, past, cleared>>
    BY Now DEF SaveMapped, Fits
<1> DEFINE x == [req[r] EXCEPT !.pc = "redirect"]
<1>2. x \in Request /\ x.pc = "redirect" /\ x.sess = req[r].sess /\ x.kind = "attempt"
      /\ x.arg = req[r].arg /\ x.sid = req[r].sid /\ x.fresh = req[r].fresh
      /\ x.alone = req[r].alone /\ x.original = req[r].original
    BY <1>1 DEF Request
<1>3. req' = [req EXCEPT ![r] = x] /\ store' = Stored(store, req[r].sid, req[r].sess)
    BY DEF SaveMapped, Goto, Put, Stored
<1> HIDE DEF x
<1>4. Good(store', cookie, req, usedForms, past, cleared)
    BY <1>1, <1>3, PutOwnStep DEF Consistent, Recorded
<1>5. Agrees(req[r], store', usedForms, past)
    BY <1>4 DEF Good
<1>6. Fits(x) /\ Agrees(x, store', usedForms, past)
    BY <1>1, <1>2, <1>5 DEF Fits, Agrees, Forms
<1>7. Good(store', cookie, req', usedForms, past, cleared)
    BY <1>1, <1>2, <1>3, <1>4, <1>6, LocalStep
<1> QED BY <1>1, <1>7 DEF Consistent

LEMMA SaveInHandlerKeeps ==
    ASSUME Consistent, NEW r \in Req, SaveInHandler(r) PROVE Consistent'
<1>1. /\ req[r] \in Request /\ Fits(req[r]) /\ req[r].pc = "handler"
      /\ req[r].kind # "refused" /\ UNCHANGED <<cookie, usedForms, past, cleared>>
    BY Now DEF SaveInHandler, Fits
<1> DEFINE x == [req[r] EXCEPT !.pc = "redirect", !.saved = TRUE]
<1>2. x \in Request /\ x.pc = "redirect" /\ x.sess = req[r].sess /\ x.kind = req[r].kind
      /\ x.arg = req[r].arg /\ x.sid = req[r].sid /\ x.fresh = req[r].fresh
      /\ x.alone = req[r].alone /\ x.original = req[r].original
    BY <1>1 DEF Request
<1>3. req' = [req EXCEPT ![r] = x] /\ store' = Stored(store, req[r].sid, req[r].sess)
    BY DEF SaveInHandler, Put, Stored
<1> HIDE DEF x
<1>4. Good(store', cookie, req, usedForms, past, cleared)
    BY <1>1, <1>3, PutOwnStep DEF Consistent, Recorded
<1>5. Agrees(req[r], store', usedForms, past)
    BY <1>4 DEF Good
<1>6. Fits(x) /\ Agrees(x, store', usedForms, past)
    BY <1>1, <1>2, <1>5 DEF Fits, Agrees, Forms
<1>7. Good(store', cookie, req', usedForms, past, cleared)
    BY <1>1, <1>2, <1>3, <1>4, <1>6, LocalStep
<1> QED BY <1>1, <1>7 DEF Consistent

LEMMA SaveInFilterKeeps ==
    ASSUME Consistent, NEW r \in Req, SaveInFilter(r) PROVE Consistent'
<1>1. /\ req[r] \in Request /\ Fits(req[r]) /\ req[r].pc = "filter"
      /\ UNCHANGED <<cookie, usedForms, cleared>>
    BY Now DEF SaveInFilter
<1> DEFINE x == [req[r] EXCEPT !.pc = "respond", !.saved = TRUE]
<1>2. x \in Request /\ x.pc = "respond" /\ x.sess = req[r].sess /\ x.kind = req[r].kind
      /\ x.arg = req[r].arg /\ x.sid = req[r].sid /\ x.fresh = req[r].fresh
      /\ x.alone = req[r].alone /\ x.original = req[r].original
    BY <1>1 DEF Request
<1>3. /\ req' = [req EXCEPT ![r] = x] /\ store' = Stored(store, req[r].sid, req[r].sess)
      /\ past' = Recorded(req[r], past)
    BY DEF SaveInFilter, Put, Stored, Noted, Recorded
<1> HIDE DEF x
<1>4. Good(store', cookie, req, usedForms, past', cleared)
    BY <1>1, <1>3, PutOwnStep DEF Consistent
<1>5. Agrees(req[r], store', usedForms, past')
    BY <1>4 DEF Good
<1>6. Fits(x) /\ Agrees(x, store', usedForms, past')
    BY <1>1, <1>2, <1>5 DEF Fits, Agrees, Forms
<1>7. Good(store', cookie, req', usedForms, past', cleared)
    BY <1>1, <1>2, <1>3, <1>4, <1>6, LocalStep
<1> QED BY <1>1, <1>7 DEF Consistent

\* A request stores what it is to leave behind: its session, or the empty one.
LEMMA PutCurrentStep ==
    ASSUME Consistent, NEW r \in Req, req[r].pc \in {"redirect", "respond"}
    PROVE  Good(Stored(store, Current(req[r]), Content(req[r])), cookie, req, usedForms,
                Recorded(req[r], past), cleared)
<1>1. Fits(req[r])
    BY Now
<1>2. CASE req[r].fresh = NoSid
    BY <1>2, PutOwnStep DEF Consistent, Current, Content
<1>3. CASE req[r].fresh # NoSid
  <2>1. Recorded(req[r], past) = past
      BY <1>1, <1>3 DEF Fits, Recorded
  <2> QED BY <1>3, <2>1, PutFreshStep DEF Consistent, Current, Content
<1> QED BY <1>2, <1>3

LEMMA SaveForRedirectKeeps ==
    ASSUME Consistent, NEW r \in Req, SaveForRedirect(r) PROVE Consistent'
<1>1. /\ req[r] \in Request /\ Fits(req[r]) /\ req[r].pc = "redirect"
      /\ req[r].kind # "refused" /\ UNCHANGED <<cookie, usedForms, past, cleared>>
    BY Now DEF SaveForRedirect, Fits
<1> DEFINE x == [req[r] EXCEPT !.pc = "respond", !.saved = TRUE]
<1>2. x \in Request /\ x.pc = "respond" /\ x.sess = req[r].sess /\ x.kind = req[r].kind
      /\ x.arg = req[r].arg /\ x.sid = req[r].sid /\ x.fresh = req[r].fresh
      /\ x.alone = req[r].alone /\ x.original = req[r].original
    BY <1>1 DEF Request
<1>3. req' = [req EXCEPT ![r] = x] /\ store' = Stored(store, Current(req[r]), Content(req[r]))
    BY DEF SaveForRedirect, Put, Stored
<1> HIDE DEF x
<1>4. Good(store', cookie, req, usedForms, past, cleared)
    BY <1>1, <1>3, PutCurrentStep DEF Recorded
<1>5. Agrees(req[r], store', usedForms, past)
    BY <1>4 DEF Good
<1>6. req[r].kind = "restart" => store'[req[r].sid] = req[r].sess
    BY <1>1, <1>3 DEF Fits, Stored, Current, Content
<1>7. Fits(x)
    BY <1>1, <1>2 DEF Fits
<1>8. Agrees(x, store', usedForms, past)
    BY <1>1, <1>2, <1>5, <1>6 DEF Fits, Agrees, Forms
<1>9. Good(store', cookie, req', usedForms, past, cleared)
    BY <1>1, <1>2, <1>3, <1>4, <1>7, <1>8, LocalStep
<1> QED BY <1>1, <1>9 DEF Consistent

LEMMA SaveFailsKeeps ==
    ASSUME Consistent, NEW r \in Req, SaveFails(r) PROVE Consistent'
<1>1. /\ req[r] \in Request /\ Fits(req[r]) /\ Agrees(req[r], store, usedForms, past)
      /\ req[r].pc \in {"handler", "filter", "mapped", "redirect"}
      /\ UNCHANGED <<store, cookie, usedForms, past, cleared>>
    BY Now DEF SaveFails
<1> DEFINE pc == IF req[r].pc = "handler" THEN "redirect" ELSE "respond"
           x == [req[r] EXCEPT !.pc = pc, !.saved = TRUE, !.failed = TRUE]
<1>2. x \in Request /\ x.pc = pc /\ x.sess = req[r].sess /\ x.kind = req[r].kind
      /\ x.arg = req[r].arg /\ x.sid = req[r].sid /\ x.fresh = req[r].fresh
      /\ x.alone = req[r].alone /\ x.original = req[r].original /\ x.failed
    BY <1>1 DEF Request
<1>3. req' = [req EXCEPT ![r] = x]
    BY DEF SaveFails
<1> HIDE DEF x
<1>4. Fits(x)
    BY <1>1, <1>2 DEF Fits
<1>5. Agrees(x, store, usedForms, past)
    BY <1>1, <1>2 DEF Agrees, Forms
<1>6. Good(store, cookie, req', usedForms, past, cleared)
    BY <1>1, <1>2, <1>3, <1>4, <1>5, LocalStep DEF Consistent
<1> QED BY <1>1, <1>6 DEF Consistent

LEMMA RedirectFromLoginKeeps ==
    ASSUME Consistent, NEW r \in Req, req[r].pc = "loaded", req[r].kind \in {"page", "api"},
           NEW content, Kept(req[r].sess, content),
           NEW url \in Page \cup {NoUrl}, RedirectFromLogin(r, content, url),
           UNCHANGED <<store, cookie, usedForms, past, cleared>>
    PROVE  Consistent'
<1>1. /\ req[r] \in Request /\ Fits(req[r]) /\ Agrees(req[r], store, usedForms, past)
    BY Now
<1> DEFINE c == Remembering(content, url)
           x == [req[r] EXCEPT !.pc = "filter", !.kind = "refused", !.arg = url, !.sess = c]
<1>2. /\ c \in Session /\ Sound(c) /\ c.form = req[r].sess.form
      /\ c.auth = "in" => req[r].sess.auth = "in"
      /\ Ends(c.intend, url)
  <2>1. /\ content \in Session /\ Sound(content) /\ content.form = req[r].sess.form
        /\ content.auth = "in" => req[r].sess.auth = "in"
      BY DEF Kept
  <2> QED BY <2>1, RememberingSets
<1> HIDE DEF c
<1>3. x \in Request /\ x.pc = "filter" /\ x.sess = c /\ x.kind = "refused"
      /\ x.arg = url /\ x.sid = req[r].sid /\ x.fresh = req[r].fresh
      /\ x.alone = req[r].alone /\ x.original = req[r].original
    BY <1>1, <1>2 DEF Request
<1>4. req' = [req EXCEPT ![r] = x]
    BY DEF RedirectFromLogin, c
<1> HIDE DEF x
<1>5. Fits(x)
    BY <1>1, <1>2, <1>3 DEF Fits
<1>6. Agrees(x, store, usedForms, past)
    BY <1>1, <1>2, <1>3 DEF Agrees, Forms, Fits
<1>7. Good(store, cookie, req', usedForms, past, cleared)
    BY <1>2, <1>3, <1>4, <1>5, <1>6, LocalStep DEF Consistent
<1> QED BY <1>7 DEF Consistent

LEMMA VisitPageKeeps ==
    ASSUME Consistent, NEW r \in Req, NEW method \in {"GET", "POST", "json"}, VisitPage(r, method)
    PROVE  Consistent'
<1>1. /\ req[r] \in Request /\ Fits(req[r]) /\ req[r].pc = "loaded" /\ req[r].kind = "page"
      /\ UNCHANGED <<store, cookie, usedForms, past, cleared>>
    BY Now DEF VisitPage
<1>2. req[r].sess \in Session /\ Sound(req[r].sess) /\ req[r].arg \in Page \cup {NoUrl}
    BY <1>1 DEF Request, Fits
<1>3. CASE Work(r, Entered(AfterWebGuard(req[r].sess)), "respond")
    BY <1>1, <1>2, <1>3, PairsKeep, KeptWorkKeeps
<1>4. CASE Work(r, AfterWebGuard(req[r].sess), "respond")
    BY <1>1, <1>2, <1>4, GuardKeeps, KeptWorkKeeps
<1>5. CASE \E url \in Page \cup {NoUrl} : RedirectFromLogin(r, UserFromSession(req[r].sess), url)
    BY <1>1, <1>2, <1>5, GuardKeeps, RedirectFromLoginKeeps
<1>6. \/ Work(r, Entered(AfterWebGuard(req[r].sess)), "respond")
      \/ Work(r, AfterWebGuard(req[r].sess), "respond")
      \/ \E url \in Page \cup {NoUrl} : RedirectFromLogin(r, UserFromSession(req[r].sess), url)
    BY <1>2 DEF VisitPage
<1> QED BY <1>3, <1>4, <1>5, <1>6

LEMMA VisitAsGuestKeeps ==
    ASSUME Consistent, NEW r \in Req, VisitAsGuest(r) PROVE Consistent'
<1>1. req[r].sess \in Session /\ Sound(req[r].sess)
    BY Now DEF Request, Fits
<1> QED BY <1>1, PairsKeep, KeptWorkKeeps DEF VisitAsGuest

LEMMA KillForApiKeeps ==
    ASSUME Consistent, NEW r \in Req, KillForApi(r) PROVE Consistent'
<1>1. /\ req \in [Req -> Request] /\ req[r] \in Request /\ Fits(req[r])
      /\ past \in [Sid -> Past] /\ req[r].pc = "loaded"
      /\ UNCHANGED <<cookie, usedForms, cleared>>
    BY Now DEF KillForApi
<1> DEFINE s == req[r].sid
           p == [past[s] EXCEPT !.destroyed = req[r].alone]
<1>2. s \in Sid /\ past[s] \in Past /\ req[r].alone \in BOOLEAN
    BY <1>1 DEF Fits, Request
<1>3. p \in Past /\ p.destroyed = req[r].alone /\ p.shared = past[s].shared
      /\ p.committed = past[s].committed /\ p.wanted = past[s].wanted
    BY <1>2 DEF Past
<1>4. /\ past' = [past EXCEPT ![s] = p] /\ req' = [req EXCEPT ![r] = Idle]
      /\ store' = [t \in DOMAIN store \ {s} |-> store[t]]
    BY DEF KillForApi, Remove, Finish
<1> HIDE DEF p
<1>5. Good(store', cookie, req, usedForms, past, cleared) /\ s \notin DOMAIN store'
    BY <1>4, RemoveStep DEF Consistent
<1>6. cleared \subseteq usedForms
    BY DEF Consistent, Good, Typed
<1>7. Good(store', cookie, req', usedForms, past, cleared)
    BY <1>1, <1>4, <1>5, <1>6, FinishStep
<1>8. CASE req[r].alone
  <2>1. \A q \in Req \ {r} : req[q].sid # s /\ req[q].fresh # s
    <3>1. IdsApart(r, cookie, req, past) /\ \A q \in Req : IdsApart(q, cookie, req, past)
        BY DEF Consistent, Good
    <3>2. req[r].fresh = NoSid /\ s # NoSid
        BY <1>1, <1>2, SessionAssumption DEF Fits
    <3> QED BY <1>1, <1>8, <3>1, <3>2 DEF IdsApart
  <2>2. Free(s, store', req')
      BY <1>1, <1>4, <1>5, <2>1, IdleFits DEF Free, Holds
  <2>3. p.destroyed = TRUE
      BY <1>3, <1>8
  <2> QED BY <1>1, <1>2, <1>3, <1>4, <1>7, <2>2, <2>3, PastStep DEF Consistent
<1>9. CASE ~req[r].alone
  <2>1. p.destroyed = FALSE
      BY <1>2, <1>3, <1>9
  <2> QED BY <1>1, <1>2, <1>3, <1>4, <1>7, <2>1, PastStep DEF Consistent
<1> QED BY <1>8, <1>9

LEMMA RefuseApiKeeps ==
    ASSUME Consistent, NEW r \in Req, RefuseApi(r) PROVE Consistent'
<1>1. req[r].sess \in Session /\ Sound(req[r].sess)
    BY Now DEF Request, Fits
<1>2. req[r].pc = "loaded" /\ req[r].kind = "api" /\ UNCHANGED <<store, cookie, usedForms, past, cleared>>
    BY DEF RefuseApi
<1>3. CASE Goto(r, "respond")
    BY <1>2, <1>3, GotoKeeps
<1>4. CASE \E url \in Page \cup {NoUrl} : RedirectFromLogin(r, req[r].sess, url)
  <2>1. Kept(req[r].sess, req[r].sess)
      BY <1>1 DEF Kept
  <2> QED BY <1>2, <1>4, <2>1, RedirectFromLoginKeeps
<1>5. CASE \E body \in BOOLEAN : Work(r, FlashErrors(req[r].sess, "api", body), "filter")
  <2>1. "api" \in Flash
      BY DEF Flash
  <2> QED BY <1>1, <1>2, <1>5, <2>1, FlashErrorsKeeps, KeptWorkKeeps
<1> QED BY <1>3, <1>4, <1>5 DEF RefuseApi

LEMMA RespondKeeps ==
    ASSUME Consistent, NEW r \in Req, Respond(r) PROVE Consistent'
<1>1. /\ req[r] \in Request /\ Fits(req[r]) /\ req[r].pc = "respond"
      /\ cookie' \in {cookie, Current(req[r])}
    BY Now DEF Respond
<1>2. Good(store', cookie, req, usedForms, past', cleared)
  <2>1. CASE ShouldSave(req[r])
    <3>1. /\ store' = Stored(store, Current(req[r]), Content(req[r]))
          /\ past' = Recorded(req[r], past)
        BY <2>1 DEF Respond, Put, Stored, Noted, Recorded
    <3> QED BY <1>1, <3>1, PutCurrentStep
  <2>2. CASE ~ShouldSave(req[r])
      BY <2>2 DEF Respond, Consistent
  <2> QED BY <2>1, <2>2
<1>3. /\ Agrees(req[r], store', usedForms, past') /\ IdsApart(r, cookie, req, past')
      /\ FormsApart(store', req) /\ cleared \subseteq usedForms
    BY <1>2 DEF Good, Typed
<1>4. CASE cleared' = cleared
  <2>1. Good(store', cookie', [req EXCEPT ![r] = Idle], usedForms, past', cleared)
      BY <1>1, <1>2, <1>3, FinishStep
  <2> QED BY <1>4, <2>1 DEF Consistent, Respond, Finish
<1>5. CASE cleared' # cleared
  <2> DEFINE f == req[r].original.form
  <2>1. /\ cleared' = cleared \cup {f} /\ req[r].kind = "restart" /\ f # NoForm
        /\ req[r].alone /\ ~req[r].failed
      BY <1>5 DEF Respond
  <2>2. f \in Forms(req[r]) /\ f \in usedForms
      BY <1>3, <2>1 DEF Forms, Agrees
  <2>3. \A s \in DOMAIN store' : store'[s].form # f
      BY <1>1, <1>3, <2>1, <2>2 DEF FormsApart, Agrees
  <2>4. \A q \in Req \ {r} : req[q].sess.form # f
    <3>1. \A q \in Req \ {r} : req[q].sid # req[r].sid
        BY <1>1, <1>3, <2>1 DEF IdsApart
    <3>2. \A q \in Req : req[q].sess.form = f => f \in Forms(req[q])
        BY <2>1 DEF Forms
    <3> QED BY <1>3, <2>2, <3>1, <3>2 DEF FormsApart
  <2>5. cleared' \subseteq usedForms /\ cleared \subseteq cleared'
      BY <1>3, <2>1, <2>2
  <2>6. \A g \in cleared' \ cleared : /\ \A s \in DOMAIN store' : store'[s].form # g
                                     /\ \A q \in Req \ {r} : req[q].sess.form # g
      BY <2>1, <2>3, <2>4
  <2>7. Good(store', cookie', [req EXCEPT ![r] = Idle], usedForms, past', cleared')
      BY <1>1, <1>2, <2>5, <2>6, FinishStep
  <2> QED BY <2>7 DEF Consistent, Respond, Finish
<1> QED BY <1>4, <1>5

LEMMA CrashKeeps == ASSUME Consistent, Crash PROVE Consistent'
<1>1. Good(store, cookie, req', usedForms, past, cleared)
    BY CrashStep DEF Consistent, Crash
<1>2. CASE store' = store
    BY <1>1, <1>2 DEF Consistent, Crash
<1>3. CASE store' = NoSessions
  <2>1. {} \in SUBSET DOMAIN store /\ NoSessions = [t \in {} |-> store[t]]
      BY DEF NoSessions
  <2>2. Good(NoSessions, cookie, req', usedForms, past, cleared)
      BY <1>1, <2>1, RemoveStep
  <2> QED BY <1>3, <2>2 DEF Consistent, Crash
<1> QED BY <1>2, <1>3 DEF Crash

-----------------------------------------------------------------------------
IInv == Consistent /\ user \in BOOLEAN /\ arrived \in 0 .. MaxRequests

LEMMA InitConsistent == Init => IInv
<1> SUFFICES ASSUME Init PROVE IInv
    OBVIOUS
<1>1. DOMAIN store = {} /\ store \in [DOMAIN store -> Session]
    BY DEF Init, NoSessions
<1>2. \A r \in Req : req[r] = Idle
    BY DEF Init
<1>3. past \in [Sid -> Past] /\ \A s \in Sid : past[s] = NoPast
    BY DEF Init, Past, NoPast
<1>4. Typed(store, cookie, req, usedForms, past, cleared)
    BY <1>1, <1>3, IdleFits DEF Init, Typed
<1>5. Agrees(Idle, store, usedForms, past)
    BY IdleFits DEF Agrees
<1>6. \A r \in Req : Fits(req[r]) /\ Agrees(req[r], store, usedForms, past)
    BY <1>2, <1>5, IdleFits
<1>7. \A r \in Req : IdsApart(r, cookie, req, past)
    BY <1>2, IdleFits DEF IdsApart
<1>8. FormsApart(store, req)
    BY <1>1, <1>2, IdleFits DEF FormsApart
<1>9. GoneWell(store, req, past)
    BY <1>3 DEF GoneWell, NoPast
<1>10. Consistent
    BY <1>1, <1>4, <1>6, <1>7, <1>8, <1>9 DEF Consistent, Good, Init
<1> QED BY <1>10, SessionAssumption DEF IInv, Init

LEMMA HandleKeeps ==
    ASSUME Consistent, NEW r \in Req, Handle(r) PROVE Consistent'
<1>1. CASE \E kind \in {"login", "register", "restart", "attempt", "guest", "api"} :
              Arrive(r, kind, NoUrl)
    BY <1>1, ArriveKeeps
<1>2. CASE \E f \in Form : Arrive(r, "password", f)
    BY <1>2, ArriveKeeps
<1>3. CASE \E u \in Page : Arrive(r, "page", u)
    BY <1>3, ArriveKeeps
<1>4. CASE \E valid \in BOOLEAN : ShowLogin(r, valid) \/ \E f \in Form : RegisterEmail(r, f, valid)
    BY <1>4, ShowLoginKeeps, RegisterEmailKeeps
<1>5. CASE ShowPassword(r) \/ Restart(r) \/ \E verdict \in Verdicts : LoginGuard(r, verdict)
    BY <1>5, ShowPasswordKeeps, RestartKeeps, LoginGuardKeeps
<1>6. CASE IssueChallenge(r) \/ MapUser(r) \/ SaveMapped(r)
    BY <1>6, IssueChallengeKeeps, MapUserKeeps, SaveMappedKeeps
<1>7. CASE SaveInHandler(r) \/ SaveForRedirect(r) \/ SaveInFilter(r) \/ SaveFails(r)
    BY <1>7, SaveInHandlerKeeps, SaveForRedirectKeeps, SaveInFilterKeeps, SaveFailsKeeps
<1>8. CASE \E method \in {"GET", "POST", "json"} : VisitPage(r, method)
    BY <1>8, VisitPageKeeps
<1>9. CASE VisitAsGuest(r) \/ KillForApi(r) \/ RefuseApi(r) \/ Respond(r)
    BY <1>9, VisitAsGuestKeeps, KillForApiKeeps, RefuseApiKeeps, RespondKeeps
<1> QED BY <1>1, <1>2, <1>3, <1>4, <1>5, <1>6, <1>7, <1>8, <1>9 DEF Handle

\* user and arrived are on their own.
LEMMA CountsKeep ==
    ASSUME user \in BOOLEAN, arrived \in 0 .. MaxRequests, [Next]_vars
    PROVE  user' \in BOOLEAN /\ arrived' \in 0 .. MaxRequests
<1> DEFINE Still == user' = user /\ arrived' = arrived
           More == user' = user /\ arrived < MaxRequests /\ arrived' = arrived + 1
<1>1. \A r, kind, arg : Arrive(r, kind, arg) => More
    BY DEF Arrive
<1>2. \A r : /\ \A v : ShowLogin(r, v) => Still
             /\ \A f, v : RegisterEmail(r, f, v) => Still
             /\ ShowPassword(r) \/ Restart(r) => Still
             /\ \A v : LoginGuard(r, v) => Still
    BY DEF ShowLogin, RegisterEmail, ShowPassword, Restart, LoginGuard
<1>3. \A r : IssueChallenge(r) \/ MapUser(r) \/ SaveMapped(r) => Still
    BY DEF IssueChallenge, MapUser, SaveMapped
<1>4. \A r : SaveInHandler(r) \/ SaveForRedirect(r) \/ SaveInFilter(r) \/ SaveFails(r) =>
          Still
    BY DEF SaveInHandler, SaveForRedirect, SaveInFilter, SaveFails
<1>5. \A r : /\ \A m : VisitPage(r, m) => Still
             /\ VisitAsGuest(r) \/ KillForApi(r) \/ RefuseApi(r) \/ Respond(r) =>
                    Still
    BY DEF VisitPage, VisitAsGuest, KillForApi, RefuseApi, Respond
<1> HIDE DEF Still, More
<1>6. ASSUME NEW r \in Req, Handle(r)
      PROVE  Still \/ More
    BY <1>1, <1>2, <1>3, <1>4, <1>5, <1>6 DEF Handle
<1>7. CASE DeleteUser \/ Crash \/ UNCHANGED vars
    BY <1>7 DEF DeleteUser, Crash, vars
<1> QED BY <1>6, <1>7, SessionAssumption DEF Next, Still, More

LEMMA NextIInv == IInv /\ [Next]_vars => IInv'
<1> SUFFICES ASSUME IInv, [Next]_vars PROVE IInv'
    OBVIOUS
<1>1. Consistent
    BY DEF IInv
<1>2. Consistent'
  <2>1. CASE \E r \in Req : Handle(r)
      BY <1>1, <2>1, HandleKeeps
  <2>2. CASE Crash
      BY <1>1, <2>2, CrashKeeps
  <2>3. CASE DeleteUser \/ UNCHANGED vars
      BY <1>1, <2>3 DEF DeleteUser, vars, Consistent
  <2> QED BY <2>1, <2>2, <2>3 DEF Next
<1> QED BY <1>2, CountsKeep DEF IInv

\* Good is an invariant of the specification.
THEOREM InvariantHolds == Spec => []IInv
BY InitConsistent, NextIInv, PTL DEF Spec

-----------------------------------------------------------------------------
\* Every variable keeps its type.
THEOREM TypeCorrect == Spec => []TypeOK
<1>1. IInv => TypeOK
    BY DEF IInv, Consistent, Good, Typed, Past, TypeOK
<1> QED BY <1>1, InvariantHolds, PTL

\* All content there is of sessions is sound: what is stored, and what requests
\* hold.
LEMMA ContentsSound == IInv => \A c \in Contents : Sound(c)
BY DEF IInv, Consistent, Good, StoredWell, Fits, Contents

\* ErrorValidationFormatFilter, with a body or without, and the interceptors
\* leave no old inputs that the errors next to them are not about, over any
\* overlap of requests, failed saves and restarts.
THEOREM InputsBelongToErrorsHolds == Spec => []InputsBelongToErrors
<1>1. IInv => InputsBelongToErrors
    BY ContentsSound DEF Sound, InputsBelongToErrors
<1> QED BY <1>1, InvariantHolds, PTL

\* setUrl and setupIntend never let the intended URLs of a session grow past two.
THEOREM IntendHoldsTwoHolds == Spec => []IntendHoldsTwo
<1>1. IInv => IntendHoldsTwo
    BY ContentsSound DEF Sound, IntendHoldsTwo
<1> QED BY <1>1, InvariantHolds, PTL

\* While no two requests share a session, the last URL RedirectFromLoginFilter
\* stored in it is the last one refused.
THEOREM LatestRefusalIsIntendedHolds == Spec => []LatestRefusalIsIntended
<1>1. IInv => LatestRefusalIsIntended
  <2> SUFFICES ASSUME IInv, NEW s \in DOMAIN store, ~past[s].shared, store[s].intend # <<>>
               PROVE  store[s].intend[Len(store[s].intend)] = past[s].wanted
      BY DEF LatestRefusalIsIntended
  <2>1. StoredWell(s, store[s], usedForms, past)
      BY DEF IInv, Consistent, Good
  <2> QED BY <2>1 DEF StoredWell, Ends
<1> QED BY <1>1, InvariantHolds, PTL

\* After restartLoginFlow is answered to a request that was alone, the form is
\* in no session and no request.
THEOREM ClearedFormStaysClearedHolds == Spec => []ClearedFormStaysCleared
<1>1. IInv => ClearedFormStaysCleared
    BY DEF IInv, Consistent, Good, NotShown, ClearedFormStaysCleared, Contents
<1> QED BY <1>1, InvariantHolds, PTL

\* What KillForApiInterceptor destroyed for a request that was alone is not
\* stored by a later save.
THEOREM DestroyedStaysDestroyedHolds == Spec => []DestroyedStaysDestroyed
<1>1. IInv => DestroyedStaysDestroyed
    BY DEF IInv, Consistent, Good, Typed, GoneWell, DestroyedStaysDestroyed
<1> QED BY <1>1, InvariantHolds, PTL

\* mapSessionWithUser signs a session in only after the transaction of
\* processLoginAttempt has committed.
THEOREM AuthFollowsCommitHolds == Spec => []AuthFollowsCommit
<1>1. IInv => AuthFollowsCommit
    BY DEF IInv, Consistent, Good, StoredWell, AuthFollowsCommit
<1> QED BY <1>1, InvariantHolds, PTL

\* The form of registerEmail stays in the session it was registered in, also
\* when regenerate gives the browser a new one.
THEOREM FormBelongsToOneSessionHolds == Spec => []FormBelongsToOneSession
<1>1. IInv => FormBelongsToOneSession
    BY DEF IInv, Consistent, Good, FormsApart, FormBelongsToOneSession
<1> QED BY <1>1, InvariantHolds, PTL

-----------------------------------------------------------------------------
(* How far the finding reaches: what a login gives to the browser.           *)

\* Nobody but the login itself stores anything under the id it gives out, and
\* the login stores an empty session there.
FreshFits(q, st) ==
    q.fresh # NoSid =>
        /\ q.fresh \in DOMAIN st => st[q.fresh] = Blank
        /\ q.pc = "respond" /\ ~q.failed => q.fresh \in DOMAIN st

FreshInv == \A r \in Req : FreshFits(req[r], store)

\* A step of request r leaves sessions other than its own, and what the other
\* requests have to do with fresh sessions.
OwnSessionsOnly(r) ==
    \A s \in Sid \ {req[r].sid, req[r].fresh} :
        /\ s \in DOMAIN store' <=> s \in DOMAIN store
        /\ s \in DOMAIN store => store'[s] = store[s]

OthersStay(r) ==
    \A q \in Req \ {r} : /\ req'[q].fresh = req[q].fresh /\ req'[q].pc = req[q].pc
                         /\ req'[q].failed = req[q].failed

LEMMA FreshKept ==
    ASSUME Consistent, FreshInv, NEW r \in Req,
           OthersStay(r), OwnSessionsOnly(r), FreshFits(req'[r], store')
    PROVE  FreshInv'
<1>1. ASSUME NEW q \in Req \ {r} PROVE FreshFits(req'[q], store')
  <2>1. req[q].fresh \in Sid \cup {NoSid}
      BY DEF Consistent, Good, Typed, Request
  <2>2. req[q].fresh # NoSid => req[q].fresh \in Sid \ {req[r].sid, req[r].fresh}
      BY <2>1 DEF Consistent, Good, IdsApart
  <2>3. FreshFits(req[q], store)
      BY DEF FreshInv
  <2> QED BY <2>2, <2>3 DEF FreshFits, OthersStay, OwnSessionsOnly
<1> QED BY <1>1 DEF FreshInv

LEMMA OwnStep ==
    ASSUME Consistent, NEW r \in Req, NEW x, req' = [req EXCEPT ![r] = x]
    PROVE  OthersStay(r) /\ req'[r] = x
BY Now DEF OthersStay

LEMMA OwnPut ==
    ASSUME NEW r \in Req, NEW s \in {req[r].sid, req[r].fresh}, NEW c, Put(s, c)
    PROVE  OwnSessionsOnly(r) /\ s \in DOMAIN store' /\ store'[s] = c
BY DEF Put, OwnSessionsOnly

LEMMA OwnRemove ==
    ASSUME NEW r \in Req, Remove(req[r].sid)
    PROVE  OwnSessionsOnly(r) /\ DOMAIN store' \subseteq DOMAIN store
BY DEF Remove, OwnSessionsOnly

\* Before a login regenerates its session it has no fresh one, and neither has
\* any other request.
LEMMA NotFreshYet ==
    ASSUME Consistent, NEW r \in Req, req[r].pc \notin {"mapped", "redirect", "respond"}
    PROVE  req[r] \in Request /\ req[r].fresh = NoSid
BY Now DEF Fits

LEMMA LocalFresh ==
    ASSUME Consistent, FreshInv, NEW r \in Req,
           req[r].pc \notin {"mapped", "redirect", "respond"}, store' = store,
           NEW x, req' = [req EXCEPT ![r] = x], x.fresh = req[r].fresh
    PROVE  FreshInv'
<1>1. req'[r].fresh = NoSid /\ OthersStay(r)
    BY OwnStep, NotFreshYet
<1>2. FreshFits(req'[r], store') /\ OwnSessionsOnly(r)
    BY <1>1 DEF FreshFits, OwnSessionsOnly
<1> QED BY <1>1, <1>2, FreshKept

LEMMA WorkFresh ==
    ASSUME Consistent, FreshInv, NEW r \in Req,
           req[r].pc \notin {"mapped", "redirect", "respond"}, store' = store,
           NEW pc, Goto(r, pc) \/ \E content : Work(r, content, pc)
    PROVE  FreshInv'
<1>1. req[r] \in Request
    BY NotFreshYet
<1>2. CASE Goto(r, pc)
  <2>1. [req[r] EXCEPT !.pc = pc].fresh = req[r].fresh
      BY <1>1 DEF Request
  <2> QED BY <1>2, <2>1, LocalFresh DEF Goto
<1>3. ASSUME NEW content, Work(r, content, pc) PROVE FreshInv'
  <2>1. [req[r] EXCEPT !.sess = content, !.pc = pc].fresh = req[r].fresh
      BY <1>1 DEF Request
  <2> QED BY <1>3, <2>1, LocalFresh DEF Work
<1> QED BY <1>2, <1>3

LEMMA HandlersFresh ==
    ASSUME Consistent, FreshInv, NEW r \in Req
    PROVE  /\ \A valid \in BOOLEAN : ShowLogin(r, valid) => FreshInv'
           /\ \A f \in Form, valid \in BOOLEAN : RegisterEmail(r, f, valid) => FreshInv'
           /\ ShowPassword(r) \/ Restart(r) \/ VisitAsGuest(r) => FreshInv'
           /\ \A verdict \in Verdicts : LoginGuard(r, verdict) => FreshInv'
           /\ IssueChallenge(r) => FreshInv'
<1>1. ASSUME NEW valid \in BOOLEAN, ShowLogin(r, valid) PROVE FreshInv'
    BY <1>1, WorkFresh DEF ShowLogin, Reject
<1>2. ASSUME NEW f \in Form, NEW valid \in BOOLEAN, RegisterEmail(r, f, valid) PROVE FreshInv'
    BY <1>2, WorkFresh DEF RegisterEmail, Reject
<1>3. CASE ShowPassword(r) \/ Restart(r)
    BY <1>3, WorkFresh DEF ShowPassword, Restart
<1>4. CASE VisitAsGuest(r)
    BY <1>4, WorkFresh DEF VisitAsGuest
<1>5. ASSUME NEW verdict \in Verdicts, LoginGuard(r, verdict) PROVE FreshInv'
  <2>1. /\ req[r].pc = "loaded" /\ store' = store
        /\ \E pc : Goto(r, pc) \/ \E content : Work(r, content, pc)
      BY <1>5, Zenon DEF LoginGuard
  <2> QED BY <2>1, WorkFresh
<1>6. CASE IssueChallenge(r)
    BY <1>6, WorkFresh DEF IssueChallenge
<1> QED BY <1>1, <1>2, <1>3, <1>4, <1>5, <1>6

LEMMA RedirectFresh ==
    ASSUME Consistent, FreshInv, NEW r \in Req, req[r].pc = "loaded", store' = store,
           NEW content, NEW url, RedirectFromLogin(r, content, url)
    PROVE  FreshInv'
<1> DEFINE x == [req[r] EXCEPT !.pc = "filter", !.kind = "refused", !.arg = url,
                               !.sess = Remembering(content, url)]
<1>1. x.fresh = req[r].fresh
    BY NotFreshYet DEF Request
<1>2. req' = [req EXCEPT ![r] = x]
    BY DEF RedirectFromLogin
<1> QED BY <1>1, <1>2, LocalFresh

LEMMA RefuseApiFresh ==
    ASSUME Consistent, FreshInv, NEW r \in Req, RefuseApi(r)
    PROVE  FreshInv'
<1>1. req[r].pc = "loaded" /\ store' = store
    BY DEF RefuseApi
<1>2. CASE \E url : RedirectFromLogin(r, req[r].sess, url)
    BY <1>1, <1>2, RedirectFresh
<1>3. CASE \E pc : Goto(r, pc) \/ \E content : Work(r, content, pc)
    BY <1>1, <1>3, WorkFresh
<1> QED BY <1>2, <1>3 DEF RefuseApi

LEMMA VisitPageFresh ==
    ASSUME Consistent, FreshInv, NEW r \in Req, NEW method \in {"GET", "POST", "json"},
           VisitPage(r, method)
    PROVE  FreshInv'
<1>1. req[r].pc = "loaded" /\ store' = store
    BY DEF VisitPage
<1>2. CASE \E content, url : RedirectFromLogin(r, content, url)
    BY <1>1, <1>2, RedirectFresh
<1>3. CASE \E content, pc : Work(r, content, pc)
    BY <1>1, <1>3, WorkFresh
<1>4. \/ \E content, url : RedirectFromLogin(r, content, url)
      \/ \E content, pc : Work(r, content, pc)
  <2>1. CASE method = "GET"
      BY <2>1 DEF VisitPage
  <2>2. CASE method = "POST"
      BY <2>2 DEF VisitPage
  <2>3. CASE method = "json"
      BY <2>3 DEF VisitPage
  <2> QED BY <2>1, <2>2, <2>3
<1> QED BY <1>2, <1>3, <1>4

LEMMA ArriveFresh ==
    ASSUME Consistent, FreshInv, NEW r \in Req, NEW kind, NEW arg, Arrive(r, kind, arg)
    PROVE  FreshInv'
<1> DEFINE known == cookie \in DOMAIN store
           x(s) == LET content == IF known THEN store[s] ELSE Blank
                   IN  [pc |-> "loaded", kind |-> kind, arg |-> arg, sid |-> s,
                        fresh |-> NoSid, isNew |-> ~known, alone |-> ~Held(s),
                        saved |-> FALSE, failed |-> FALSE, sess |-> content, original |-> content]
<1>1. PICK s \in Sid :
          req' = [q \in Req |-> IF q = r THEN x(s)
                                ELSE IF req[q].sid = s THEN [req[q] EXCEPT !.alone = FALSE]
                                ELSE req[q]]
    BY Zenon DEF Arrive
<1>a. x(s).fresh = NoSid
    OBVIOUS
<1> HIDE DEF x
<1>2. OthersStay(r)
  <2>1. \A q \in Req : req[q] \in Request
      BY Now
  <2>2. ASSUME NEW q \in Req
        PROVE  LET y == [req[q] EXCEPT !.alone = FALSE]
               IN  y.fresh = req[q].fresh /\ y.pc = req[q].pc /\ y.failed = req[q].failed
      BY <2>1 DEF Request
  <2> QED BY <1>1, <2>2 DEF OthersStay
<1>3. FreshFits(req'[r], store')
    BY <1>1, <1>a DEF FreshFits
<1>4. OwnSessionsOnly(r)
    BY DEF Arrive, OwnSessionsOnly
<1> QED BY <1>2, <1>3, <1>4, FreshKept

\* The steps of a login from regenerate to its answer.
LEMMA MapUserFresh ==
    ASSUME Consistent, FreshInv, NEW r \in Req, MapUser(r)
    PROVE  FreshInv'
<1>1. req[r] \in Request /\ req[r].pc = "issued"
    BY Now DEF MapUser
<1>2. CASE ~user
    BY <1>1, <1>2, WorkFresh DEF MapUser
<1>3. CASE user
  <2>1. PICK s \in Sid :
            /\ Unused(s) /\ Remove(req[r].sid)
            /\ req' = [req EXCEPT ![r] = [@ EXCEPT !.pc = "mapped", !.fresh = s,
                                                   !.sess = SignedIn(req[r].sess)]]
      BY <1>3 DEF MapUser
  <2> DEFINE x == [req[r] EXCEPT !.pc = "mapped", !.fresh = s, !.sess = SignedIn(req[r].sess)]
  <2>2. x.pc = "mapped" /\ x.fresh = s
      BY <1>1 DEF Request
  <2>3. req' = [req EXCEPT ![r] = x]
      BY <2>1
  <2> HIDE DEF x
  <2>4. OthersStay(r) /\ req'[r] = x
      BY <2>3, OwnStep
  <2>5. OwnSessionsOnly(r) /\ s \notin DOMAIN store'
      BY <2>1, OwnRemove DEF Unused
  <2>6. FreshFits(req'[r], store')
      BY <2>2, <2>4, <2>5 DEF FreshFits
  <2> QED BY <2>4, <2>5, <2>6, FreshKept
<1> QED BY <1>2, <1>3

LEMMA SaveMappedFresh ==
    ASSUME Consistent, FreshInv, NEW r \in Req, SaveMapped(r)
    PROVE  FreshInv'
<1> DEFINE x == [req[r] EXCEPT !.pc = "redirect"]
<1>1. req[r] \in Request
    BY Now
<1>2. x.pc = "redirect" /\ x.fresh = req[r].fresh
    BY <1>1 DEF Request
<1>3. req' = [req EXCEPT ![r] = x]
    BY DEF SaveMapped, Goto
<1> HIDE DEF x
<1>4. OthersStay(r) /\ req'[r] = x
    BY <1>3, OwnStep
<1>5. Put(req[r].sid, req[r].sess)
    BY DEF SaveMapped
<1>6. OwnSessionsOnly(r)
    BY <1>5, OwnPut
<1>7. req[r].fresh # NoSid => req[r].fresh # req[r].sid
    BY DEF Consistent, Good, IdsApart
<1>8. FreshFits(req[r], store)
    BY DEF FreshInv
<1>9. FreshFits(req'[r], store')
    BY <1>2, <1>4, <1>5, <1>7, <1>8 DEF FreshFits, Put
<1> QED BY <1>4, <1>6, <1>9, FreshKept

LEMMA SaveForRedirectFresh ==
    ASSUME Consistent, FreshInv, NEW r \in Req, SaveForRedirect(r)
    PROVE  FreshInv'
<1> DEFINE x == [req[r] EXCEPT !.pc = "respond", !.saved = TRUE]
<1>1. req[r] \in Request
    BY Now
<1>2. x.fresh = req[r].fresh
    BY <1>1 DEF Request
<1>3. req' = [req EXCEPT ![r] = x]
    BY DEF SaveForRedirect
<1> HIDE DEF x
<1>4. OthersStay(r) /\ req'[r] = x
    BY <1>3, OwnStep
<1>5. Put(Current(req[r]), Content(req[r])) /\ Current(req[r]) \in {req[r].sid, req[r].fresh}
    BY DEF SaveForRedirect, Current
<1>6. OwnSessionsOnly(r) /\ Current(req[r]) \in DOMAIN store'
        /\ store'[Current(req[r])] = Content(req[r])
  <2>1. \A s \in {req[r].sid, req[r].fresh} :
            \A c : Put(s, c) => OwnSessionsOnly(r) /\ s \in DOMAIN store' /\ store'[s] = c
      BY OwnPut
  <2> QED BY <1>5, <2>1, Zenon
<1>7. req[r].fresh # NoSid => Current(req[r]) = req[r].fresh /\ Content(req[r]) = Blank
    BY DEF Current, Content
<1>8. FreshFits(req'[r], store')
    BY <1>2, <1>4, <1>6, <1>7 DEF FreshFits
<1> QED BY <1>4, <1>6, <1>8, FreshKept

LEMMA SavesFresh ==
    ASSUME Consistent, FreshInv, NEW r \in Req, SaveInHandler(r) \/ SaveInFilter(r)
    PROVE  FreshInv'
<1>1. req[r] \in Request /\ req[r].fresh = NoSid
    BY NotFreshYet DEF SaveInHandler, SaveInFilter
<1>2. PICK pc : req' = [req EXCEPT ![r] = [@ EXCEPT !.pc = pc, !.saved = TRUE]]
    BY DEF SaveInHandler, SaveInFilter
<1>3. [req[r] EXCEPT !.pc = pc, !.saved = TRUE].fresh = NoSid
    BY <1>1 DEF Request
<1>4. OthersStay(r) /\ req'[r].fresh = NoSid
    BY <1>2, <1>3, OwnStep
<1>5. Put(req[r].sid, req[r].sess)
    BY DEF SaveInHandler, SaveInFilter
<1>6. OwnSessionsOnly(r) /\ FreshFits(req'[r], store')
    BY <1>4, <1>5, OwnPut DEF FreshFits
<1> QED BY <1>4, <1>6, FreshKept

LEMMA SaveFailsFresh ==
    ASSUME Consistent, FreshInv, NEW r \in Req, SaveFails(r)
    PROVE  FreshInv'
<1> DEFINE pc == IF req[r].pc = "handler" THEN "redirect" ELSE "respond"
           x == [req[r] EXCEPT !.pc = pc, !.saved = TRUE, !.failed = TRUE]
<1>1. req[r] \in Request
    BY Now
<1>2. x.fresh = req[r].fresh /\ x.failed = TRUE
    BY <1>1 DEF Request
<1>3. req' = [req EXCEPT ![r] = x] /\ store' = store
    BY DEF SaveFails
<1> HIDE DEF x
<1>4. OthersStay(r) /\ req'[r] = x
    BY <1>3, OwnStep
<1>5. FreshFits(req[r], store)
    BY DEF FreshInv
<1>6. OwnSessionsOnly(r) /\ FreshFits(req'[r], store')
    BY <1>2, <1>3, <1>4, <1>5 DEF FreshFits, OwnSessionsOnly
<1> QED BY <1>4, <1>6, FreshKept

\* A request that ends leaves no fresh session behind that it holds.
LEMMA EndFresh ==
    ASSUME Consistent, FreshInv, NEW r \in Req, KillForApi(r) \/ Respond(r)
    PROVE  FreshInv'
<1>1. req' = [req EXCEPT ![r] = Idle]
    BY DEF KillForApi, Respond, Finish
<1>2. OthersStay(r) /\ FreshFits(req'[r], store')
  <2>1. OthersStay(r) /\ req'[r] = Idle
      BY <1>1, OwnStep
  <2> QED BY <2>1 DEF FreshFits, Idle
<1>3. OwnSessionsOnly(r)
  <2>1. CASE KillForApi(r)
      BY <2>1, OwnRemove DEF KillForApi
  <2>2. CASE Respond(r)
    <3>1. Current(req[r]) \in {req[r].sid, req[r].fresh}
        BY DEF Current
    <3>2. Put(Current(req[r]), Content(req[r])) \/ store' = store
        BY <2>2 DEF Respond
    <3> QED BY <3>1, <3>2, OwnPut DEF OwnSessionsOnly
  <2> QED BY <2>1, <2>2
<1> QED BY <1>2, <1>3, FreshKept

LEMMA NextFresh == IInv /\ FreshInv /\ [Next]_vars => FreshInv'
<1> SUFFICES ASSUME Consistent, FreshInv, [Next]_vars PROVE FreshInv'
    BY DEF IInv
<1>1. ASSUME NEW r \in Req, Handle(r) PROVE FreshInv'
    BY <1>1, HandlersFresh, RefuseApiFresh, VisitPageFresh, ArriveFresh, MapUserFresh,
       SaveMappedFresh, SaveForRedirectFresh, SavesFresh, SaveFailsFresh, EndFresh DEF Handle
<1>2. CASE Crash
    BY <1>2 DEF Crash, FreshInv, FreshFits, Idle
<1>3. CASE DeleteUser \/ UNCHANGED vars
    BY <1>3 DEF DeleteUser, vars, FreshInv
<1> QED BY <1>1, <1>2, <1>3 DEF Next

\* A login that gets through answers with the id of a stored session that holds
\* nothing at all, whatever other requests of the browser do meanwhile.
LoginGivesEmptySession ==
    \A r \in Req :
        req[r].pc = "respond" /\ req[r].fresh # NoSid /\ ~req[r].failed =>
            req[r].fresh \in DOMAIN store /\ store[req[r].fresh] = Blank

\* LoginSignsIn fails for every login, not for some order of requests.
THEOREM LoginGivesEmptySessionHolds == Spec => []LoginGivesEmptySession
<1>1. Init => FreshInv
    BY DEF Init, Idle, FreshInv, FreshFits
<1>2. FreshInv => LoginGivesEmptySession
    BY DEF FreshInv, FreshFits, LoginGivesEmptySession
<1> QED BY <1>1, <1>2, InvariantHolds, NextFresh, PTL DEF Spec
=============================================================================
