------------------------- MODULE ConversationProofs -------------------------
(***************************************************************************)
(* Theorems about Conversation, for every set of packets, of conversations  *)
(* that dissectors set up and of options they search with.                  *)
(***************************************************************************)
EXTENDS Conversation, InductionLemmas, FiniteSetTheorems, TLAPS

-----------------------------------------------------------------------------
(***************************************************************************)
(* The shape of the tables, and what a change of them may keep.             *)
(***************************************************************************)

\* The fields of a conversation, whatever their values.
IsConv(c) ==
    c = [setup_frame |-> c.setup_frame, options |-> c.options, key |-> c.key,
         template |-> c.template, next |-> c.next, last |-> c.last,
         latest_found |-> c.latest_found]

\* The conversations are numbered from 1 on.
IsState(s) ==
    /\ s = [convs |-> s.convs, tables |-> s.tables]
    /\ \E n \in Nat : s.convs = [i \in 1 .. n |-> s.convs[i]]
    /\ \A i \in DOMAIN s.convs : IsConv(s.convs[i])

\* A change from s to t of pointers and tables: all keys and options stay.
KeepsKeys(s, t) ==
    /\ IsState(t)
    /\ DOMAIN t.convs = DOMAIN s.convs
    /\ \A c \in DOMAIN s.convs :
          t.convs[c].key = s.convs[c].key /\ t.convs[c].options = s.convs[c].options

\* A change that keeps those of the templates; there may be new conversations.
IsTemplate(s, c) == "CONVERSATION_TEMPLATE" \in s.convs[c].options

KeepsTemplates(s, t) ==
    /\ IsState(t)
    /\ DOMAIN s.convs \subseteq DOMAIN t.convs
    /\ \A c \in DOMAIN s.convs : IsTemplate(s, c) =>
          t.convs[c].key = s.convs[c].key /\ t.convs[c].options = s.convs[c].options

\* Both can be done one after the other.
LEMMA KeepsKeysTransitive ==
    ASSUME NEW s, NEW t, NEW u, KeepsKeys(s, t), KeepsKeys(t, u)
    PROVE  KeepsKeys(s, u)
BY DEF KeepsKeys

\* Two changes after each other keep the templates.
LEMMA KeepsTemplatesTransitive ==
    ASSUME NEW s, NEW t, NEW u, KeepsTemplates(s, t), KeepsTemplates(t, u)
    PROVE  KeepsTemplates(s, u)
BY DEF KeepsTemplates, IsTemplate

\* A change that keeps all keys keeps those of the templates.
LEMMA KeysAreTemplates ==
    ASSUME NEW s, NEW t, KeepsKeys(s, t)
    PROVE  KeepsTemplates(s, t)
BY DEF KeepsKeys, KeepsTemplates

\* What a change leads to is a state of the tables.
LEMMA KeptIsState ==
    ASSUME NEW s, NEW t, KeepsKeys(s, t)
    PROVE  IsState(t)
BY DEF KeepsKeys

\* The tables do not matter.
LEMMA TablesKeep ==
    ASSUME NEW s, IsState(s), NEW t, t = [convs |-> t.convs, tables |-> t.tables],
           t.convs = s.convs
    PROVE  KeepsKeys(s, t)
BY DEF KeepsKeys, IsState

\* One conversation is changed.
LEMMA OneChanged ==
    ASSUME NEW s, IsState(s), NEW t, t = [convs |-> t.convs, tables |-> t.tables],
           NEW c, NEW v, t.convs = [s.convs EXCEPT ![c] = v],
           c \in DOMAIN s.convs => IsConv(v)
    PROVE  /\ IsState(t) /\ DOMAIN t.convs = DOMAIN s.convs
           /\ \A d \in DOMAIN s.convs : t.convs[d] = IF d = c THEN v ELSE s.convs[d]
<1>1. PICK n \in Nat : s.convs = [i \in 1 .. n |-> s.convs[i]]
  BY DEF IsState
<1>2. /\ DOMAIN t.convs = DOMAIN s.convs /\ DOMAIN s.convs = 1 .. n
      /\ \A d \in DOMAIN s.convs : t.convs[d] = IF d = c THEN v ELSE s.convs[d]
  BY <1>1
<1>3. t.convs = [i \in 1 .. n |-> t.convs[i]]
  BY <1>1, <1>2
<1>4. \A i \in DOMAIN t.convs : IsConv(t.convs[i])
  BY <1>2 DEF IsState
<1> QED  BY <1>2, <1>3, <1>4 DEF IsState

\* The pointers of one conversation are changed.
LEMMA PointersChanged ==
    ASSUME NEW s, IsState(s), NEW t, t = [convs |-> t.convs, tables |-> t.tables],
           NEW c, NEW v, t.convs = [s.convs EXCEPT ![c] = v],
           c \in DOMAIN s.convs =>
              IsConv(v) /\ v.key = s.convs[c].key /\ v.options = s.convs[c].options
    PROVE  KeepsKeys(s, t)
BY OneChanged DEF KeepsKeys

\* next is changed.
LEMMA NextChanged ==
    ASSUME NEW s, IsState(s), NEW c, NEW v
    PROVE  KeepsKeys(s, [s EXCEPT !.convs[c].next = v])
<1>1. PICK w : w = [s.convs[c] EXCEPT !.next = v]
  OBVIOUS
<1>2. PICK t : t = [s EXCEPT !.convs[c].next = v]
  OBVIOUS
<1>3. t = [convs |-> t.convs, tables |-> t.tables] /\ t.convs = [s.convs EXCEPT ![c] = w]
  BY <1>1, <1>2 DEF IsState
<1>4. ASSUME c \in DOMAIN s.convs
      PROVE  IsConv(w) /\ w.key = s.convs[c].key /\ w.options = s.convs[c].options
  <2>1. PICK r : r = s.convs[c]
    OBVIOUS
  <2>2. IsConv(r) /\ w = [r EXCEPT !.next = v]
    BY <1>1, <1>4, <2>1 DEF IsState
  <2>3. IsConv(w) /\ w.key = r.key /\ w.options = r.options
    BY <2>2 DEF IsConv
  <2> QED  BY <2>1, <2>3
<1>5. KeepsKeys(s, t)
  BY <1>3, <1>4, PointersChanged
<1> QED  BY <1>2, <1>5

\* last is changed.
LEMMA LastChanged ==
    ASSUME NEW s, IsState(s), NEW c, NEW v
    PROVE  KeepsKeys(s, [s EXCEPT !.convs[c].last = v])
<1>1. PICK w : w = [s.convs[c] EXCEPT !.last = v]
  OBVIOUS
<1>2. PICK t : t = [s EXCEPT !.convs[c].last = v]
  OBVIOUS
<1>3. t = [convs |-> t.convs, tables |-> t.tables] /\ t.convs = [s.convs EXCEPT ![c] = w]
  BY <1>1, <1>2 DEF IsState
<1>4. ASSUME c \in DOMAIN s.convs
      PROVE  IsConv(w) /\ w.key = s.convs[c].key /\ w.options = s.convs[c].options
  <2>1. PICK r : r = s.convs[c]
    OBVIOUS
  <2>2. IsConv(r) /\ w = [r EXCEPT !.last = v]
    BY <1>1, <1>4, <2>1 DEF IsState
  <2>3. IsConv(w) /\ w.key = r.key /\ w.options = r.options
    BY <2>2 DEF IsConv
  <2> QED  BY <2>1, <2>3
<1>5. KeepsKeys(s, t)
  BY <1>3, <1>4, PointersChanged
<1> QED  BY <1>2, <1>5

\* latest_found is changed.
LEMMA LatestFoundChanged ==
    ASSUME NEW s, IsState(s), NEW c, NEW v
    PROVE  KeepsKeys(s, [s EXCEPT !.convs[c].latest_found = v])
<1>1. PICK w : w = [s.convs[c] EXCEPT !.latest_found = v]
  OBVIOUS
<1>2. PICK t : t = [s EXCEPT !.convs[c].latest_found = v]
  OBVIOUS
<1>3. t = [convs |-> t.convs, tables |-> t.tables] /\ t.convs = [s.convs EXCEPT ![c] = w]
  BY <1>1, <1>2 DEF IsState
<1>4. ASSUME c \in DOMAIN s.convs
      PROVE  IsConv(w) /\ w.key = s.convs[c].key /\ w.options = s.convs[c].options
  <2>1. PICK r : r = s.convs[c]
    OBVIOUS
  <2>2. IsConv(r) /\ w = [r EXCEPT !.latest_found = v]
    BY <1>1, <1>4, <2>1 DEF IsState
  <2>3. IsConv(w) /\ w.key = r.key /\ w.options = r.options
    BY <2>2 DEF IsConv
  <2> QED  BY <2>1, <2>3
<1>5. KeepsKeys(s, t)
  BY <1>3, <1>4, PointersChanged
<1> QED  BY <1>2, <1>5

-----------------------------------------------------------------------------
(***************************************************************************)
(* Chains: putting a conversation into one and taking it out change         *)
(* pointers only.                                                           *)
(***************************************************************************)

\* A chain gets a new head.
LEMMA NewHeadKeeps ==
    ASSUME NEW s, IsState(s), NEW kind, NEW key, NEW c
    PROVE  KeepsKeys(s, NewHead(s, kind, key, c))
<1>1. PICK t : t = NewHead(s, kind, key, c)
  OBVIOUS
<1>2. t = [convs |-> t.convs, tables |-> t.tables] /\ t.convs = s.convs
  BY <1>1 DEF NewHead, IsState
<1> QED  BY <1>1, <1>2, TablesKeep

\* A conversation is put into the middle of a chain, or before it.
LEMMA InsertAtPlaceKeeps ==
    ASSUME NEW s, IsState(s), NEW kind, NEW c, NEW chain, NEW i
    PROVE  KeepsKeys(s, InsertAtPlace(s, kind, c, chain, i))
<1>1. PICK a : a = [s EXCEPT !.convs[c].next = chain[i]]
  OBVIOUS
<1>2. CASE i = 1
  <2>1. PICK b : b = [a EXCEPT !.convs[c].last = s.convs[chain[1]].last]
    OBVIOUS
  <2>2. PICK d : d = [b EXCEPT !.convs[chain[1]].last = NULL]
    OBVIOUS
  <2>3. PICK t : t = NewHead(d, kind, s.convs[c].key, c)
    OBVIOUS
  <2>4. KeepsKeys(s, a)
    BY <1>1, NextChanged
  <2>5. KeepsKeys(a, b)
    BY <2>1, <2>4, LastChanged, KeptIsState
  <2>6. KeepsKeys(b, d)
    BY <2>2, <2>5, LastChanged, KeptIsState
  <2>7. KeepsKeys(d, t)
    BY <2>3, <2>6, NewHeadKeeps, KeptIsState
  <2>8. KeepsKeys(s, t)
    BY <2>4, <2>5, <2>6, <2>7, KeepsKeysTransitive
  <2>9. t = InsertAtPlace(s, kind, c, chain, i)
    BY <1>1, <1>2, <2>1, <2>2, <2>3 DEF InsertAtPlace
  <2> QED  BY <2>8, <2>9
<1>3. CASE i # 1
  <2>1. PICK b : b = [a EXCEPT !.convs[c].last = NULL]
    OBVIOUS
  <2>2. PICK d : d = [b EXCEPT !.convs[chain[i-1]].next = c]
    OBVIOUS
  <2>3. KeepsKeys(s, a)
    BY <1>1, NextChanged
  <2>4. KeepsKeys(a, b)
    BY <2>1, <2>3, LastChanged, KeptIsState
  <2>5. KeepsKeys(b, d)
    BY <2>2, <2>4, NextChanged, KeptIsState
  <2>6. KeepsKeys(s, d)
    BY <2>3, <2>4, <2>5, KeepsKeysTransitive
  <2>7. d = InsertAtPlace(s, kind, c, chain, i)
    BY <1>1, <1>3, <2>1, <2>2 DEF InsertAtPlace
  <2> QED  BY <2>6, <2>7
<1> QED  BY <1>2, <1>3

\* A conversation gets a chain of its own, or is put into one.
LEMMA InsertByKeeps ==
    ASSUME NEW s, IsState(s), NEW kind, NEW c, NEW head, NEW chain
    PROVE  KeepsKeys(s, InsertBy(s, kind, c, head, chain))
<1>1. CASE head = NULL
  <2>1. PICK a : a = [s EXCEPT !.convs[c].next = NULL]
    OBVIOUS
  <2>2. PICK b : b = [a EXCEPT !.convs[c].last = c]
    OBVIOUS
  <2>3. PICK t : t = [b EXCEPT !.tables[kind] =
                          @ \cup {[hash |-> s.convs[c].key, owner |-> c, head |-> c]}]
    OBVIOUS
  <2>4. KeepsKeys(s, a)
    BY <2>1, NextChanged
  <2>5. KeepsKeys(a, b)
    BY <2>2, <2>4, LastChanged, KeptIsState
  <2>6. KeepsKeys(b, t)
    <3>1. IsState(b)
      BY <2>5 DEF KeepsKeys
    <3>2. t = [convs |-> t.convs, tables |-> t.tables] /\ t.convs = b.convs
      BY <2>3, <3>1 DEF IsState
    <3> QED  BY <3>1, <3>2, TablesKeep
  <2>7. KeepsKeys(s, t)
    BY <2>4, <2>5, <2>6, KeepsKeysTransitive
  <2>8. t = InsertBy(s, kind, c, head, chain)
    BY <1>1, <2>1, <2>2, <2>3 DEF InsertBy
  <2> QED  BY <2>7, <2>8
<1>2. CASE head # NULL /\ SetupFrame(s, c) >= SetupFrame(s, s.convs[head].last)
  <2>1. PICK a : a = [s EXCEPT !.convs[c].next = NULL]
    OBVIOUS
  <2>2. PICK b : b = [a EXCEPT !.convs[c].last = NULL]
    OBVIOUS
  <2>3. PICK d : d = [b EXCEPT !.convs[s.convs[head].last].next = c]
    OBVIOUS
  <2>4. PICK t : t = [d EXCEPT !.convs[head].last = c]
    OBVIOUS
  <2>5. KeepsKeys(s, a)
    BY <2>1, NextChanged
  <2>6. KeepsKeys(a, b)
    BY <2>2, <2>5, LastChanged, KeptIsState
  <2>7. KeepsKeys(b, d)
    BY <2>3, <2>6, NextChanged, KeptIsState
  <2>8. KeepsKeys(d, t)
    BY <2>4, <2>7, LastChanged, KeptIsState
  <2>9. KeepsKeys(s, t)
    BY <2>5, <2>6, <2>7, <2>8, KeepsKeysTransitive
  <2>10. t = InsertBy(s, kind, c, head, chain)
    BY <1>2, <2>1, <2>2, <2>3, <2>4 DEF InsertBy
  <2> QED  BY <2>9, <2>10
<1>3. CASE head # NULL /\ ~(SetupFrame(s, c) >= SetupFrame(s, s.convs[head].last))
  BY <1>3, InsertAtPlaceKeeps DEF InsertBy
<1> QED  BY <1>1, <1>2, <1>3

\* conversation_insert_into_hashtable
LEMMA InsertKeeps ==
    ASSUME NEW s, IsState(s), NEW kind, NEW c
    PROVE  KeepsKeys(s, conversation_insert_into_hashtable(s, kind, c))
BY InsertByKeeps DEF conversation_insert_into_hashtable

\* A conversation is taken out of a chain.
LEMMA UnlinkKeeps ==
    ASSUME NEW s, IsState(s), NEW c, NEW chain
    PROVE  KeepsKeys(s, Unlink(s, c, chain))
<1>1. PICK prev : prev = chain[(CHOOSE i \in DOMAIN chain : chain[i] = c) - 1]
  OBVIOUS
<1>2. CASE c \notin {chain[i] : i \in DOMAIN chain}
  BY <1>2 DEF Unlink, KeepsKeys
<1>3. CASE c \in {chain[i] : i \in DOMAIN chain}
  <2>1. PICK a : a = [s EXCEPT !.convs[prev].next = s.convs[c].next]
    OBVIOUS
  <2>2. PICK b : b = [a EXCEPT !.convs[chain[1]].last =
                          IF s.convs[c].next = NULL THEN prev ELSE s.convs[chain[1]].last]
    OBVIOUS
  <2>3. PICK t : t = [b EXCEPT !.convs[chain[1]].latest_found =
                          IF s.convs[chain[1]].latest_found = c THEN prev
                          ELSE s.convs[chain[1]].latest_found]
    OBVIOUS
  <2>4. KeepsKeys(s, a)
    BY <2>1, NextChanged
  <2>5. KeepsKeys(a, b)
    BY <2>2, <2>4, LastChanged, KeptIsState
  <2>6. KeepsKeys(b, t)
    BY <2>3, <2>5, LatestFoundChanged, KeptIsState
  <2>7. KeepsKeys(s, t)
    BY <2>4, <2>5, <2>6, KeepsKeysTransitive
  <2>8. t = Unlink(s, c, chain)
    <3>1. c \notin {chain[i] : i \in DOMAIN chain} <=> FALSE
      BY <1>3
    <3> QED  BY <1>1, <2>1, <2>2, <2>3, <3>1 DEF Unlink
  <2> QED  BY <2>7, <2>8
<1> QED  BY <1>2, <1>3

\* conversation_remove_from_hashtable
LEMMA RemoveKeeps ==
    ASSUME NEW s, IsState(s), NEW kind, NEW c
    PROVE  KeepsKeys(s, conversation_remove_from_hashtable(s, kind, c))
<1>1. PICK key, next, chain : /\ key = s.convs[c].key /\ next = s.convs[c].next
                              /\ chain = From(s, HeadOf(s, kind, key))
  OBVIOUS
<1>2. CASE chain = <<c>>
  <2>1. PICK t : t = conversation_remove_from_hashtable(s, kind, c)
    OBVIOUS
  <2>2. t = [s EXCEPT !.tables[kind] = @ \ Entries(s, kind, key)]
    BY <1>1, <1>2, <2>1 DEF conversation_remove_from_hashtable
  <2>3. t = [convs |-> t.convs, tables |-> t.tables] /\ t.convs = s.convs
    BY <2>2 DEF IsState
  <2> QED  BY <2>1, <2>3, TablesKeep
<1>3. CASE chain # <<c>> /\ chain # << >> /\ chain[1] = c
  <2>1. PICK a : a = [s EXCEPT !.convs[next].last = s.convs[c].last]
    OBVIOUS
  <2>2. PICK b : b = [a EXCEPT !.convs[next].latest_found =
                          IF s.convs[c].latest_found = c THEN NULL ELSE s.convs[c].latest_found]
    OBVIOUS
  <2>3. PICK t : t = NewHead(b, kind, key, next)
    OBVIOUS
  <2>4. KeepsKeys(s, a)
    BY <2>1, LastChanged
  <2>5. KeepsKeys(a, b)
    BY <2>2, <2>4, LatestFoundChanged, KeptIsState
  <2>6. KeepsKeys(b, t)
    BY <2>3, <2>5, NewHeadKeeps, KeptIsState
  <2>7. KeepsKeys(s, t)
    BY <2>4, <2>5, <2>6, KeepsKeysTransitive
  <2>8. t = conversation_remove_from_hashtable(s, kind, c)
    <3>1. b = [s EXCEPT !.convs[next].last = s.convs[c].last,
                        !.convs[next].latest_found =
                           IF s.convs[c].latest_found = c THEN NULL ELSE s.convs[c].latest_found]
      BY <2>1, <2>2
    <3>2. conversation_remove_from_hashtable(s, kind, c) =
             IF chain = <<c>> THEN [s EXCEPT !.tables[kind] = @ \ Entries(s, kind, key)]
             ELSE IF chain # << >> /\ chain[1] = c
               THEN NewHead([s EXCEPT !.convs[next].last = s.convs[c].last,
                                      !.convs[next].latest_found =
                                         IF s.convs[c].latest_found = c THEN NULL
                                         ELSE s.convs[c].latest_found], kind, key, next)
             ELSE Unlink(s, c, chain)
      BY <1>1 DEF conversation_remove_from_hashtable
    <3> QED  BY <1>3, <2>3, <3>1, <3>2
  <2> QED  BY <2>7, <2>8
<1>4. CASE chain # <<c>> /\ ~(chain # << >> /\ chain[1] = c)
  <2>1. conversation_remove_from_hashtable(s, kind, c) = Unlink(s, c, chain)
    BY <1>1, <1>4 DEF conversation_remove_from_hashtable
  <2> QED  BY <2>1, UnlinkKeeps
<1> QED  BY <1>2, <1>3, <1>4

-----------------------------------------------------------------------------
(***************************************************************************)
(* Setting up, and replacing wildcards.                                     *)
(***************************************************************************)

\* A conversation is added to the others.
LEMMA OneAdded ==
    ASSUME NEW s, IsState(s), NEW v, IsConv(v)
    PROVE  KeepsTemplates(s, [s EXCEPT !.convs = Append(@, v)])
<1>1. PICK n \in Nat : s.convs = [i \in 1 .. n |-> s.convs[i]]
  BY DEF IsState
<1>2. PICK V : V = {s.convs[i] : i \in 1 .. n} \cup {v}
  OBVIOUS
<1>3. s.convs \in [1 .. n -> V]
  BY <1>1, <1>2
<1>4. s.convs \in Seq(V) /\ v \in V /\ Len(s.convs) = n
  BY <1>2, <1>3
<1>5. PICK t : t = [s EXCEPT !.convs = Append(@, v)]
  OBVIOUS
<1>6. t = [convs |-> t.convs, tables |-> t.tables] /\ t.convs = Append(s.convs, v)
  BY <1>5 DEF IsState
<1>7. /\ t.convs \in Seq(V) /\ Len(t.convs) = n + 1 /\ t.convs[n + 1] = v
      /\ \A i \in 1 .. n : t.convs[i] = s.convs[i]
  BY <1>4, <1>6
<1>8. DOMAIN t.convs = 1 .. n + 1 /\ DOMAIN s.convs = 1 .. n
  BY <1>1, <1>7
<1>9. t.convs = [i \in 1 .. n + 1 |-> t.convs[i]]
  BY <1>7, <1>8
<1>10. \A i \in DOMAIN t.convs : IsConv(t.convs[i])
  <2> SUFFICES ASSUME NEW i \in 1 .. n + 1 PROVE IsConv(t.convs[i])
    BY <1>8
  <2>1. CASE i = n + 1
    BY <1>7, <2>1
  <2>2. CASE i \in 1 .. n
    BY <1>7, <1>8, <2>2 DEF IsState
  <2> QED  BY <2>1, <2>2
<1>11. IsState(t)
  <2>1. n + 1 \in Nat
    OBVIOUS
  <2> QED  BY <1>6, <1>9, <1>10, <2>1 DEF IsState
<1> QED  BY <1>5, <1>7, <1>8, <1>11 DEF KeepsTemplates

\* conversation_new
LEMMA NewKeeps ==
    ASSUME NEW s, IsState(s), NEW setup_frame, NEW ends, NEW options, NEW template
    PROVE  KeepsTemplates(s, conversation_new(s, setup_frame, ends, options, template))
<1>1. PICK v : v = [setup_frame |-> setup_frame, options |-> options,
                    key |-> KeyOf(ends, options), template |-> template,
                    next |-> NULL, last |-> NULL, latest_found |-> NULL]
  OBVIOUS
<1>2. IsConv(v)
  BY <1>1 DEF IsConv
<1>3. PICK a : a = [s EXCEPT !.convs = Append(@, v)]
  OBVIOUS
<1>4. KeepsTemplates(s, a) /\ IsState(a)
  <2>1. KeepsTemplates(s, a)
    BY <1>2, <1>3, OneAdded
  <2> QED  BY <2>1 DEF KeepsTemplates
<1>5. PICK t : t = conversation_insert_into_hashtable(a, KindOf(options), Len(s.convs) + 1)
  OBVIOUS
<1>6. KeepsTemplates(a, t)
  BY <1>4, <1>5, InsertKeeps, KeysAreTemplates
<1>7. KeepsTemplates(s, t)
  BY <1>4, <1>6, KeepsTemplatesTransitive
<1>8. t = conversation_new(s, setup_frame, ends, options, template)
  BY <1>1, <1>3, <1>5 DEF conversation_new
<1> QED  BY <1>7, <1>8

\* A conversation that is no template gets another key and stays none.
LEMMA MovedKeeps ==
    ASSUME NEW s, IsState(s), NEW c, NEW key, NEW options,
           c \in DOMAIN s.convs => ~IsTemplate(s, c)
    PROVE  /\ KeepsTemplates(s, Moved(s, c, key, options))
           /\ c \in DOMAIN Moved(s, c, key, options).convs /\ "CONVERSATION_TEMPLATE" \notin options =>
                 ~IsTemplate(Moved(s, c, key, options), c)
<1>1. PICK a : a = conversation_remove_from_hashtable(s, KindOf(s.convs[c].options), c)
  OBVIOUS
<1>2. KeepsKeys(s, a) /\ IsState(a)
  BY <1>1, RemoveKeeps, KeptIsState
<1>3. PICK b : b = [a EXCEPT !.convs[c].key = key, !.convs[c].options = options]
  OBVIOUS
<1>4. PICK v : v = [[a.convs[c] EXCEPT !.key = key] EXCEPT !.options = options]
  OBVIOUS
<1>5. b = [convs |-> b.convs, tables |-> b.tables] /\ b.convs = [a.convs EXCEPT ![c] = v]
  <2>1. PICK d : d = [a EXCEPT !.convs[c].key = key]
    OBVIOUS
  <2>2. b = [d EXCEPT !.convs[c].options = options]
    BY <1>3, <2>1
  <2>3. /\ d = [convs |-> d.convs, tables |-> d.tables]
        /\ d.convs = [a.convs EXCEPT ![c] = [a.convs[c] EXCEPT !.key = key]]
    BY <1>2, <2>1 DEF IsState
  <2>4. b = [convs |-> b.convs, tables |-> b.tables]
    BY <2>2, <2>3
  <2>5. b.convs = [d.convs EXCEPT ![c] = [d.convs[c] EXCEPT !.options = options]]
    BY <2>2, <2>3
  <2>6. PICK n \in Nat : a.convs = [i \in 1 .. n |-> a.convs[i]]
    BY <1>2 DEF IsState
  <2> QED  BY <2>3, <2>4, <2>5, <2>6, <1>4
<1>6. ASSUME c \in DOMAIN a.convs
      PROVE  IsConv(v) /\ v.options = options
  <2>1. PICK r : r = a.convs[c]
    OBVIOUS
  <2>2. IsConv(r) /\ v = [[r EXCEPT !.key = key] EXCEPT !.options = options]
    BY <1>2, <1>4, <1>6, <2>1 DEF IsState
  <2> QED  BY <2>2 DEF IsConv
<1>7. /\ IsState(b) /\ DOMAIN b.convs = DOMAIN a.convs
      /\ \A d \in DOMAIN a.convs : b.convs[d] = IF d = c THEN v ELSE a.convs[d]
  BY <1>2, <1>5, <1>6, OneChanged
<1>8. PICK t : t = conversation_insert_into_hashtable(b, KindOf(options), c)
  OBVIOUS
<1>9. KeepsKeys(b, t)
  BY <1>7, <1>8, InsertKeeps
<1>10. t = Moved(s, c, key, options)
  BY <1>1, <1>3, <1>8 DEF Moved
<1>11. KeepsTemplates(s, t)
  <2>1. IsState(t) /\ DOMAIN t.convs = DOMAIN s.convs
    BY <1>2, <1>7, <1>9 DEF KeepsKeys
  <2>2. ASSUME NEW d \in DOMAIN s.convs, IsTemplate(s, d)
        PROVE  t.convs[d].key = s.convs[d].key /\ t.convs[d].options = s.convs[d].options
    <3>1. d # c
      BY <2>2
    <3>2. t.convs[d].key = b.convs[d].key /\ t.convs[d].options = b.convs[d].options
      BY <1>2, <1>7, <1>9 DEF KeepsKeys
    <3>3. b.convs[d] = a.convs[d]
      BY <1>2, <1>7, <3>1 DEF KeepsKeys
    <3> QED  BY <1>2, <3>2, <3>3 DEF KeepsKeys
  <2> QED  BY <2>1, <2>2 DEF KeepsTemplates
<1>12. c \in DOMAIN t.convs /\ "CONVERSATION_TEMPLATE" \notin options => ~IsTemplate(t, c)
  <2> SUFFICES ASSUME c \in DOMAIN t.convs, "CONVERSATION_TEMPLATE" \notin options
               PROVE  ~IsTemplate(t, c)
    OBVIOUS
  <2>1. c \in DOMAIN a.convs /\ c \in DOMAIN b.convs
    BY <1>7, <1>9 DEF KeepsKeys
  <2>2. t.convs[c].options = options
    BY <1>6, <1>7, <1>9, <2>1 DEF KeepsKeys
  <2> QED  BY <2>2 DEF IsTemplate
<1> QED  BY <1>10, <1>11, <1>12

\* The wildcards of a conversation that is no template are replaced.
LEMMA SetEndsKeeps ==
    ASSUME NEW s, IsState(s), NEW c, ~IsTemplate(s, c), NEW addr, NEW port
    PROVE  KeepsTemplates(s, conversation_set_port2(conversation_set_addr2(s, c, addr), c, port))
<1>1. PICK a : a = conversation_set_addr2(s, c, addr)
  OBVIOUS
<1>2. KeepsTemplates(s, a) /\ (c \in DOMAIN a.convs => ~IsTemplate(a, c))
  <2>1. CASE addr = Any \/ "NO_ADDR2" \notin s.convs[c].options
    BY <1>1, <2>1 DEF conversation_set_addr2, KeepsTemplates
  <2>2. CASE ~(addr = Any \/ "NO_ADDR2" \notin s.convs[c].options)
    <3>1. PICK key, options : /\ key = [s.convs[c].key EXCEPT !.addr2 = addr]
                              /\ options = s.convs[c].options \ {"NO_ADDR2"}
      OBVIOUS
    <3>2. a = Moved(s, c, key, options)
      BY <1>1, <2>2, <3>1 DEF conversation_set_addr2
    <3>3. "CONVERSATION_TEMPLATE" \notin options
      BY <3>1 DEF IsTemplate
    <3> QED  BY <3>2, <3>3, MovedKeeps
  <2> QED  BY <2>1, <2>2
<1>3. PICK t : t = conversation_set_port2(a, c, port)
  OBVIOUS
<1>4. KeepsTemplates(a, t)
  <2>1. IsState(a)
    BY <1>2 DEF KeepsTemplates
  <2>2. CASE port = Any \/ "NO_PORT2" \notin a.convs[c].options
    BY <1>3, <2>1, <2>2 DEF conversation_set_port2, KeepsTemplates
  <2>3. CASE ~(port = Any \/ "NO_PORT2" \notin a.convs[c].options)
    <3>1. PICK key, options : /\ key = [a.convs[c].key EXCEPT !.port2 = port]
                              /\ options = a.convs[c].options \ {"NO_PORT2"}
      OBVIOUS
    <3>2. t = Moved(a, c, key, options)
      BY <1>3, <2>3, <3>1 DEF conversation_set_port2
    <3> QED  BY <1>2, <2>1, <3>2, MovedKeeps
  <2> QED  BY <2>2, <2>3
<1> QED  BY <1>1, <1>2, <1>3, <1>4, KeepsTemplatesTransitive

\* A template is used: what is completed is a new conversation.
LEMMA TemplateUsed ==
    ASSUME NEW s, IsState(s), NEW c, NEW addr, NEW port
    PROVE  KeepsTemplates(s, conversation_create_from_template(s, c, addr, port).s)
<1>1. CASE s.convs[c].options \cap {"NO_ADDR2", "NO_PORT2"} = {}
  BY <1>1 DEF conversation_create_from_template, KeepsTemplates
<1>2. CASE s.convs[c].options \cap {"NO_ADDR2", "NO_PORT2"} # {}
  <2>1. PICK key : key = s.convs[c].key
    OBVIOUS
  <2>2. PICK ends, options :
           /\ ends = [addr_a |-> key.addr1, port_a |-> key.port1,
                      addr_b |-> IF key.addr2 = Any THEN addr ELSE key.addr2,
                      port_b |-> IF key.port2 = Any THEN port ELSE key.port2]
           /\ options = s.convs[c].options \ {"CONVERSATION_TEMPLATE", "NO_ADDR2", "NO_PORT2"}
    OBVIOUS
  <2>3. conversation_create_from_template(s, c, addr, port).s =
           conversation_new(s, s.convs[c].setup_frame, ends, options, c)
    BY <1>2, <2>1, <2>2 DEF conversation_create_from_template
  <2> QED  BY <2>3, NewKeeps
<1> QED  BY <1>1, <1>2

-----------------------------------------------------------------------------
(***************************************************************************)
(* Finding: a lookup changes latest_found only, and only a conversation      *)
(* that is no template gets its wildcards replaced.                          *)
(***************************************************************************)

\* conversation_lookup_hashtable
LEMMA LookupKeeps ==
    ASSUME NEW s, IsState(s), NEW kind, NEW key, NEW frame_num
    PROVE  KeepsTemplates(s, conversation_lookup_hashtable(s, kind, key, frame_num).s)
<1>1. PICK head, match : /\ head = HeadOf(s, kind, key)
                         /\ match = Lookup(s, head, frame_num)
  OBVIOUS
<1>2. PICK t : t = conversation_lookup_hashtable(s, kind, key, frame_num).s
  OBVIOUS
<1>3. t = IF match = NULL \/ SetupFrame(s, s.convs[head].last) <= frame_num THEN s
          ELSE [s EXCEPT !.convs[head].latest_found = match]
  BY <1>1, <1>2 DEF conversation_lookup_hashtable, LookupAt, Remember
<1>4. CASE t = s
  BY <1>2, <1>4 DEF KeepsTemplates
<1>5. CASE t = [s EXCEPT !.convs[head].latest_found = match]
  BY <1>2, <1>5, LatestFoundChanged, KeysAreTemplates
<1> QED  BY <1>3, <1>4, <1>5

\* The exact lookup in both directions.
LEMMA FindExactKeeps ==
    ASSUME NEW s, IsState(s), NEW frame_num, NEW p
    PROVE  KeepsTemplates(s, FindExact(s, frame_num, p).s)
<1>1. PICK there : there = LookupThere(s, frame_num, p)
  OBVIOUS
<1>2. KeepsTemplates(s, there.s) /\ IsState(there.s)
  <2>1. KeepsTemplates(s, there.s)
    BY <1>1, LookupKeeps DEF LookupThere
  <2> QED  BY <2>1 DEF KeepsTemplates
<1>3. PICK back : back = conversation_lookup_hashtable(there.s, "exact_addr_port",
                            Key(p.addr_b, p.port_b, p.addr_a, p.port_a), frame_num)
  OBVIOUS
<1>4. KeepsTemplates(there.s, back.s)
  BY <1>2, <1>3, LookupKeeps
<1>5. FindExact(s, frame_num, p).s = back.s
  BY <1>1, <1>3 DEF FindExact, LookupBack, Younger
<1> QED  BY <1>2, <1>4, <1>5, KeepsTemplatesTransitive

\* A wildcard lookup that has a match.
LEMMA MatchedKeeps ==
    ASSUME NEW s, IsState(s), NEW c, NEW try
    PROVE  KeepsTemplates(s, Matched(s, c, try).s)
<1>1. PICK m : m = Matched(s, c, try)
  OBVIOUS
<1>2. CASE m = [s |-> s, conv |-> c]
  BY <1>1, <1>2 DEF KeepsTemplates
<1>3. CASE m = conversation_create_from_template(s, c, try.addr2, try.port2)
  BY <1>1, <1>3, TemplateUsed
<1>4. CASE /\ ~IsTemplate(s, c)
           /\ m = [s |-> conversation_set_port2(conversation_set_addr2(s, c, try.addr2), c, try.port2),
                   conv |-> c]
  BY <1>1, <1>4, SetEndsKeeps
<1> QED  BY <1>1, <1>2, <1>3, <1>4 DEF Matched, IsTemplate

\* The wildcard lookups.
LEMMA FindWildcardKeeps ==
    ASSUME NEW s, IsState(s), NEW frame_num, NEW tries
    PROVE  KeepsTemplates(s, FindWildcard(s, frame_num, tries).s)
<1>1. PICK hits : hits = {i \in DOMAIN tries :
                             /\ tries[i].made
                             /\ Early(s, HeadOf(s, tries[i].kind, tries[i].key), frame_num)}
  OBVIOUS
<1>2. PICK try : try = tries[CHOOSE i \in hits : \A j \in hits : i <= j]
  OBVIOUS
<1>3. CASE hits = {}
  BY <1>1, <1>3 DEF FindWildcard, KeepsTemplates
<1>4. CASE hits # {}
  <2>1. PICK looked : looked = conversation_lookup_hashtable(s, try.kind, try.key, frame_num)
    OBVIOUS
  <2>2. KeepsTemplates(s, looked.s)
    BY <2>1, LookupKeeps
  <2>3. IsState(looked.s)
    BY <2>2 DEF KeepsTemplates
  <2>4. KeepsTemplates(looked.s, Matched(looked.s, looked.conv, try).s)
    BY <2>3, MatchedKeeps
  <2>5. FindWildcard(s, frame_num, tries) = Matched(looked.s, looked.conv, try)
    BY <1>1, <1>2, <1>4, <2>1 DEF FindWildcard, MatchedBy
  <2> QED  BY <2>2, <2>4, <2>5, KeepsTemplatesTransitive
<1> QED  BY <1>3, <1>4

\* find_conversation
LEMMA FindKeeps ==
    ASSUME NEW s, IsState(s), NEW frame_num, NEW p, NEW options
    PROVE  KeepsTemplates(s, find_conversation(s, frame_num, p, options).s)
<1>1. PICK exact : exact = (options \cap {"NO_ADDR_B", "NO_PORT_B", "NO_PORT_X", "EXACT_EXCLUDED"} = {})
  OBVIOUS
<1>2. PICK first : first = IF exact THEN FindExact(s, frame_num, p) ELSE [s |-> s, conv |-> NULL]
  OBVIOUS
<1>3. KeepsTemplates(s, first.s)
  <2>1. CASE first = FindExact(s, frame_num, p)
    BY <2>1, FindExactKeeps
  <2>2. CASE first = [s |-> s, conv |-> NULL]
    BY <2>2 DEF KeepsTemplates
  <2> QED  BY <1>2, <2>1, <2>2
<1>4. IsState(first.s)
  BY <1>3 DEF KeepsTemplates
<1>5. PICK w : w = FindWildcard(first.s, frame_num, WildcardTries(p, options))
  OBVIOUS
<1>6. KeepsTemplates(s, w.s)
  <2>1. KeepsTemplates(first.s, w.s)
    BY <1>4, <1>5, FindWildcardKeeps
  <2> QED  BY <1>3, <2>1, KeepsTemplatesTransitive
<1>7. \/ find_conversation(s, frame_num, p, options) = first
      \/ find_conversation(s, frame_num, p, options) = w
  BY <1>1, <1>2, <1>5 DEF find_conversation, FindAfter
<1> QED  BY <1>3, <1>6, <1>7

\* find_or_create_conversation
LEMMA FindOrCreateKeeps ==
    ASSUME NEW s, IsState(s), NEW frame_num, NEW p
    PROVE  KeepsTemplates(s, find_or_create_conversation(s, frame_num, p).s)
<1>1. PICK r : r = find_conversation(s, frame_num, p, {})
  OBVIOUS
<1>2. KeepsTemplates(s, r.s)
  BY <1>1, FindKeeps
<1>3. IsState(r.s)
  BY <1>2 DEF KeepsTemplates
<1>4. CASE r.conv # NULL
  BY <1>1, <1>2, <1>4 DEF find_or_create_conversation, OrCreate
<1>5. CASE r.conv = NULL
  <2>1. PICK t : t = conversation_new(r.s, frame_num, p, {}, NULL)
    OBVIOUS
  <2>2. KeepsTemplates(r.s, t)
    BY <1>3, <2>1, NewKeeps
  <2>3. find_or_create_conversation(s, frame_num, p).s = t
    BY <1>1, <1>5, <2>1 DEF find_or_create_conversation, OrCreate
  <2> QED  BY <1>2, <2>2, <2>3, KeepsTemplatesTransitive
<1> QED  BY <1>4, <1>5

-----------------------------------------------------------------------------
\* Every step keeps the templates.
LEMMA NextKeeps ==
    ASSUME IsState(st), [Next]_vars
    PROVE  KeepsTemplates(st, st')
<1>1. CASE FirstPass
  BY <1>1, FindOrCreateKeeps DEF FirstPass, Becomes
<1>2. CASE SetUp
  BY <1>2, NewKeeps DEF SetUp, Becomes
<1>3. CASE Search
  BY <1>3, FindKeeps DEF Search, Becomes
<1>4. CASE LaterPass
  BY <1>4, FindOrCreateKeeps DEF LaterPass, Becomes
<1>5. CASE UNCHANGED vars
  BY <1>5 DEF vars, KeepsTemplates
<1> QED  BY <1>1, <1>2, <1>3, <1>4, <1>5 DEF Next

\* A template is never completed itself: find_conversation makes a conversation
\* from it (conversation_create_from_template) and leaves it to match further
\* packets, and no insertion into a chain, removal from one or cached lookup
\* touches its key or its options.
THEOREM TemplatesRemain == Spec => TemplatesStay
<1>1. Init => IsState(st)
  <2> SUFFICES ASSUME Init PROVE IsState(st)
    OBVIOUS
  <2>1. st.convs = << >> /\ st = [convs |-> st.convs, tables |-> st.tables]
    BY DEF Init, InitTables
  <2>2. << >> = [i \in 1 .. 0 |-> << >>[i]] /\ DOMAIN << >> = {}
    OBVIOUS
  <2> QED  BY <2>1, <2>2 DEF IsState
<1>2. IsState(st) /\ [Next]_vars => IsState(st)'
  BY NextKeeps DEF KeepsTemplates
<1>3. IsState(st) /\ [Next]_vars =>
         [\A c \in Convs : "CONVERSATION_TEMPLATE" \in st.convs[c].options =>
            st'.convs[c].key = st.convs[c].key /\ st'.convs[c].options = st.convs[c].options]_vars
  BY NextKeeps DEF KeepsTemplates, IsTemplate, Convs
<1> QED  BY <1>1, <1>2, <1>3, PTL DEF Spec, TemplatesStay

\* A chain: the next pointers lead from each conversation to the following one, and
\* from the last nowhere; no conversation comes twice.
IsChain(s, q) ==
    /\ q \in Seq(DOMAIN s.convs) /\ Len(q) > 0
    /\ \A i \in 1 .. Len(q) - 1 : s.convs[q[i]].next = q[i+1]
    /\ s.convs[q[Len(q)]].next = NULL
    /\ \A i, j \in 1 .. Len(q) : q[i] = q[j] => i = j

\* A chain that is what an entry of a table leads to: the conversations of its kind
\* and key, in the order of their setup frames.  Its head knows its end and one of
\* them, and the entry points to the key of one that is not in X.
IsEntry(s, kind, e, q, X) ==
    /\ e = [hash |-> e.hash, owner |-> e.owner, head |-> e.head]
    /\ IsChain(s, q) /\ q[1] = e.head
    /\ s.convs[q[1]].last = q[Len(q)]
    /\ \/ s.convs[q[1]].latest_found = NULL
       \/ \E i \in 1 .. Len(q) : s.convs[q[1]].latest_found = q[i]
    /\ \A i \in 1 .. Len(q) : /\ q[i] \notin X /\ s.convs[q[i]].key = e.hash
                              /\ KindOf(s.convs[q[i]].options) = kind
    /\ \A i, j \in 1 .. Len(q) : i <= j => SetupFrame(s, q[i]) <= SetupFrame(s, q[j])
    /\ e.owner \in DOMAIN s.convs /\ e.owner \notin X
    /\ s.convs[e.owner].key = e.hash /\ KindOf(s.convs[e.owner].options) = kind

\* Where a conversation is.
InTable(s, c) ==
    \E e \in s.tables[KindOf(s.convs[c].options)] :
       /\ e.hash = s.convs[c].key
       /\ \E i \in 1 .. Len(From(s, e.head)) : From(s, e.head)[i] = c

\* The wildcards of a conversation are those of its key.
WildcardsFit(conv) ==
    /\ conv.key = Key(conv.key.addr1, conv.key.port1, conv.key.addr2, conv.key.port2)
    /\ "NO_ADDR2" \in conv.options => conv.key.addr2 = Any
    /\ "NO_PORT2" \in conv.options => conv.key.port2 = Any

\* The tables are in order, with all conversations in them but those of X.
InOrder(s, X) ==
    /\ IsState(s)
    /\ \A c \in DOMAIN s.convs : s.convs[c].setup_frame \in Nat /\ WildcardsFit(s.convs[c])
    /\ s.tables = [k \in Kinds |-> s.tables[k]]
    /\ \A k \in Kinds : \A e \in s.tables[k] : IsEntry(s, k, e, From(s, e.head), X)
    /\ \A k \in Kinds : \A e, f \in s.tables[k] : e.hash = f.hash => e = f
    /\ \A c \in DOMAIN s.convs \ X : InTable(s, c)

-----------------------------------------------------------------------------
\* The numbers of the conversations.
LEMMA ConvNumbers ==
    ASSUME NEW s, IsState(s)
    PROVE  Len(s.convs) \in Nat /\ DOMAIN s.convs = 1 .. Len(s.convs)
<1>1. PICK n \in Nat : s.convs = [i \in 1 .. n |-> s.convs[i]]
  BY DEF IsState
<1>2. DOMAIN s.convs = 1 .. n
  BY <1>1
<1>3. s.convs \in Seq({s.convs[i] : i \in 1 .. n})
  <2>1. PICK f : f = s.convs
    OBVIOUS
  <2>2. f = [i \in 1 .. n |-> f[i]]
    BY <1>1, <2>1
  <2>3. f \in Seq({f[i] : i \in 1 .. n})
    BY <2>2
  <2> QED  BY <2>1, <2>3
<1> QED  BY <1>2, <1>3

\* The size of an interval.
LEMMA IntervalSize ==
    ASSUME NEW n \in Nat
    PROVE  IsFiniteSet(1 .. n) /\ Cardinality(1 .. n) = n
<1>1. 1 \in Int /\ n \in Int
  OBVIOUS
<1>2. IsFiniteSet(1 .. n) /\ Cardinality(1 .. n) = IF 1 > n THEN 0 ELSE n - 1 + 1
  BY <1>1, FS_Interval
<1> QED  BY <1>2

\* A chain is not longer than there are conversations.
LEMMA ChainShort ==
    ASSUME NEW s, IsState(s), NEW q, IsChain(s, q)
    PROVE  Len(q) \in Nat /\ Len(q) <= Len(s.convs)
<1>1. Len(q) \in Nat /\ DOMAIN q = 1 .. Len(q)
  BY DEF IsChain
<1>2. PICK n \in Nat : n = Len(s.convs) /\ DOMAIN s.convs = 1 .. n
  BY ConvNumbers
<1>3. q \in Injection(1 .. Len(q), 1 .. n)
  <2>1. q \in [1 .. Len(q) -> 1 .. n]
    BY <1>1, <1>2 DEF IsChain
  <2> QED  BY <2>1 DEF IsChain, Injection, IsInjective
<1>4. IsFiniteSet(1 .. n) /\ Cardinality(1 .. n) = n /\ Cardinality(1 .. Len(q)) = Len(q)
  BY <1>1, IntervalSize
<1>5. Cardinality(1 .. Len(q)) <= Cardinality(1 .. n)
  BY <1>3, <1>4, FS_Injection
<1> QED  BY <1>1, <1>2, <1>4, <1>5

\* Following the next pointers from the head of a chain gives the chain.
LEMMA ChainIsFrom ==
    ASSUME NEW s, IsState(s), NEW q, IsChain(s, q)
    PROVE  From(s, q[1]) = q
<1> DEFINE R(f) == f = [n \in Nat |-> IF n = 0 THEN q[1]
                          ELSE LET before == f[n-1]
                               IN  IF before = NULL THEN NULL ELSE s.convs[before].next]
           g == [n \in Nat |-> IF n < Len(q) THEN q[n+1] ELSE NULL]
           nth == CHOOSE f : R(f)
<1>1. Len(q) \in Nat /\ Len(q) > 0 /\ DOMAIN q = 1 .. Len(q) /\ Len(q) <= Len(s.convs)
  BY ChainShort DEF IsChain
<1>2. \A i \in 1 .. Len(q) : q[i] \in Nat /\ q[i] # NULL
  BY ConvNumbers DEF IsChain, NULL
<1>3. R(g)
  <2>1. ASSUME NEW n \in Nat
        PROVE  g[n] = IF n = 0 THEN q[1]
                      ELSE IF g[n-1] = NULL THEN NULL ELSE s.convs[g[n-1]].next
    <3>1. CASE n = 0
      BY <1>1, <3>1
    <3>2. CASE n > 0 /\ n < Len(q)
      <4>1. g[n] = q[n+1] /\ g[n-1] = q[n] /\ n \in 1 .. Len(q) - 1
        BY <1>1, <3>2
      <4> QED  BY <1>1, <1>2, <3>2, <4>1 DEF IsChain
    <3>3. CASE n > 0 /\ n = Len(q)
      <4>1. g[n] = NULL /\ g[n-1] = q[n]
        BY <1>1, <3>3
      <4> QED  BY <1>1, <1>2, <3>3, <4>1 DEF IsChain
    <3>4. CASE n > Len(q)
      <4>1. g[n] = NULL /\ g[n-1] = NULL /\ n # 0
        BY <1>1, <3>4
      <4> QED  BY <4>1
    <3>5. \/ n = 0
          \/ n > 0 /\ n < Len(q)
          \/ n > 0 /\ n = Len(q)
          \/ n > Len(q)
      <4>1. PICK m \in Nat : m = Len(q)
        BY <1>1
      <4> QED  BY <4>1
    <3> HIDE DEF g
    <3> QED  BY <3>1, <3>2, <3>3, <3>4, <3>5
  <2>2. g = [n \in Nat |-> g[n]]
    OBVIOUS
  <2> HIDE DEF g
  <2> QED  BY <2>1, <2>2
<1>4. R(nth)
  <2> HIDE DEF R
  <2> QED  BY <1>3
<1>5. \A n \in Nat : nth[n] = g[n]
  <2>1. ASSUME NEW n \in Nat
        PROVE  nth[n] = IF n = 0 THEN q[1]
                        ELSE IF nth[n-1] = NULL THEN NULL ELSE s.convs[nth[n-1]].next
    <3> HIDE DEF nth
    <3> QED  BY <1>4
  <2>2. ASSUME NEW n \in Nat
        PROVE  g[n] = IF n = 0 THEN q[1]
                      ELSE IF g[n-1] = NULL THEN NULL ELSE s.convs[g[n-1]].next
    <3> HIDE DEF g
    <3> QED  BY <1>3
  <2> HIDE DEF nth, g
  <2> DEFINE S == {n \in Nat : nth[n] = g[n]}
  <2>3. 0 \in S
    BY <2>1, <2>2
  <2>4. \A n \in Nat : n \in S => n + 1 \in S
    BY <2>1, <2>2
  <2>5. Nat \subseteq S
    <3> HIDE DEF S
    <3> QED  BY <2>3, <2>4, SetInduction
  <2> QED  BY <2>5
<1>6. From(s, q[1]) = [n \in 1 .. Cardinality({n \in 1 .. Len(s.convs) : nth[n-1] # NULL}) |-> nth[n-1]]
  BY Zenon DEF From
<1> HIDE DEF nth
<1>7. {n \in 1 .. Len(s.convs) : nth[n-1] # NULL} = 1 .. Len(q)
  <2>1. \A n \in 1 .. Len(s.convs) : nth[n-1] # NULL <=> n <= Len(q)
    <3> SUFFICES ASSUME NEW n \in 1 .. Len(s.convs)
                 PROVE  nth[n-1] # NULL <=> n <= Len(q)
      OBVIOUS
    <3>1. n - 1 \in Nat /\ nth[n-1] = g[n-1]
      BY <1>5
    <3> QED  BY <1>1, <1>2, <3>1
  <2> HIDE DEF g
  <2>2. Len(s.convs) \in Nat
    BY ConvNumbers
  <2> QED  BY <1>1, <2>1, <2>2
<1>8. Cardinality(1 .. Len(q)) = Len(q)
  BY <1>1, IntervalSize
<1>9. From(s, q[1]) = [n \in 1 .. Len(q) |-> nth[n-1]]
  BY <1>6, <1>7, <1>8
<1>10. \A n \in 1 .. Len(q) : nth[n-1] = q[n]
  BY <1>1, <1>5
<1>11. q = [n \in 1 .. Len(q) |-> q[n]]
  BY DEF IsChain
<1> QED  BY <1>9, <1>10, <1>11

\* There is nothing from NULL on.
LEMMA FromNull ==
    ASSUME NEW s, IsState(s)
    PROVE  From(s, NULL) = << >>
<1> DEFINE R(f) == f = [n \in Nat |-> IF n = 0 THEN NULL
                          ELSE LET before == f[n-1]
                               IN  IF before = NULL THEN NULL ELSE s.convs[before].next]
           g == [n \in Nat |-> NULL]
           nth == CHOOSE f : R(f)
<1>1. R(g)
  OBVIOUS
<1>2. R(nth)
  <2> HIDE DEF R
  <2> QED  BY <1>1
<1>3. ASSUME NEW n \in Nat
      PROVE  nth[n] = IF n = 0 THEN NULL
                      ELSE IF nth[n-1] = NULL THEN NULL ELSE s.convs[nth[n-1]].next
  <2> HIDE DEF nth
  <2> QED  BY <1>2
<1>4. \A n \in Nat : nth[n] = NULL
  <2> HIDE DEF nth
  <2> DEFINE S == {n \in Nat : nth[n] = NULL}
  <2>1. 0 \in S
    BY <1>3
  <2>2. \A n \in Nat : n \in S => n + 1 \in S
    BY <1>3
  <2>3. Nat \subseteq S
    <3> HIDE DEF S
    <3> QED  BY <2>1, <2>2, SetInduction
  <2> QED  BY <2>3
<1>5. From(s, NULL) = [n \in 1 .. Cardinality({n \in 1 .. Len(s.convs) : nth[n-1] # NULL}) |-> nth[n-1]]
  BY Zenon DEF From
<1> HIDE DEF nth
<1>6. {n \in 1 .. Len(s.convs) : nth[n-1] # NULL} = {}
  BY <1>4, ConvNumbers
<1>7. Cardinality({}) = 0
  BY FS_EmptySet
<1>8. From(s, NULL) = [n \in 1 .. 0 |-> nth[n-1]]
  BY <1>5, <1>6, <1>7
<1>9. 1 .. 0 = {}
  OBVIOUS
<1> QED  BY <1>8, <1>9

\* The kinds of conversations are those of the tables.
LEMMA KindOfIsKind ==
    ASSUME NEW options
    PROVE  KindOf(options) \in Kinds
BY DEF KindOf, Kinds

\* The entry that a key leads to.
LEMMA EntryOfKey ==
    ASSUME NEW s, NEW X, InOrder(s, X), NEW k \in Kinds, NEW e \in s.tables[k]
    PROVE  /\ Entries(s, k, e.hash) = {e}
           /\ HeadOf(s, k, e.hash) = e.head
           /\ e.head \in DOMAIN s.convs /\ e.head # NULL
<1>1. IsEntry(s, k, e, From(s, e.head), X)
  BY DEF InOrder
<1>2. Entries(s, k, e.hash) = {e}
  <2>1. s.convs[e.owner].key = e.hash
    BY <1>1 DEF IsEntry
  <2>2. \A f \in s.tables[k] : f.hash = e.hash => f = e
    BY DEF InOrder
  <2> QED  BY <2>1, <2>2 DEF Entries
<1>3. e.head \in DOMAIN s.convs
  BY <1>1 DEF IsEntry, IsChain
<1>4. e.head \in Nat /\ e.head # 0
  BY <1>3, ConvNumbers DEF InOrder
<1>5. HeadOf(s, k, e.hash) = e.head
  <2>1. {f.head : f \in Entries(s, k, e.hash)} \cup {NULL} = {e.head, 0}
    BY <1>2 DEF NULL
  <2>2. HeadOf(s, k, e.hash) = CHOOSE h \in {e.head, 0} : \A other \in {e.head, 0} : other <= h
    BY <2>1 DEF HeadOf
  <2>3. PICK head \in Nat : head = e.head
    BY <1>4
  <2>4. \A h \in {head, 0} : (\A other \in {head, 0} : other <= h) <=> h = head
    BY <1>4, <2>3
  <2> QED  BY <2>2, <2>3, <2>4
<1> QED  BY <1>2, <1>3, <1>4, <1>5 DEF NULL

\* A key that leads nowhere.
LEMMA NoEntryOfKey ==
    ASSUME NEW s, NEW k, NEW key, \A e \in s.tables[k] : e.hash # key
    PROVE  Entries(s, k, key) = {} /\ HeadOf(s, k, key) = NULL
<1>1. Entries(s, k, key) = {}
  BY DEF Entries
<1>2. {f.head : f \in Entries(s, k, key)} \cup {NULL} = {0}
  BY <1>1 DEF NULL
<1>3. HeadOf(s, k, key) = CHOOSE h \in {0} : \A other \in {0} : other <= h
  BY <1>2 DEF HeadOf
<1> QED  BY <1>1, <1>3 DEF NULL

\* A change leaves an entry as it is that leaves the conversations of its chain.
LEMMA EntryKept ==
    ASSUME NEW s, IsState(s), NEW t, IsState(t), NEW k, NEW e, NEW q, NEW X, NEW Y,
           IsEntry(s, k, e, q, X), DOMAIN s.convs \subseteq DOMAIN t.convs,
           \A i \in 1 .. Len(q) : t.convs[q[i]] = s.convs[q[i]] /\ q[i] \notin Y,
           e.owner \notin Y, t.convs[e.owner] = s.convs[e.owner]
    PROVE  IsEntry(t, k, e, q, Y) /\ From(t, e.head) = q
<1>1. Len(q) \in Nat /\ Len(q) > 0 /\ \A i \in 1 .. Len(q) : q[i] \in DOMAIN s.convs
  BY DEF IsEntry, IsChain
<1>2. IsChain(t, q)
  <2>1. q \in Seq(DOMAIN t.convs)
    BY DEF IsEntry, IsChain
  <2> QED  BY <1>1, <2>1 DEF IsEntry, IsChain
<1>3. From(t, q[1]) = q
  BY <1>2, ChainIsFrom
<1>4. \A i, j \in 1 .. Len(q) : i <= j => SetupFrame(t, q[i]) <= SetupFrame(t, q[j])
  BY DEF IsEntry, SetupFrame
<1>5. t.convs[q[1]] = s.convs[q[1]]
  BY <1>1
<1> QED  BY <1>1, <1>2, <1>3, <1>4, <1>5 DEF IsEntry

\* What stays of every conversation when one is put into a table or taken out.
KeepsConvs(s, t) ==
    /\ IsState(t)
    /\ DOMAIN t.convs = DOMAIN s.convs
    /\ \A d \in DOMAIN s.convs :
          /\ t.convs[d].key = s.convs[d].key /\ t.convs[d].options = s.convs[d].options
          /\ t.convs[d].setup_frame = s.convs[d].setup_frame
          /\ t.convs[d].template = s.convs[d].template

\* Is a conversation one of a kind and a key?
OfKey(s, d, k, h) == KindOf(s.convs[d].options) = k /\ s.convs[d].key = h

\* The chain of one kind and key is replaced, by the entry in B or by none.
Replaced(s, t, X, Y, k, h, B) ==
    /\ \A d \in DOMAIN s.convs : ~OfKey(s, d, k, h) =>
          t.convs[d] = s.convs[d] /\ (d \in Y <=> d \in X)
    /\ t.tables = [s.tables EXCEPT ![k] = {f \in s.tables[k] : f.hash # h} \cup B]
    /\ \A f \in B : f.hash = h /\ IsEntry(t, k, f, From(t, f.head), Y)
    /\ \A f, g \in B : f = g
    /\ \A d \in DOMAIN s.convs : d \notin Y /\ OfKey(s, d, k, h) => InTable(t, d)

\* The tables stay in order.
LEMMA TableChanged ==
    ASSUME NEW s, NEW t, NEW X, NEW Y, InOrder(s, X), KeepsConvs(s, t),
           NEW k \in Kinds, NEW h, NEW B, Replaced(s, t, X, Y, k, h, B)
    PROVE  InOrder(t, Y)
<1>1. IsState(s) /\ IsState(t)
  BY DEF InOrder, KeepsConvs
<1>2. \A c \in DOMAIN t.convs : t.convs[c].setup_frame \in Nat /\ WildcardsFit(t.convs[c])
  BY DEF InOrder, KeepsConvs, WildcardsFit
<1>0. /\ \A d \in DOMAIN s.convs : ~OfKey(s, d, k, h) =>
            t.convs[d] = s.convs[d] /\ (d \in Y <=> d \in X)
      /\ t.tables = [s.tables EXCEPT ![k] = {f \in s.tables[k] : f.hash # h} \cup B]
      /\ \A f \in B : f.hash = h /\ IsEntry(t, k, f, From(t, f.head), Y)
      /\ \A f, g \in B : f = g
      /\ \A d \in DOMAIN s.convs : d \notin Y /\ OfKey(s, d, k, h) => InTable(t, d)
  BY DEF Replaced
<1>3. t.tables = [j \in Kinds |-> t.tables[j]]
  BY <1>0 DEF InOrder
<1>4. \A j \in Kinds : t.tables[j] = IF j = k THEN {f \in s.tables[k] : f.hash # h} \cup B
                                     ELSE s.tables[j]
  BY <1>0 DEF InOrder
<1>5. ASSUME NEW j \in Kinds, NEW e \in s.tables[j], j # k \/ e.hash # h
      PROVE  IsEntry(t, j, e, From(s, e.head), Y) /\ From(t, e.head) = From(s, e.head)
  <2>1. PICK q : q = From(s, e.head)
    OBVIOUS
  <2>2. IsEntry(s, j, e, q, X)
    BY <2>1 DEF InOrder
  <2>3. \A i \in 1 .. Len(q) : t.convs[q[i]] = s.convs[q[i]] /\ q[i] \notin Y
    BY <1>0, <1>5, <2>2 DEF IsEntry, IsChain, OfKey
  <2>4. e.owner \notin Y /\ t.convs[e.owner] = s.convs[e.owner]
    BY <1>0, <1>5, <2>2 DEF IsEntry, OfKey
  <2>5. DOMAIN s.convs \subseteq DOMAIN t.convs
    BY DEF KeepsConvs
  <2> QED  BY <1>1, <2>1, <2>2, <2>3, <2>4, <2>5, EntryKept
<1>6. \A j \in Kinds : \A e \in t.tables[j] : IsEntry(t, j, e, From(t, e.head), Y)
  BY <1>0, <1>4, <1>5
<1>7. \A j \in Kinds : \A e, f \in t.tables[j] : e.hash = f.hash => e = f
  <2>1. \A j \in Kinds : \A e, f \in s.tables[j] : e.hash = f.hash => e = f
    BY DEF InOrder
  <2> QED  BY <1>0, <1>4, <2>1
<1>8. ASSUME NEW c \in DOMAIN t.convs, c \notin Y
      PROVE  InTable(t, c)
  <2>1. CASE OfKey(s, c, k, h)
    BY <1>0, <1>8, <2>1 DEF KeepsConvs
  <2>2. CASE ~OfKey(s, c, k, h)
    <3>1. c \in DOMAIN s.convs /\ c \notin X /\ t.convs[c] = s.convs[c]
      BY <1>0, <1>8, <2>2 DEF KeepsConvs
    <3>2. PICK j : j = KindOf(s.convs[c].options)
      OBVIOUS
    <3>3. PICK e \in s.tables[j] : /\ e.hash = s.convs[c].key
                                   /\ \E i \in 1 .. Len(From(s, e.head)) : From(s, e.head)[i] = c
      BY <3>1, <3>2 DEF InOrder, InTable
    <3>4. j \in Kinds
      BY <3>2, KindOfIsKind
    <3>5. j # k \/ e.hash # h
      BY <2>2, <3>2, <3>3 DEF OfKey
    <3>6. e \in t.tables[j] /\ From(t, e.head) = From(s, e.head)
      BY <1>4, <1>5, <3>4, <3>5
    <3> QED  BY <3>1, <3>2, <3>3, <3>6 DEF InTable
  <2> QED  BY <2>1, <2>2
<1> QED  BY <1>1, <1>2, <1>3, <1>6, <1>7, <1>8 DEF InOrder

\* A change from s to t of one conversation.
SameBut(s, t, c) ==
    /\ KeepsConvs(s, t)
    /\ t.tables = s.tables
    /\ \A d \in DOMAIN s.convs : d # c => t.convs[d] = s.convs[d]

\* The next pointer of one conversation is set, and nothing else.
NextIs(s, t, c, v) ==
    /\ SameBut(s, t, c)
    /\ t.convs[c].next = v
    /\ t.convs[c].last = s.convs[c].last
    /\ t.convs[c].latest_found = s.convs[c].latest_found

\* next of one conversation is set.
LEMMA NextSet ==
    ASSUME NEW s, IsState(s), NEW c \in DOMAIN s.convs, NEW v,
           NEW t, t = [s EXCEPT !.convs[c].next = v]
    PROVE  NextIs(s, t, c, v) /\ IsState(t) /\ KeepsConvs(s, t)
<1>1. PICK r, w : r = s.convs[c] /\ w = [s.convs[c] EXCEPT !.next = v]
  OBVIOUS
<1>2. /\ t = [convs |-> t.convs, tables |-> t.tables] /\ t.tables = s.tables
      /\ t.convs = [s.convs EXCEPT ![c] = w]
  BY <1>1 DEF IsState
<1>3. IsConv(r) /\ w = [r EXCEPT !.next = v]
  BY <1>1 DEF IsState
<1>4. /\ IsConv(w) /\ w.next = v /\ w.last = r.last /\ w.latest_found = r.latest_found
      /\ w.key = r.key /\ w.options = r.options /\ w.setup_frame = r.setup_frame
      /\ w.template = r.template
  BY <1>3 DEF IsConv
<1>5. /\ IsState(t) /\ DOMAIN t.convs = DOMAIN s.convs
      /\ \A d \in DOMAIN s.convs : t.convs[d] = IF d = c THEN w ELSE s.convs[d]
  BY <1>2, <1>4, OneChanged
<1>6. t.convs[c] = w
  BY <1>5
<1> QED  BY <1>1, <1>2, <1>4, <1>5, <1>6 DEF NextIs, SameBut, KeepsConvs

\* Its pointer to the end of the chain is set, and nothing else.
LastIs(s, t, c, v) ==
    /\ SameBut(s, t, c)
    /\ t.convs[c].last = v
    /\ t.convs[c].next = s.convs[c].next
    /\ t.convs[c].latest_found = s.convs[c].latest_found

\* last of one conversation is set.
LEMMA LastSet ==
    ASSUME NEW s, IsState(s), NEW c \in DOMAIN s.convs, NEW v,
           NEW t, t = [s EXCEPT !.convs[c].last = v]
    PROVE  LastIs(s, t, c, v) /\ IsState(t) /\ KeepsConvs(s, t)
<1>1. PICK r, w : r = s.convs[c] /\ w = [s.convs[c] EXCEPT !.last = v]
  OBVIOUS
<1>2. /\ t = [convs |-> t.convs, tables |-> t.tables] /\ t.tables = s.tables
      /\ t.convs = [s.convs EXCEPT ![c] = w]
  BY <1>1 DEF IsState
<1>3. IsConv(r) /\ w = [r EXCEPT !.last = v]
  BY <1>1 DEF IsState
<1>4. /\ IsConv(w) /\ w.last = v /\ w.next = r.next /\ w.latest_found = r.latest_found
      /\ w.key = r.key /\ w.options = r.options /\ w.setup_frame = r.setup_frame
      /\ w.template = r.template
  BY <1>3 DEF IsConv
<1>5. /\ IsState(t) /\ DOMAIN t.convs = DOMAIN s.convs
      /\ \A d \in DOMAIN s.convs : t.convs[d] = IF d = c THEN w ELSE s.convs[d]
  BY <1>2, <1>4, OneChanged
<1>6. t.convs[c] = w
  BY <1>5
<1> QED  BY <1>1, <1>2, <1>4, <1>5, <1>6 DEF LastIs, SameBut, KeepsConvs

\* What it remembers as found last is set, and nothing else.
FoundIs(s, t, c, v) ==
    /\ SameBut(s, t, c)
    /\ t.convs[c].latest_found = v
    /\ t.convs[c].next = s.convs[c].next
    /\ t.convs[c].last = s.convs[c].last

\* latest_found of one conversation is set.
LEMMA FoundSet ==
    ASSUME NEW s, IsState(s), NEW c \in DOMAIN s.convs, NEW v,
           NEW t, t = [s EXCEPT !.convs[c].latest_found = v]
    PROVE  FoundIs(s, t, c, v) /\ IsState(t) /\ KeepsConvs(s, t)
<1>1. PICK r, w : r = s.convs[c] /\ w = [s.convs[c] EXCEPT !.latest_found = v]
  OBVIOUS
<1>2. /\ t = [convs |-> t.convs, tables |-> t.tables] /\ t.tables = s.tables
      /\ t.convs = [s.convs EXCEPT ![c] = w]
  BY <1>1 DEF IsState
<1>3. IsConv(r) /\ w = [r EXCEPT !.latest_found = v]
  BY <1>1 DEF IsState
<1>4. /\ IsConv(w) /\ w.latest_found = v /\ w.next = r.next /\ w.last = r.last
      /\ w.key = r.key /\ w.options = r.options /\ w.setup_frame = r.setup_frame
      /\ w.template = r.template
  BY <1>3 DEF IsConv
<1>5. /\ IsState(t) /\ DOMAIN t.convs = DOMAIN s.convs
      /\ \A d \in DOMAIN s.convs : t.convs[d] = IF d = c THEN w ELSE s.convs[d]
  BY <1>2, <1>4, OneChanged
<1>6. t.convs[c] = w
  BY <1>5
<1> QED  BY <1>1, <1>2, <1>4, <1>5, <1>6 DEF FoundIs, SameBut, KeepsConvs

\* One change after the other.
LEMMA KeepsConvsTransitive ==
    ASSUME NEW s, NEW t, NEW u, KeepsConvs(s, t), KeepsConvs(t, u)
    PROVE  KeepsConvs(s, u)
BY DEF KeepsConvs

\* A sequence with c put in at place i.
PutInAt(q, i, c) ==
    [j \in 1 .. Len(q) + 1 |-> IF j < i THEN q[j] ELSE IF j = i THEN c ELSE q[j-1]]

\* Where its elements are then, of the first n and of c.
PutInPlaces(D, q, i, c, n, r) ==
    /\ r \in Seq(D) /\ Len(r) = n + 1
    /\ \A j \in 1 .. i - 1 : r[j] = q[j] /\ j \in 1 .. n /\ j \in 1 .. n + 1
    /\ r[i] = c
    /\ \A j \in i .. n : r[j+1] = q[j] /\ j \in 1 .. n /\ j + 1 \in 1 .. n + 1
    /\ \A j \in 1 .. n + 1 : \/ j \in 1 .. i - 1
                             \/ j = i
                             \/ \E m \in i .. n : j = m + 1
    /\ \A j \in 1 .. n : \E m \in 1 .. n + 1 : q[j] = r[m]

\* A conversation put into a chain at a place is in it once, between those before
\* and those after the place.
LEMMA PutIn ==
    ASSUME NEW D, NEW q \in Seq(D), NEW n \in Nat, n = Len(q), NEW i \in 1 .. n + 1, NEW c \in D,
           NEW r, r = PutInAt(q, i, c)
    PROVE  PutInPlaces(D, q, i, c, n, r)
<1>1. n + 1 \in Nat /\ \A j \in 1 .. n : q[j] \in D
  OBVIOUS
<1>2. \A j \in 1 .. n + 1 : r[j] = IF j < i THEN q[j] ELSE IF j = i THEN c ELSE q[j-1]
  BY DEF PutInAt
<1>3. ASSUME NEW j \in 1 .. n + 1
      PROVE  r[j] \in D
  <2>1. CASE j < i
    <3>1. j \in 1 .. n /\ r[j] = q[j]
      BY <1>2, <2>1
    <3> QED  BY <1>1, <3>1
  <2>2. CASE j = i
    BY <1>2, <2>2
  <2>3. CASE j > i
    <3>1. j - 1 \in 1 .. n /\ r[j] = q[j-1]
      BY <1>2, <2>3
    <3> QED  BY <1>1, <3>1
  <2> QED  BY <2>1, <2>2, <2>3
<1>4. r \in [1 .. n + 1 -> D]
  <2>1. r = [j \in 1 .. n + 1 |-> r[j]]
    BY DEF PutInAt
  <2> QED  BY <1>3, <2>1
<1>5. r \in Seq(D) /\ Len(r) = n + 1
  BY <1>1, <1>4
<1>6. \A j \in 1 .. i - 1 : r[j] = q[j] /\ j \in 1 .. n /\ j \in 1 .. n + 1
  BY <1>2
<1>7. r[i] = c
  BY <1>2
<1>8. \A j \in i .. n : r[j+1] = q[j] /\ j \in 1 .. n /\ j + 1 \in 1 .. n + 1
  <2> SUFFICES ASSUME NEW j \in i .. n
               PROVE  r[j+1] = q[j] /\ j \in 1 .. n /\ j + 1 \in 1 .. n + 1
    OBVIOUS
  <2>1. j \in 1 .. n /\ j + 1 \in 1 .. n + 1 /\ ~(j + 1 < i) /\ j + 1 # i /\ j + 1 - 1 = j
    OBVIOUS
  <2> QED  BY <1>2, <2>1
<1>9. ASSUME NEW j \in 1 .. n + 1
      PROVE  j \in 1 .. i - 1 \/ j = i \/ \E m \in i .. n : j = m + 1
  <2>1. CASE j > i
    <3>1. j - 1 \in i .. n /\ j = (j - 1) + 1
      BY <2>1
    <3> QED  BY <3>1
  <2> QED  BY <2>1
<1>10. ASSUME NEW j \in 1 .. n
       PROVE  \E m \in 1 .. n + 1 : q[j] = r[m]
  <2>1. CASE j < i
    <3>1. j \in 1 .. i - 1
      BY <2>1
    <3> QED  BY <1>6, <3>1
  <2>2. CASE j >= i
    <3>1. j \in i .. n
      BY <2>2
    <3> QED  BY <1>8, <3>1
  <2> QED  BY <2>1, <2>2
<1> QED  BY <1>5, <1>6, <1>7, <1>8, <1>9, <1>10 DEF PutInPlaces

\* The first n elements, without repetition, in the order of their values.
Sorted(q, n, val) ==
    /\ \A j, m \in 1 .. n : q[j] = q[m] => j = m
    /\ \A j, m \in 1 .. n : j <= m => val[q[j]] <= val[q[m]]

\* It stays so if c is new and is put in its place.
LEMMA PutInSorted ==
    ASSUME NEW D, NEW q, NEW n \in Nat, NEW i \in 1 .. n + 1, NEW c,
           NEW r, PutInPlaces(D, q, i, c, n, r),
           \A j \in 1 .. n : q[j] # c, NEW val, \A d \in D : val[d] \in Nat, c \in D,
           Sorted(q, n, val),
           \A j \in 1 .. i - 1 : val[q[j]] <= val[c], \A j \in i .. n : val[c] <= val[q[j]]
    PROVE  Sorted(r, n + 1, val)
<1>1. /\ \A j \in 1 .. i - 1 : r[j] = q[j] /\ j \in 1 .. n /\ j \in 1 .. n + 1
      /\ r[i] = c
      /\ \A j \in i .. n : r[j+1] = q[j] /\ j \in 1 .. n /\ j + 1 \in 1 .. n + 1
      /\ \A j \in 1 .. n + 1 : j \in 1 .. i - 1 \/ j = i \/ \E m \in i .. n : j = m + 1
  BY DEF PutInPlaces
<1>2. SUFFICES ASSUME NEW j \in 1 .. n + 1, NEW m \in 1 .. n + 1
               PROVE  /\ r[j] = r[m] => j = m
                      /\ j <= m => val[r[j]] <= val[r[m]]
  BY DEF Sorted
<1>20. /\ \A a, b \in 1 .. n : q[a] = q[b] => a = b
       /\ \A a, b \in 1 .. n : a <= b => val[q[a]] <= val[q[b]]
  BY DEF Sorted
<1>3. CASE j \in 1 .. i - 1 /\ m \in 1 .. i - 1
  <2>1. r[m] = q[m] /\ r[j] = q[j] /\ m \in 1 .. n /\ j \in 1 .. n
    BY <1>1, <1>3
  <2> QED  BY <1>20, <2>1
<1>4. CASE j \in 1 .. i - 1 /\ m = i
  BY <1>1, <1>4
<1>5. CASE j = i /\ m \in 1 .. i - 1
  BY <1>1, <1>5
<1>6. CASE j = i /\ m = i
  BY <1>1, <1>6
<1>7. ASSUME NEW b \in i .. n, m = b + 1, j \in 1 .. i - 1
      PROVE  /\ r[j] = r[m] => j = m
             /\ j <= m => val[r[j]] <= val[r[m]]
  <2>1. r[m] = q[b] /\ r[j] = q[j] /\ b \in 1 .. n /\ j \in 1 .. n /\ j <= b /\ j # b
    BY <1>1, <1>7
  <2> QED  BY <1>20, <2>1
<1>8. ASSUME NEW b \in i .. n, m = b + 1, j = i
      PROVE  /\ r[j] = r[m] => j = m
             /\ j <= m => val[r[j]] <= val[r[m]]
  <2>1. r[m] = q[b] /\ r[j] = c /\ b \in 1 .. n
    BY <1>1, <1>8
  <2> QED  BY <1>20, <2>1
<1>9. ASSUME NEW a \in i .. n, j = a + 1, m = i
      PROVE  /\ r[j] = r[m] => j = m
             /\ j <= m => val[r[j]] <= val[r[m]]
  <2>1. r[j] = q[a] /\ r[m] = c /\ a \in 1 .. n /\ ~(j <= m)
    BY <1>1, <1>9
  <2> QED  BY <1>20, <2>1
<1>10. ASSUME NEW a \in i .. n, j = a + 1, m \in 1 .. i - 1
       PROVE  /\ r[j] = r[m] => j = m
              /\ j <= m => val[r[j]] <= val[r[m]]
  <2>1. r[j] = q[a] /\ r[m] = q[m] /\ a \in 1 .. n /\ m \in 1 .. n /\ ~(j <= m) /\ a # m
    BY <1>1, <1>10
  <2> QED  BY <1>20, <2>1
<1>11. ASSUME NEW a \in i .. n, NEW b \in i .. n, j = a + 1, m = b + 1
       PROVE  /\ r[j] = r[m] => j = m
              /\ j <= m => val[r[j]] <= val[r[m]]
  <2>1. /\ r[j] = q[a] /\ r[m] = q[b] /\ a \in 1 .. n /\ b \in 1 .. n
        /\ (j <= m => a <= b) /\ (a = b => j = m)
    BY <1>1, <1>11
  <2> QED  BY <1>20, <2>1
<1>12. /\ j \in 1 .. i - 1 \/ j = i \/ \E a \in i .. n : j = a + 1
       /\ m \in 1 .. i - 1 \/ m = i \/ \E a \in i .. n : m = a + 1
  BY <1>1
<1> QED  BY <1>3, <1>4, <1>5, <1>6, <1>7, <1>8, <1>9, <1>10, <1>11, <1>12

\* The conversation c, in no chain, belongs before the i-th one of the chain q, which
\* an entry for its kind and key leads to, or at its end.
Belongs(s, c, k, h, e, q, i) ==
    /\ InOrder(s, {c}) /\ c \in DOMAIN s.convs /\ OfKey(s, c, k, h)
    /\ s.convs[c].latest_found = NULL \/ s.convs[c].latest_found = c
    /\ k \in Kinds /\ e \in s.tables[k] /\ e.hash = h /\ q = From(s, e.head)
    /\ i \in 1 .. Len(q) + 1
    /\ \A j \in 1 .. i - 1 : SetupFrame(s, q[j]) <= SetupFrame(s, c)
    /\ \A j \in i .. Len(q) : SetupFrame(s, c) <= SetupFrame(s, q[j])

\* It is put there.
PutThere(s, t, c, k, h, e, q, i, head) ==
    /\ KeepsConvs(s, t)
    /\ head = IF i = 1 THEN c ELSE q[1]
    /\ \A d \in DOMAIN s.convs : ~OfKey(s, d, k, h) => t.convs[d] = s.convs[d]
    /\ \A j \in 1 .. Len(q) : t.convs[q[j]].next = IF j = i - 1 THEN c ELSE s.convs[q[j]].next
    /\ t.convs[c].next = IF i = Len(q) + 1 THEN NULL ELSE q[i]
    /\ t.convs[head].last = IF i = Len(q) + 1 THEN c ELSE q[Len(q)]
    /\ t.convs[head].latest_found = s.convs[head].latest_found
    /\ t.tables = [s.tables EXCEPT ![k] =
                      {f \in s.tables[k] : f.hash # h} \cup {[e EXCEPT !.head = head]}]

\* The tables are in order afterwards, and c is not the one whose key the entry uses.
LEMMA SplicedIn ==
    ASSUME NEW s, NEW t, NEW c, NEW k, NEW h, NEW e, NEW q, NEW i, NEW head,
           Belongs(s, c, k, h, e, q, i), PutThere(s, t, c, k, h, e, q, i, head)
    PROVE  /\ InOrder(t, {})
           /\ \A f \in t.tables[k] : f.owner # c
<1>0. PICK n : n = Len(q)
  OBVIOUS
<1>1. IsState(s) /\ IsState(t) /\ IsEntry(s, k, e, q, {c})
  BY DEF Belongs, PutThere, InOrder, KeepsConvs
<1>2. /\ n \in Nat /\ n > 0 /\ q \in Seq(DOMAIN s.convs)
      /\ c \in DOMAIN s.convs /\ i \in 1 .. n + 1
      /\ \A j \in 1 .. n : q[j] \in DOMAIN s.convs
      /\ \A j \in 1 .. n : q[j] # c /\ OfKey(s, q[j], k, h)
  BY <1>0, <1>1 DEF IsEntry, IsChain, OfKey, Belongs
<1>20. PICK r : r = PutInAt(q, i, c)
  OBVIOUS
<1>21. PICK f : f = [e EXCEPT !.head = head]
  OBVIOUS
<1>22. PutInPlaces(DOMAIN s.convs, q, i, c, n, r)
  BY <1>0, <1>2, <1>20, PutIn
<1>3. /\ r \in Seq(DOMAIN s.convs) /\ Len(r) = n + 1
      /\ \A j \in 1 .. i - 1 : r[j] = q[j] /\ j \in 1 .. n /\ j \in 1 .. n + 1
      /\ r[i] = c
      /\ \A j \in i .. n : r[j+1] = q[j] /\ j \in 1 .. n /\ j + 1 \in 1 .. n + 1
      /\ \A j \in 1 .. n + 1 : j \in 1 .. i - 1 \/ j = i \/ \E m \in i .. n : j = m + 1
      /\ \A j \in 1 .. n : \E m \in 1 .. n + 1 : q[j] = r[m]
  BY <1>22 DEF PutInPlaces
<1>4. /\ \A j, m \in 1 .. n + 1 : r[j] = r[m] => j = m
      /\ \A j, m \in 1 .. n + 1 : j <= m => SetupFrame(s, r[j]) <= SetupFrame(s, r[m])
  <2>1. PICK D : D = DOMAIN s.convs
    OBVIOUS
  <2>2. PICK val : val = [d \in D |-> SetupFrame(s, d)]
    OBVIOUS
  <2>3. val \in [D -> Nat] /\ \A d \in D : val[d] = SetupFrame(s, d)
    BY <2>1, <2>2 DEF Belongs, InOrder, SetupFrame
  <2>4. /\ \A j, m \in 1 .. n : q[j] = q[m] => j = m
        /\ \A j, m \in 1 .. n : j <= m => SetupFrame(s, q[j]) <= SetupFrame(s, q[m])
    BY <1>0, <1>1 DEF IsEntry, IsChain
  <2>5. /\ \A j, m \in 1 .. n : j <= m => val[q[j]] <= val[q[m]]
        /\ \A j \in 1 .. i - 1 : val[q[j]] <= val[c]
        /\ \A j \in i .. n : val[c] <= val[q[j]]
    <3>1. \A j \in 1 .. n : val[q[j]] = SetupFrame(s, q[j])
      BY <1>2, <2>1, <2>3
    <3>2. val[c] = SetupFrame(s, c)
      BY <1>2, <2>1, <2>3
    <3>3. /\ \A j \in 1 .. i - 1 : j \in 1 .. n
          /\ \A j \in i .. n : j \in 1 .. n
      BY <1>2
    <3>4. /\ \A j \in 1 .. i - 1 : SetupFrame(s, q[j]) <= SetupFrame(s, c)
          /\ \A j \in i .. n : SetupFrame(s, c) <= SetupFrame(s, q[j])
      BY <1>0 DEF Belongs
    <3> QED  BY <2>4, <3>1, <3>2, <3>3, <3>4
  <2>6. q \in Seq(D) /\ c \in D /\ \A j \in 1 .. n : q[j] # c
    BY <1>2, <2>1
  <2>7. /\ \A j, m \in 1 .. n + 1 : r[j] = r[m] => j = m
        /\ \A j, m \in 1 .. n + 1 : j <= m => val[r[j]] <= val[r[m]]
    <3>1. Sorted(q, n, val)
      BY <2>4, <2>5 DEF Sorted
    <3>2. Sorted(r, n + 1, val)
      <4>1. PutInPlaces(D, q, i, c, n, r) /\ \A d \in D : val[d] \in Nat
        BY <1>22, <2>1, <2>3
      <4> QED  BY <1>2, <2>5, <2>6, <3>1, <4>1, PutInSorted
    <3> QED  BY <3>2 DEF Sorted
  <2>8. \A j \in 1 .. n + 1 : val[r[j]] = SetupFrame(s, r[j])
    <3>1. \A j \in 1 .. n + 1 : r[j] \in D
      BY <1>2, <1>3, <2>1
    <3> QED  BY <2>3, <3>1
  <2> QED  BY <2>7, <2>8
<1>50. head = IF i = 1 THEN c ELSE q[1]
  BY DEF PutThere
<1>51. \A j \in 1 .. n : t.convs[q[j]].next = IF j = i - 1 THEN c ELSE s.convs[q[j]].next
  BY <1>0 DEF PutThere
<1>52. t.convs[c].next = IF i = n + 1 THEN NULL ELSE q[i]
  BY <1>0 DEF PutThere
<1>53. KeepsConvs(s, t)
  BY DEF PutThere
<1>5. /\ r[1] = head /\ r[n+1] = IF i = n + 1 THEN c ELSE q[n]
      /\ \A j \in 1 .. n + 1 : r[j] \in DOMAIN s.convs /\ OfKey(s, r[j], k, h)
  <2>1. r[1] = head
    <3>1. CASE i = 1
      BY <1>3, <1>50, <3>1
    <3>2. CASE i # 1
      <4>1. 1 \in 1 .. i - 1
        BY <1>2, <3>2
      <4> QED  BY <1>3, <1>50, <3>2, <4>1
    <3> QED  BY <3>1, <3>2
  <2>2. r[n+1] = IF i = n + 1 THEN c ELSE q[n]
    <3>1. CASE i = n + 1
      BY <1>3, <3>1
    <3>2. CASE i # n + 1
      <4>1. n \in i .. n
        BY <1>2, <3>2
      <4> QED  BY <1>3, <3>2, <4>1
    <3> QED  BY <3>1, <3>2
  <2>3. ASSUME NEW j \in 1 .. n + 1
        PROVE  r[j] \in DOMAIN s.convs /\ OfKey(s, r[j], k, h)
    <3>1. CASE j \in 1 .. i - 1
      BY <1>2, <1>3, <3>1
    <3>2. CASE j = i
      <4>1. OfKey(s, c, k, h)
        BY DEF Belongs
      <4> QED  BY <1>2, <1>3, <3>2, <4>1
    <3>3. ASSUME NEW m \in i .. n, j = m + 1
          PROVE  r[j] \in DOMAIN s.convs /\ OfKey(s, r[j], k, h)
      BY <1>2, <1>3, <3>3
    <3> QED  BY <1>3, <3>1, <3>2, <3>3
  <2> QED  BY <2>1, <2>2, <2>3
<1>6. From(t, head) = r /\ IsChain(t, r)
  <2>1. ASSUME NEW j \in 1 .. n
        PROVE  t.convs[r[j]].next = r[j+1]
    <3>1. CASE j < i - 1
      <4>1. j \in 1 .. i - 1 /\ j + 1 \in 1 .. i - 1 /\ j \in 1 .. n - 1 /\ j # i - 1
        BY <1>2, <3>1
      <4>2. s.convs[q[j]].next = q[j+1]
        BY <1>0, <1>1, <4>1 DEF IsEntry, IsChain
      <4> QED  BY <1>3, <1>51, <4>1, <4>2
    <3>2. CASE j = i - 1
      <4>1. j \in 1 .. i - 1 /\ j + 1 = i
        BY <1>2, <3>2
      <4> QED  BY <1>3, <1>51, <3>2, <4>1
    <3>3. CASE j = i
      <4>1. j \in i .. n /\ i # n + 1
        BY <1>2, <3>3
      <4> QED  BY <1>3, <1>52, <3>3, <4>1
    <3>4. CASE j > i
      <4>1. PICK m \in 1 .. n : m = j - 1
        BY <1>2, <3>4
      <4>2. m \in i .. n /\ m + 1 = j /\ j \in i .. n /\ m \in 1 .. n - 1 /\ m # i - 1
        BY <1>2, <3>4, <4>1
      <4>3. s.convs[q[m]].next = q[m+1]
        BY <1>0, <1>1, <4>2 DEF IsEntry, IsChain
      <4>4. r[j] = q[m] /\ r[j+1] = q[j]
        BY <1>3, <4>2
      <4>5. t.convs[q[m]].next = s.convs[q[m]].next
        BY <1>51, <4>1, <4>2
      <4> QED  BY <4>2, <4>3, <4>4, <4>5
    <3>5. j < i - 1 \/ j = i - 1 \/ j = i \/ j > i
      BY <1>2
    <3> QED  BY <3>1, <3>2, <3>3, <3>4, <3>5
  <2>2. t.convs[r[n+1]].next = NULL
    <3>1. CASE i = n + 1
      BY <1>5, <1>52, <3>1
    <3>2. CASE i # n + 1
      <4>1. r[n+1] = q[n] /\ n \in 1 .. n /\ n # i - 1
        BY <1>2, <1>5, <3>2
      <4>2. s.convs[q[n]].next = NULL
        BY <1>0, <1>1 DEF IsEntry, IsChain
      <4> QED  BY <1>51, <4>1, <4>2
    <3> QED  BY <3>1, <3>2
  <2>3. DOMAIN t.convs = DOMAIN s.convs
    BY <1>53 DEF KeepsConvs
  <2>4. IsChain(t, r)
    <3>1. n + 1 - 1 = n /\ n + 1 > 0
      BY <1>2
    <3>2. r \in Seq(DOMAIN t.convs) /\ Len(r) = n + 1
      BY <1>3, <2>3
    <3>3. \A j \in 1 .. Len(r) - 1 : t.convs[r[j]].next = r[j+1]
      <4>1. Len(r) - 1 = n
        BY <1>2, <3>2
      <4> QED  BY <2>1, <4>1
    <3>4. t.convs[r[Len(r)]].next = NULL /\ Len(r) > 0
      BY <2>2, <3>1, <3>2
    <3>5. \A j, m \in 1 .. Len(r) : r[j] = r[m] => j = m
      BY <1>4, <3>2
    <3> QED  BY <3>2, <3>3, <3>4, <3>5 DEF IsChain
  <2> QED  BY <1>1, <1>5, <2>4, ChainIsFrom
<1>7. f = [hash |-> h, owner |-> e.owner, head |-> head] /\ e.owner # c
  BY <1>1, <1>21 DEF IsEntry, Belongs
<1>8. /\ \A j, m \in 1 .. n + 1 : j <= m => SetupFrame(t, r[j]) <= SetupFrame(t, r[m])
      /\ \A j \in 1 .. n + 1 : t.convs[r[j]].key = h /\ KindOf(t.convs[r[j]].options) = k
  <2>1. \A j \in 1 .. n + 1 : SetupFrame(t, r[j]) = SetupFrame(s, r[j])
    BY <1>5, <1>53 DEF KeepsConvs, SetupFrame
  <2> QED  BY <1>4, <1>5, <1>53, <2>1 DEF KeepsConvs, OfKey
<1>90. t.convs[head].latest_found = s.convs[head].latest_found
  BY DEF PutThere
<1>9. \/ t.convs[r[1]].latest_found = NULL
      \/ \E j \in 1 .. n + 1 : t.convs[r[1]].latest_found = r[j]
  <2>1. CASE i = 1
    <3>1. r[1] = c /\ head = c /\ 1 \in 1 .. n + 1
      BY <1>2, <1>5, <1>50, <2>1
    <3>2. s.convs[c].latest_found = NULL \/ s.convs[c].latest_found = c
      BY DEF Belongs
    <3> QED  BY <1>90, <3>1, <3>2
  <2>2. CASE i # 1
    <3>1. r[1] = q[1] /\ head = q[1]
      BY <1>5, <1>50, <2>2
    <3>2. CASE s.convs[q[1]].latest_found = NULL
      BY <1>90, <3>1, <3>2
    <3>3. ASSUME NEW j \in 1 .. n, s.convs[q[1]].latest_found = q[j]
          PROVE  \E m \in 1 .. n + 1 : q[j] = r[m]
      BY <1>3
    <3> QED  BY <1>0, <1>1, <1>90, <3>1, <3>2, <3>3 DEF IsEntry
  <2> QED  BY <2>1, <2>2
<1>10. IsEntry(t, k, f, r, {})
  <2>1. /\ f.hash = h /\ f.owner = e.owner /\ f.head = head
        /\ f = [hash |-> f.hash, owner |-> f.owner, head |-> f.head]
    BY <1>7
  <2>2. /\ e.owner \in DOMAIN t.convs /\ t.convs[e.owner].key = h
        /\ KindOf(t.convs[e.owner].options) = k
    BY <1>1, <1>7, <1>53 DEF IsEntry, KeepsConvs, Belongs
  <2>3. t.convs[r[1]].last = r[Len(r)]
    BY <1>0, <1>3, <1>5 DEF PutThere
  <2> QED  BY <1>2, <1>3, <1>5, <1>6, <1>8, <1>9, <2>1, <2>2, <2>3 DEF IsEntry
<1>11. t.tables[k] = {g \in s.tables[k] : g.hash # h} \cup {f}
  <2>1. t.tables = [s.tables EXCEPT ![k] = {g \in s.tables[k] : g.hash # h} \cup {f}]
    BY <1>21 DEF PutThere
  <2> QED  BY <2>1 DEF InOrder, Belongs
<1>12. ASSUME NEW d \in DOMAIN s.convs, OfKey(s, d, k, h)
       PROVE  InTable(t, d)
  <2>1. \E j \in 1 .. Len(r) : r[j] = d
    <3>1. CASE d = c
      BY <1>2, <1>3, <3>1
    <3>2. CASE d # c
      <4>1. InTable(s, d)
        BY <1>12, <3>2 DEF InOrder, Belongs
      <4>2. PICK g \in s.tables[k] : /\ g.hash = h
                                     /\ \E j \in 1 .. Len(From(s, g.head)) : From(s, g.head)[j] = d
        BY <1>12, <4>1 DEF InTable, OfKey
      <4>3. g = e
        BY <4>2 DEF InOrder, Belongs
      <4>4. PICK j \in 1 .. n : q[j] = d
        BY <1>0, <4>2, <4>3 DEF Belongs
      <4> QED  BY <1>3, <4>4
    <3> QED  BY <3>1, <3>2
  <2>2. f \in t.tables[k] /\ f.hash = h /\ f.head = head
    BY <1>7, <1>11
  <2>3. t.convs[d].key = h /\ KindOf(t.convs[d].options) = k
    BY <1>12, <1>53 DEF KeepsConvs, OfKey
  <2> QED  BY <1>6, <2>1, <2>2, <2>3 DEF InTable
<1>13. InOrder(t, {})
  <2>1. PICK B, X, Y : B = {f} /\ X = {c} /\ Y = {}
    OBVIOUS
  <2>2. InOrder(s, X) /\ k \in Kinds
    BY <2>1 DEF Belongs
  <2>3. \A d \in DOMAIN s.convs : ~OfKey(s, d, k, h) =>
           t.convs[d] = s.convs[d] /\ (d \in Y <=> d \in X)
    BY <2>1 DEF PutThere, Belongs
  <2>4. t.tables = [s.tables EXCEPT ![k] = {g \in s.tables[k] : g.hash # h} \cup B]
    BY <1>21, <2>1 DEF PutThere
  <2>5. \A g \in B : g.hash = h /\ IsEntry(t, k, g, From(t, g.head), Y)
    BY <1>6, <1>7, <1>10, <2>1
  <2>6. \A g, a \in B : g = a
    BY <2>1
  <2>7. \A d \in DOMAIN s.convs : d \notin Y /\ OfKey(s, d, k, h) => InTable(t, d)
    BY <1>12
  <2>8. InOrder(t, Y)
    <3>1. Replaced(s, t, X, Y, k, h, B)
      BY <2>3, <2>4, <2>5, <2>6, <2>7 DEF Replaced
    <3> QED  BY <1>53, <2>2, <3>1, TableChanged
  <2> QED  BY <2>1, <2>8
<1>14. \A g \in t.tables[k] : g.owner # c
  <2>1. \A g \in s.tables[k] : g.owner # c
    BY DEF InOrder, IsEntry, Belongs
  <2> QED  BY <1>7, <1>11, <2>1
<1> QED  BY <1>13, <1>14

\* The entry of a key gets another head.
LEMMA NewHeadSet ==
    ASSUME NEW s, NEW X, InOrder(s, X), NEW k \in Kinds, NEW e \in s.tables[k], NEW c,
           NEW u, KeepsConvs(s, u), u.tables = s.tables,
           NEW t, t = NewHead(u, k, e.hash, c)
    PROVE  /\ t.convs = u.convs /\ IsState(t)
           /\ t.tables = [s.tables EXCEPT ![k] =
                            {f \in s.tables[k] : f.hash # e.hash} \cup {[e EXCEPT !.head = c]}]
<1>1. IsState(u) /\ u = [convs |-> u.convs, tables |-> u.tables]
  BY DEF KeepsConvs, IsState
<1>2. PICK T : T = {IF f \in Entries(u, k, e.hash) THEN [f EXCEPT !.head = c] ELSE f : f \in s.tables[k]}
  OBVIOUS
<1>3. t = [u EXCEPT !.tables[k] = T]
  BY <1>2 DEF NewHead
<1>4. t.convs = u.convs /\ t.tables = [s.tables EXCEPT ![k] = T] /\ t = [convs |-> t.convs, tables |-> t.tables]
  BY <1>1, <1>3
<1>5. Entries(u, k, e.hash) = {e}
  <2>1. Entries(s, k, e.hash) = {e}
    BY EntryOfKey
  <2>2. \A f \in s.tables[k] : u.convs[f.owner].key = s.convs[f.owner].key
    BY DEF InOrder, IsEntry, KeepsConvs
  <2> QED  BY <2>1, <2>2 DEF Entries
<1>6. \A f \in s.tables[k] : f.hash # e.hash <=> f # e
  BY DEF InOrder
<1>7. T = {f \in s.tables[k] : f.hash # e.hash} \cup {[e EXCEPT !.head = c]}
  BY <1>2, <1>5, <1>6
<1>8. IsState(t)
  BY <1>1, <1>4 DEF IsState
<1> QED  BY <1>4, <1>7, <1>8

\* What an insertion leaves alone: keys, options and setup frames, and what was found
\* last.
Inserted(s, t, c) ==
    /\ KeepsConvs(s, t)
    /\ \A d \in DOMAIN s.convs : t.convs[d].latest_found = s.convs[d].latest_found
    /\ InOrder(t, {})
    /\ \A f \in t.tables[KindOf(s.convs[c].options)] : f.owner = c => From(t, f.head) = <<c>>

\* A conversation that is in no chain, and has found nothing but itself.
Loose(s, c) ==
    /\ InOrder(s, {c}) /\ c \in DOMAIN s.convs
    /\ s.convs[c].latest_found = NULL \/ s.convs[c].latest_found = c

\* A sequence of one.
LEMMA OneElement ==
    ASSUME NEW D, NEW c \in D, NEW r, r = <<c>>
    PROVE  r \in Seq(D) /\ Len(r) = 1 /\ r[1] = c
OBVIOUS

\* A conversation becomes a chain of its own.
LEMMA InsertedAlone ==
    ASSUME NEW s, NEW c, Loose(s, c), NEW k, k = KindOf(s.convs[c].options),
           NEW h, h = s.convs[c].key, \A e \in s.tables[k] : e.hash # h,
           NEW t, NEW chain, t = InsertBy(s, k, c, NULL, chain)
    PROVE  Inserted(s, t, c)
<1>1. IsState(s) /\ c \in DOMAIN s.convs /\ InOrder(s, {c}) /\ k \in Kinds
  BY KindOfIsKind DEF Loose, InOrder
<1>2. PICK a : a = [s EXCEPT !.convs[c].next = NULL]
  OBVIOUS
<1>3. PICK b : b = [a EXCEPT !.convs[c].last = c]
  OBVIOUS
<1>4. PICK f : f = [hash |-> h, owner |-> c, head |-> c]
  OBVIOUS
<1>5. t = [b EXCEPT !.tables[k] = @ \cup {f}]
  BY <1>2, <1>3, <1>4 DEF InsertBy
<1>6. NextIs(s, a, c, NULL) /\ IsState(a) /\ c \in DOMAIN a.convs
  <2>1. NextIs(s, a, c, NULL) /\ IsState(a) /\ KeepsConvs(s, a)
    BY <1>1, <1>2, NextSet
  <2> QED  BY <1>1, <2>1 DEF KeepsConvs
<1>7. LastIs(a, b, c, c) /\ IsState(b)
  BY <1>3, <1>6, LastSet
<1>8. /\ KeepsConvs(s, b) /\ b.tables = s.tables
      /\ \A d \in DOMAIN s.convs : d # c => b.convs[d] = s.convs[d]
      /\ b.convs[c].next = NULL /\ b.convs[c].last = c
      /\ b.convs[c].latest_found = s.convs[c].latest_found
  BY <1>6, <1>7 DEF NextIs, LastIs, SameBut, KeepsConvs
<1>9. /\ t.convs = b.convs /\ t = [convs |-> t.convs, tables |-> t.tables]
      /\ t.tables = [s.tables EXCEPT ![k] = s.tables[k] \cup {f}]
  BY <1>5, <1>7, <1>8 DEF IsState
<1>10. IsState(t) /\ KeepsConvs(s, t)
  <2>1. IsState(t)
    BY <1>7, <1>9 DEF IsState
  <2> QED  BY <1>8, <1>9, <2>1 DEF KeepsConvs
<1>11. PICK r : r = <<c>>
  OBVIOUS
<1>12. /\ r \in Seq(DOMAIN t.convs) /\ Len(r) = 1 /\ r[1] = c
       /\ t.convs[c].next = NULL /\ t.convs[c].last = c
       /\ t.convs[c].latest_found = s.convs[c].latest_found
  <2>1. c \in DOMAIN t.convs
    BY <1>1, <1>10 DEF KeepsConvs
  <2>2. r \in Seq(DOMAIN t.convs) /\ Len(r) = 1 /\ r[1] = c
    BY <1>11, <2>1, OneElement
  <2> QED  BY <1>8, <1>9, <2>2
<1>13. IsChain(t, r)
  <2>1. \A j \in 1 .. Len(r) - 1 : FALSE
    BY <1>12
  <2>2. \A i, j \in 1 .. Len(r) : i = j
    BY <1>12
  <2> QED  BY <1>12, <2>1, <2>2 DEF IsChain
<1>14. From(t, c) = r
  BY <1>10, <1>12, <1>13, ChainIsFrom
<1>15. IsEntry(t, k, f, r, {})
  <2>1. t.convs[c].key = h /\ KindOf(t.convs[c].options) = k /\ c \in DOMAIN t.convs
    BY <1>1, <1>10 DEF KeepsConvs
  <2>2. SetupFrame(t, c) \in Nat
    BY <1>1, <1>10 DEF KeepsConvs, SetupFrame, InOrder
  <2>3. \A i \in 1 .. Len(r) : r[i] = c
    BY <1>12
  <2>4. t.convs[c].latest_found = NULL \/ t.convs[c].latest_found = c
    BY <1>12 DEF Loose
  <2>5. 1 \in 1 .. Len(r)
    BY <1>12
  <2>6. \A i, j \in 1 .. Len(r) : i <= j => SetupFrame(t, r[i]) <= SetupFrame(t, r[j])
    BY <2>2, <2>3
  <2>7. f.hash = h /\ f.owner = c /\ f.head = c /\ f = [hash |-> f.hash, owner |-> f.owner, head |-> f.head]
    BY <1>4
  <2>8. r[1] = f.head /\ t.convs[r[1]].last = r[Len(r)]
    BY <1>12, <2>7
  <2>9. t.convs[r[1]].latest_found = NULL \/ \E i \in 1 .. Len(r) : t.convs[r[1]].latest_found = r[i]
    BY <1>12, <2>4, <2>5
  <2> QED  BY <1>13, <2>1, <2>3, <2>6, <2>7, <2>8, <2>9 DEF IsEntry
<1>16. t.tables[k] = s.tables[k] \cup {f}
  BY <1>1, <1>9 DEF InOrder
<1>17. ASSUME NEW d \in DOMAIN s.convs, OfKey(s, d, k, h)
       PROVE  InTable(t, d)
  <2>1. CASE d = c
    <3>1. t.convs[d].key = h /\ KindOf(t.convs[d].options) = k /\ f \in t.tables[k]
      BY <1>10, <1>16, <1>17 DEF KeepsConvs, OfKey
    <3>2. f.hash = h /\ f.head = c /\ From(t, f.head) = r
      BY <1>4, <1>14
    <3>3. 1 \in 1 .. Len(r) /\ r[1] = d
      BY <1>12, <2>1
    <3> QED  BY <3>1, <3>2, <3>3 DEF InTable
  <2>2. CASE d # c
    <3>1. InTable(s, d)
      BY <1>1, <2>2 DEF InOrder
    <3> QED  BY <1>17, <3>1 DEF InTable, OfKey
  <2> QED  BY <2>1, <2>2
<1>18. InOrder(t, {})
  <2>1. PICK B, X, Y : B = {f} /\ X = {c} /\ Y = {}
    OBVIOUS
  <2>2. \A d \in DOMAIN s.convs : ~OfKey(s, d, k, h) =>
           t.convs[d] = s.convs[d] /\ (d \in Y <=> d \in X)
    BY <1>8, <1>9, <2>1 DEF OfKey
  <2>3. {g \in s.tables[k] : g.hash # h} = s.tables[k]
    OBVIOUS
  <2>4. t.tables = [s.tables EXCEPT ![k] = {g \in s.tables[k] : g.hash # h} \cup B]
    BY <1>9, <2>1, <2>3
  <2>5. \A g \in B : g.hash = h /\ IsEntry(t, k, g, From(t, g.head), Y)
    BY <1>4, <1>14, <1>15, <2>1
  <2>6. \A g, x \in B : g = x
    BY <2>1
  <2>7. InOrder(s, X)
    BY <1>1, <2>1
  <2>8. InOrder(t, Y)
    <3>1. \A d \in DOMAIN s.convs : d \notin Y /\ OfKey(s, d, k, h) => InTable(t, d)
      BY <1>17
    <3>2. KeepsConvs(s, t) /\ k \in Kinds
      BY <1>1, <1>10
    <3>3. Replaced(s, t, X, Y, k, h, B)
      BY <2>2, <2>4, <2>5, <2>6, <3>1 DEF Replaced
    <3> QED  BY <2>7, <3>2, <3>3, TableChanged
  <2> QED  BY <2>1, <2>8
<1>19. \A g \in t.tables[k] : g.owner = c => From(t, g.head) = <<c>>
  <2>1. \A g \in s.tables[k] : g.owner # c
    BY <1>1 DEF InOrder, IsEntry
  <2> QED  BY <1>4, <1>11, <1>14, <1>16, <2>1
<1>20. \A d \in DOMAIN s.convs : t.convs[d].latest_found = s.convs[d].latest_found
  BY <1>8, <1>9, <1>12
<1> QED  BY <1>10, <1>18, <1>19, <1>20 DEF Inserted

\* A conversation is put at the end of a chain.
LEMMA InsertedLast ==
    ASSUME NEW s, NEW c, Loose(s, c), NEW k, k = KindOf(s.convs[c].options),
           NEW e \in s.tables[k], e.hash = s.convs[c].key, NEW q, q = From(s, e.head),
           SetupFrame(s, c) >= SetupFrame(s, s.convs[e.head].last),
           NEW t, t = InsertBy(s, k, c, e.head, q)
    PROVE  Inserted(s, t, c)
<1>1. IsState(s) /\ c \in DOMAIN s.convs /\ InOrder(s, {c}) /\ k \in Kinds
  BY KindOfIsKind DEF Loose, InOrder
<1>2. IsEntry(s, k, e, q, {c}) /\ e.head # NULL
  BY <1>1, EntryOfKey DEF InOrder
<1>3. PICK n : n = Len(q)
  OBVIOUS
<1>4. /\ n \in Nat /\ n > 0 /\ q[1] = e.head /\ s.convs[e.head].last = q[n]
      /\ \A j \in 1 .. n : q[j] \in DOMAIN s.convs /\ q[j] # c
      /\ \A j \in 1 .. n : SetupFrame(s, q[j]) <= SetupFrame(s, q[n])
      /\ q[1] \in DOMAIN s.convs /\ q[n] \in DOMAIN s.convs /\ q[1] # c /\ q[n] # c
  <2>1. n \in Nat /\ n > 0 /\ q[1] = e.head /\ s.convs[e.head].last = q[n]
    BY <1>2, <1>3 DEF IsEntry, IsChain
  <2>2. \A j \in 1 .. n : q[j] \in DOMAIN s.convs /\ q[j] # c
    BY <1>2, <1>3 DEF IsEntry, IsChain
  <2>3. \A j \in 1 .. n : SetupFrame(s, q[j]) <= SetupFrame(s, q[n])
    BY <1>2, <1>3, <2>1 DEF IsEntry
  <2> QED  BY <2>1, <2>2, <2>3
<1>5. PICK head, end : head = e.head /\ end = s.convs[e.head].last
  OBVIOUS
<1>6. PICK a : a = [s EXCEPT !.convs[c].next = NULL]
  OBVIOUS
<1>7. PICK b : b = [a EXCEPT !.convs[c].last = NULL]
  OBVIOUS
<1>8. PICK d : d = [b EXCEPT !.convs[end].next = c]
  OBVIOUS
<1>9. t = [d EXCEPT !.convs[head].last = c]
  BY <1>2, <1>5, <1>6, <1>7, <1>8 DEF InsertBy
<1>10. head = q[1] /\ end = q[n] /\ head \in DOMAIN s.convs /\ end \in DOMAIN s.convs
  BY <1>4, <1>5
<1>11. NextIs(s, a, c, NULL) /\ IsState(a) /\ KeepsConvs(s, a)
  BY <1>1, <1>6, NextSet
<1>12. c \in DOMAIN a.convs
  BY <1>1, <1>11 DEF KeepsConvs
<1>13. LastIs(a, b, c, NULL) /\ IsState(b) /\ KeepsConvs(a, b)
  BY <1>7, <1>11, <1>12, LastSet
<1>14. end \in DOMAIN b.convs
  BY <1>10, <1>11, <1>13 DEF KeepsConvs
<1>15. NextIs(b, d, end, c) /\ IsState(d) /\ KeepsConvs(b, d)
  BY <1>8, <1>13, <1>14, NextSet
<1>16. head \in DOMAIN d.convs
  BY <1>10, <1>11, <1>13, <1>15 DEF KeepsConvs
<1>17. LastIs(d, t, head, c) /\ IsState(t) /\ KeepsConvs(d, t)
  BY <1>9, <1>15, <1>16, LastSet
<1>18. KeepsConvs(s, t) /\ t.tables = s.tables
  <2>1. KeepsConvs(s, t)
    BY <1>11, <1>13, <1>15, <1>17, KeepsConvsTransitive
  <2> QED  BY <2>1, <1>11, <1>13, <1>15, <1>17 DEF SameBut, NextIs, LastIs
<1>19. /\ \A x \in DOMAIN s.convs : x # c /\ x # end /\ x # head => t.convs[x] = s.convs[x]
       /\ \A x \in DOMAIN s.convs : t.convs[x].latest_found = s.convs[x].latest_found
       /\ t.convs[c].next = NULL /\ t.convs[head].last = c
       /\ \A x \in DOMAIN s.convs : x # c => t.convs[x].next = IF x = end THEN c ELSE s.convs[x].next
  <2>1. /\ DOMAIN a.convs = DOMAIN s.convs /\ DOMAIN b.convs = DOMAIN s.convs
        /\ DOMAIN d.convs = DOMAIN s.convs
    BY <1>11, <1>13, <1>15 DEF KeepsConvs
  <2>2. c # end /\ c # head
    BY <1>4, <1>10
  <2>3. /\ \A x \in DOMAIN s.convs : x # c => b.convs[x] = s.convs[x]
        /\ b.convs[c].next = NULL /\ b.convs[c].latest_found = s.convs[c].latest_found
    BY <1>11, <1>13, <2>1 DEF NextIs, LastIs, SameBut
  <2>4. /\ \A x \in DOMAIN s.convs : x # end => d.convs[x] = b.convs[x]
        /\ d.convs[end].next = c /\ d.convs[end].latest_found = b.convs[end].latest_found
    BY <1>15, <2>1 DEF NextIs, SameBut
  <2>5. /\ \A x \in DOMAIN s.convs : x # head => t.convs[x] = d.convs[x]
        /\ t.convs[head].next = d.convs[head].next /\ t.convs[head].last = c
        /\ t.convs[head].latest_found = d.convs[head].latest_found
    BY <1>17, <2>1 DEF LastIs, SameBut
  <2>6. t.convs[c].next = NULL
    BY <1>1, <2>2, <2>3, <2>4, <2>5
  <2>7. \A x \in DOMAIN s.convs : x # c /\ x # end /\ x # head => t.convs[x] = s.convs[x]
    BY <2>3, <2>4, <2>5
  <2>8. \A x \in DOMAIN s.convs : x # c => d.convs[x].next = IF x = end THEN c ELSE s.convs[x].next
    BY <2>3, <2>4
  <2>9. \A x \in DOMAIN s.convs : t.convs[x].next = d.convs[x].next
    BY <2>5
  <2>10. \A x \in DOMAIN s.convs : d.convs[x].latest_found = b.convs[x].latest_found
    BY <2>4
  <2>11. \A x \in DOMAIN s.convs : t.convs[x].latest_found = d.convs[x].latest_found
    BY <2>5
  <2>12. \A x \in DOMAIN s.convs : b.convs[x].latest_found = s.convs[x].latest_found
    BY <2>3
  <2> QED  BY <2>5, <2>6, <2>7, <2>8, <2>9, <2>10, <2>11, <2>12
<1>20. PICK h, i : h = s.convs[c].key /\ i = n + 1
  OBVIOUS
<1>21. Belongs(s, c, k, h, e, q, i)
  <2>1. \A j \in 1 .. i - 1 : SetupFrame(s, q[j]) <= SetupFrame(s, c)
    <3>1. \A j \in 1 .. n : SetupFrame(s, q[j]) \in Nat /\ SetupFrame(s, q[j]) <= SetupFrame(s, q[n])
      BY <1>1, <1>4 DEF InOrder, SetupFrame
    <3>2. SetupFrame(s, c) \in Nat /\ SetupFrame(s, q[n]) \in Nat /\ SetupFrame(s, q[n]) <= SetupFrame(s, c)
      BY <1>1, <1>4 DEF InOrder, SetupFrame
    <3>3. i - 1 = n
      BY <1>4, <1>20
    <3> QED  BY <3>1, <3>2, <3>3
  <2>2. i \in 1 .. Len(q) + 1 /\ \A j \in i .. Len(q) : FALSE
    BY <1>3, <1>4, <1>20
  <2>3. OfKey(s, c, k, h) /\ e.hash = h
    BY <1>20 DEF OfKey
  <2> QED  BY <1>1, <2>1, <2>2, <2>3 DEF Belongs, Loose
<1>22. PutThere(s, t, c, k, h, e, q, i, head)
  <2>1. i = Len(q) + 1 /\ i # 1 /\ i - 1 = n
    BY <1>3, <1>4, <1>20
  <2>2. \A x \in DOMAIN s.convs : ~OfKey(s, x, k, h) => t.convs[x] = s.convs[x]
    <3>1. OfKey(s, c, k, h) /\ OfKey(s, head, k, h) /\ OfKey(s, end, k, h)
      BY <1>2, <1>3, <1>4, <1>10, <1>20 DEF IsEntry, OfKey
    <3> QED  BY <1>19, <3>1
  <2>3. ASSUME NEW j \in 1 .. Len(q)
        PROVE  t.convs[q[j]].next = IF j = i - 1 THEN c ELSE s.convs[q[j]].next
    <3>1. q[j] = end <=> j = n
      BY <1>2, <1>3, <1>4, <1>10 DEF IsEntry, IsChain
    <3>2. q[j] \in DOMAIN s.convs /\ q[j] # c
      BY <1>3, <1>4
    <3> QED  BY <1>19, <2>1, <3>1, <3>2
  <2>4. t.tables = [s.tables EXCEPT ![k] =
                      {f \in s.tables[k] : f.hash # h} \cup {[e EXCEPT !.head = head]}]
    <3>1. [e EXCEPT !.head = head] = e
      BY <1>2, <1>5 DEF IsEntry
    <3>2. {f \in s.tables[k] : f.hash # h} \cup {e} = s.tables[k]
      BY <1>1, <1>20 DEF InOrder
    <3>3. s.tables = [s.tables EXCEPT ![k] = s.tables[k]]
      BY <1>1 DEF InOrder
    <3> QED  BY <1>18, <3>1, <3>2, <3>3
  <2>5. t.convs[head].last = c /\ t.convs[head].latest_found = s.convs[head].latest_found
    BY <1>10, <1>19
  <2> QED  BY <1>10, <1>18, <1>19, <2>1, <2>2, <2>3, <2>4, <2>5 DEF PutThere
<1>23. InOrder(t, {}) /\ \A f \in t.tables[k] : f.owner # c
  BY <1>21, <1>22, SplicedIn
<1> QED  BY <1>18, <1>19, <1>23 DEF Inserted

\* There is a place in the chain for a conversation that was set up before its end.
LEMMA PlaceExists ==
    ASSUME NEW s, NEW c, NEW q, NEW n \in Nat, n > 0, n = Len(q), DOMAIN q = 1 .. n,
           SetupFrame(s, c) \in Nat, \A j \in 1 .. n : SetupFrame(s, q[j]) \in Nat,
           SetupFrame(s, c) <= SetupFrame(s, q[n]),
           NEW i, i = PlaceIn(s, c, q)
    PROVE  /\ i \in 1 .. n /\ SetupFrame(s, c) <= SetupFrame(s, q[i])
           /\ \A j \in 1 .. i - 1 : SetupFrame(s, c) > SetupFrame(s, q[j])
<1>1. PICK T : T = {j \in 1 .. n : SetupFrame(s, c) <= SetupFrame(s, q[j])}
  OBVIOUS
<1>2. T \subseteq Nat /\ n \in T
  BY <1>1
<1>3. PICK j \in T : \A m \in T : j <= m
  BY <1>2, NatMin
<1>4. j \in 1 .. n /\ SetupFrame(s, c) <= SetupFrame(s, q[j])
  BY <1>1, <1>3
<1>5. \A m \in 1 .. j - 1 : SetupFrame(s, c) > SetupFrame(s, q[m])
  <2> SUFFICES ASSUME NEW m \in 1 .. j - 1
               PROVE  SetupFrame(s, c) > SetupFrame(s, q[m])
    OBVIOUS
  <2>1. m \in 1 .. n /\ ~(j <= m)
    BY <1>4
  <2>2. m \notin T
    BY <1>3, <2>1
  <2>3. ~(SetupFrame(s, c) <= SetupFrame(s, q[m])) /\ SetupFrame(s, q[m]) \in Nat
    BY <1>1, <2>1, <2>2
  <2> QED  BY <2>3
<1> DEFINE P(x) == /\ SetupFrame(s, c) <= SetupFrame(s, q[x])
                   /\ \A m \in 1 .. x - 1 : SetupFrame(s, c) > SetupFrame(s, q[m])
<1>6. \E x \in 1 .. n : P(x)
  BY <1>4, <1>5
<1>7. i = CHOOSE x \in 1 .. n : P(x)
  BY Zenon DEF PlaceIn
<1> HIDE DEF P
<1>8. i \in 1 .. n /\ P(i)
  BY <1>6, <1>7
<1> QED  BY <1>8 DEF P

\* A conversation is put before another one of a chain.
LEMMA InsertedInside ==
    ASSUME NEW s, NEW c, Loose(s, c), NEW k, k = KindOf(s.convs[c].options),
           NEW e \in s.tables[k], e.hash = s.convs[c].key, NEW q, q = From(s, e.head),
           ~(SetupFrame(s, c) >= SetupFrame(s, s.convs[e.head].last)),
           NEW t, t = InsertBy(s, k, c, e.head, q)
    PROVE  Inserted(s, t, c)
<1>1. IsState(s) /\ c \in DOMAIN s.convs /\ InOrder(s, {c}) /\ k \in Kinds
  BY KindOfIsKind DEF Loose, InOrder
<1>2. IsEntry(s, k, e, q, {c}) /\ e.head # NULL
  BY <1>1, EntryOfKey DEF InOrder
<1>3. PICK n : n = Len(q)
  OBVIOUS
<1>4. /\ n \in Nat /\ n > 0 /\ q[1] = e.head /\ s.convs[e.head].last = q[n] /\ DOMAIN q = 1 .. n
      /\ \A j \in 1 .. n : q[j] \in DOMAIN s.convs /\ q[j] # c
      /\ \A j, m \in 1 .. n : q[j] = q[m] => j = m
      /\ \A j, m \in 1 .. n : j <= m => SetupFrame(s, q[j]) <= SetupFrame(s, q[m])
  BY <1>2, <1>3 DEF IsEntry, IsChain
<1>5. SetupFrame(s, c) \in Nat /\ \A j \in 1 .. n : SetupFrame(s, q[j]) \in Nat
  BY <1>1, <1>4 DEF InOrder, SetupFrame
<1>6. PICK i : i = PlaceIn(s, c, q)
  OBVIOUS
<1>7. /\ i \in 1 .. n /\ SetupFrame(s, c) <= SetupFrame(s, q[i])
      /\ \A j \in 1 .. i - 1 : SetupFrame(s, c) > SetupFrame(s, q[j])
  <2>1. SetupFrame(s, c) <= SetupFrame(s, q[n])
    <3>1. ~(SetupFrame(s, c) >= SetupFrame(s, q[n])) /\ SetupFrame(s, q[n]) \in Nat
      BY <1>4, <1>5
    <3> QED  BY <1>5, <3>1
  <2> QED  BY <1>3, <1>4, <1>5, <1>6, <2>1, PlaceExists
<1>8. PICK h : h = s.convs[c].key
  OBVIOUS
<1>9. t = InsertAtPlace(s, k, c, q, i)
  BY <1>2, <1>6 DEF InsertBy
<1>10. Belongs(s, c, k, h, e, q, i)
  <2>1. \A j \in 1 .. i - 1 : SetupFrame(s, q[j]) <= SetupFrame(s, c)
    <3>1. \A j \in 1 .. i - 1 : SetupFrame(s, q[j]) \in Nat /\ SetupFrame(s, c) > SetupFrame(s, q[j])
      <4>1. \A j \in 1 .. i - 1 : j \in 1 .. n
        BY <1>4, <1>7
      <4> QED  BY <1>5, <1>7, <4>1
    <3> QED  BY <1>5, <3>1
  <2>2. ASSUME NEW j \in i .. Len(q)
        PROVE  SetupFrame(s, c) <= SetupFrame(s, q[j])
    <3>1. j \in 1 .. n /\ i <= j
      BY <1>3, <1>4, <1>7
    <3>2. SetupFrame(s, q[i]) <= SetupFrame(s, q[j])
      BY <1>4, <1>7, <3>1
    <3>3. SetupFrame(s, q[i]) \in Nat /\ SetupFrame(s, q[j]) \in Nat
      BY <1>5, <1>7, <3>1
    <3> QED  BY <1>5, <1>7, <3>2, <3>3
  <2>3. i \in 1 .. Len(q) + 1
    BY <1>3, <1>4, <1>7
  <2>4. OfKey(s, c, k, h) /\ e.hash = h
    BY <1>8 DEF OfKey
  <2> QED  BY <1>1, <2>1, <2>2, <2>3, <2>4 DEF Belongs, Loose
<1>11. OfKey(s, c, k, h) /\ \A j \in 1 .. n : OfKey(s, q[j], k, h)
  BY <1>2, <1>3, <1>8 DEF IsEntry, OfKey
<1>12. i # Len(q) + 1
  BY <1>3, <1>4, <1>7
<1>13. PICK a : a = [s EXCEPT !.convs[c].next = q[i]]
  OBVIOUS
<1>14. NextIs(s, a, c, q[i]) /\ IsState(a) /\ KeepsConvs(s, a)
  BY <1>1, <1>13, NextSet
<1>15. c \in DOMAIN a.convs /\ DOMAIN a.convs = DOMAIN s.convs
  BY <1>1, <1>14 DEF KeepsConvs
<1>16. CASE i = 1
  <2>1. PICK head, end : head = q[1] /\ end = s.convs[q[1]].last
    OBVIOUS
  <2>2. PICK b : b = [a EXCEPT !.convs[c].last = end]
    OBVIOUS
  <2>3. PICK d : d = [b EXCEPT !.convs[head].last = NULL]
    OBVIOUS
  <2>4. t = NewHead(d, k, e.hash, c)
    <3>1. t = NewHead(d, k, h, c)
      BY <1>8, <1>9, <1>13, <1>16, <2>1, <2>2, <2>3 DEF InsertAtPlace
    <3> QED  BY <1>8, <3>1
  <2>5. head \in DOMAIN s.convs /\ head # c /\ end = q[n]
    BY <1>4, <2>1
  <2>6. LastIs(a, b, c, end) /\ IsState(b) /\ KeepsConvs(a, b)
    BY <1>14, <1>15, <2>2, LastSet
  <2>7. head \in DOMAIN b.convs /\ DOMAIN b.convs = DOMAIN s.convs
    BY <1>15, <2>5, <2>6 DEF KeepsConvs
  <2>8. LastIs(b, d, head, NULL) /\ IsState(d) /\ KeepsConvs(b, d)
    BY <2>3, <2>6, <2>7, LastSet
  <2>9. KeepsConvs(s, d)
    BY <1>14, <2>6, <2>8, KeepsConvsTransitive
  <2>10. d.tables = s.tables
    BY <1>14, <2>6, <2>8 DEF NextIs, LastIs, SameBut
  <2>11. /\ t.convs = d.convs /\ IsState(t)
         /\ t.tables = [s.tables EXCEPT ![k] =
                          {f \in s.tables[k] : f.hash # e.hash} \cup {[e EXCEPT !.head = c]}]
    <3>1. PICK X : X = {c}
      OBVIOUS
    <3>2. InOrder(s, X) /\ k \in Kinds
      BY <1>1, <3>1
    <3> QED  BY <2>4, <2>9, <2>10, <3>2, NewHeadSet
  <2>12. KeepsConvs(s, t)
    BY <2>9, <2>11 DEF KeepsConvs
  <2>13. /\ \A x \in DOMAIN s.convs : x # c => b.convs[x] = s.convs[x]
         /\ b.convs[c].next = q[i] /\ b.convs[c].last = end
         /\ b.convs[c].latest_found = s.convs[c].latest_found
    BY <1>14, <1>15, <2>6 DEF NextIs, LastIs, SameBut
  <2>14. /\ \A x \in DOMAIN s.convs : x # head => t.convs[x] = b.convs[x]
         /\ t.convs[head].next = b.convs[head].next
         /\ t.convs[head].latest_found = b.convs[head].latest_found
    BY <2>7, <2>8, <2>11 DEF LastIs, SameBut
  <2>15. t.convs[c].next = q[i] /\ t.convs[c].last = q[n]
    BY <1>1, <2>5, <2>13, <2>14
  <2>16. \A x \in DOMAIN s.convs : t.convs[x].latest_found = s.convs[x].latest_found
    <3>1. \A x \in DOMAIN s.convs : b.convs[x].latest_found = s.convs[x].latest_found
      BY <2>13
    <3> QED  BY <2>14, <3>1
  <2>17. \A x \in DOMAIN s.convs : x # c => t.convs[x].next = s.convs[x].next
    <3>1. \A x \in DOMAIN s.convs : t.convs[x].next = b.convs[x].next
      BY <2>14
    <3> QED  BY <2>13, <3>1
  <2>18. \A x \in DOMAIN s.convs : x # c /\ x # head => t.convs[x] = s.convs[x]
    BY <2>13, <2>14
  <2>19. PutThere(s, t, c, k, h, e, q, i, c)
    <3>1. \A x \in DOMAIN s.convs : ~OfKey(s, x, k, h) => t.convs[x] = s.convs[x]
      <4>1. OfKey(s, head, k, h)
        BY <1>4, <1>11, <2>1
      <4> QED  BY <1>11, <2>18, <4>1
    <3>2. \A j \in 1 .. Len(q) : j # i - 1 /\ t.convs[q[j]].next = s.convs[q[j]].next
      BY <1>3, <1>4, <1>16, <2>17
    <3>3. t.tables = [s.tables EXCEPT ![k] =
                        {f \in s.tables[k] : f.hash # h} \cup {[e EXCEPT !.head = c]}]
      BY <1>8, <2>11
    <3>4. t.convs[c].latest_found = s.convs[c].latest_found
      BY <1>1, <2>16
    <3> QED  BY <1>3, <1>12, <1>16, <2>12, <2>15, <3>1, <3>2, <3>3, <3>4 DEF PutThere
  <2>20. InOrder(t, {}) /\ \A f \in t.tables[k] : f.owner # c
    BY <1>10, <2>19, SplicedIn
  <2> QED  BY <2>12, <2>16, <2>20 DEF Inserted
<1>17. CASE i # 1
  <2>1. PICK prev : prev = q[i-1]
    OBVIOUS
  <2>2. PICK b : b = [a EXCEPT !.convs[c].last = NULL]
    OBVIOUS
  <2>3. t = [b EXCEPT !.convs[prev].next = c]
    BY <1>9, <1>13, <1>17, <2>1, <2>2 DEF InsertAtPlace
  <2>4. PICK m \in 1 .. n : m = i - 1
    BY <1>4, <1>7, <1>17
  <2>5. prev = q[m] /\ prev \in DOMAIN s.convs /\ prev # c
    BY <1>4, <2>1, <2>4
  <2>6. LastIs(a, b, c, NULL) /\ IsState(b) /\ KeepsConvs(a, b)
    BY <1>14, <1>15, <2>2, LastSet
  <2>7. prev \in DOMAIN b.convs /\ DOMAIN b.convs = DOMAIN s.convs
    BY <1>15, <2>5, <2>6 DEF KeepsConvs
  <2>8. NextIs(b, t, prev, c) /\ IsState(t) /\ KeepsConvs(b, t)
    BY <2>3, <2>6, <2>7, NextSet
  <2>9. KeepsConvs(s, t)
    BY <1>14, <2>6, <2>8, KeepsConvsTransitive
  <2>10. t.tables = s.tables
    BY <1>14, <2>6, <2>8 DEF NextIs, LastIs, SameBut
  <2>11. /\ \A x \in DOMAIN s.convs : x # c => b.convs[x] = s.convs[x]
         /\ b.convs[c].next = q[i]
         /\ b.convs[c].latest_found = s.convs[c].latest_found
    BY <1>14, <1>15, <2>6 DEF NextIs, LastIs, SameBut
  <2>12. /\ \A x \in DOMAIN s.convs : x # prev => t.convs[x] = b.convs[x]
         /\ t.convs[prev].next = c /\ t.convs[prev].last = b.convs[prev].last
         /\ t.convs[prev].latest_found = b.convs[prev].latest_found
    BY <2>7, <2>8 DEF NextIs, SameBut
  <2>13. t.convs[c].next = q[i]
    BY <1>1, <2>5, <2>11, <2>12
  <2>14. \A x \in DOMAIN s.convs : t.convs[x].latest_found = s.convs[x].latest_found
    <3>1. \A x \in DOMAIN s.convs : b.convs[x].latest_found = s.convs[x].latest_found
      BY <2>11
    <3> QED  BY <2>12, <3>1
  <2>15. \A x \in DOMAIN s.convs : x # c =>
            /\ t.convs[x].next = IF x = prev THEN c ELSE s.convs[x].next
            /\ t.convs[x].last = s.convs[x].last
    BY <2>11, <2>12
  <2>16. \A x \in DOMAIN s.convs : x # c /\ x # prev => t.convs[x] = s.convs[x]
    BY <2>11, <2>12
  <2>17. PICK head : head = q[1]
    OBVIOUS
  <2>18. PutThere(s, t, c, k, h, e, q, i, head)
    <3>1. \A x \in DOMAIN s.convs : ~OfKey(s, x, k, h) => t.convs[x] = s.convs[x]
      <4>1. OfKey(s, prev, k, h)
        BY <1>11, <2>5
      <4> QED  BY <1>11, <2>16, <4>1
    <3>2. ASSUME NEW j \in 1 .. Len(q)
          PROVE  t.convs[q[j]].next = IF j = i - 1 THEN c ELSE s.convs[q[j]].next
      <4>1. j \in 1 .. n /\ (q[j] = prev <=> j = i - 1) /\ q[j] \in DOMAIN s.convs /\ q[j] # c
        BY <1>3, <1>4, <2>4, <2>5
      <4> QED  BY <2>15, <4>1
    <3>3. t.tables = [s.tables EXCEPT ![k] =
                        {f \in s.tables[k] : f.hash # h} \cup {[e EXCEPT !.head = head]}]
      <4>1. [e EXCEPT !.head = head] = e
        BY <1>2, <2>17 DEF IsEntry
      <4>2. {f \in s.tables[k] : f.hash # h} \cup {e} = s.tables[k]
        BY <1>1, <1>8 DEF InOrder
      <4>3. s.tables = [s.tables EXCEPT ![k] = s.tables[k]]
        BY <1>1 DEF InOrder
      <4> QED  BY <2>10, <4>1, <4>2, <4>3
    <3>4. head \in DOMAIN s.convs /\ head # c /\ s.convs[head].last = q[n]
      BY <1>4, <2>17
    <3>5. t.convs[head].last = q[n] /\ t.convs[head].latest_found = s.convs[head].latest_found
      BY <2>14, <2>15, <3>4
    <3> QED  BY <1>3, <1>12, <1>17, <2>9, <2>13, <2>17, <3>1, <3>2, <3>3, <3>5 DEF PutThere
  <2>19. InOrder(t, {}) /\ \A f \in t.tables[k] : f.owner # c
    BY <1>10, <2>18, SplicedIn
  <2> QED  BY <2>9, <2>14, <2>19 DEF Inserted
<1> QED  BY <1>16, <1>17

\* conversation_insert_into_hashtable puts a conversation into the tables.
LEMMA InsertInOrder ==
    ASSUME NEW s, NEW c, Loose(s, c), NEW k, k = KindOf(s.convs[c].options),
           NEW t, t = conversation_insert_into_hashtable(s, k, c)
    PROVE  Inserted(s, t, c)
<1>1. PICK h : h = s.convs[c].key
  OBVIOUS
<1>2. PICK head : head = HeadOf(s, k, h)
  OBVIOUS
<1>3. PICK q : q = From(s, head)
  OBVIOUS
<1>4. t = InsertBy(s, k, c, head, q)
  BY <1>1, <1>2, <1>3 DEF conversation_insert_into_hashtable
<1>5. CASE \A e \in s.tables[k] : e.hash # h
  <2>1. head = NULL
    BY <1>2, <1>5, NoEntryOfKey
  <2> QED  BY <1>1, <1>4, <1>5, <2>1, InsertedAlone
<1>6. ASSUME NEW e \in s.tables[k], e.hash = h
      PROVE  Inserted(s, t, c)
  <2>1. head = e.head
    <3>1. InOrder(s, {c}) /\ k \in Kinds
      BY KindOfIsKind DEF Loose
    <3> QED  BY <1>2, <1>6, <3>1, EntryOfKey
  <2>2. CASE SetupFrame(s, c) >= SetupFrame(s, s.convs[e.head].last)
    BY <1>1, <1>3, <1>4, <1>6, <2>1, <2>2, InsertedLast
  <2>3. CASE ~(SetupFrame(s, c) >= SetupFrame(s, s.convs[e.head].last))
    BY <1>1, <1>3, <1>4, <1>6, <2>1, <2>3, InsertedInside
  <2> QED  BY <2>2, <2>3
<1> QED  BY <1>5, <1>6

\* A sequence without its element at place i.
TakeOutAt(q, i) == [j \in 1 .. Len(q) - 1 |-> IF j < i THEN q[j] ELSE q[j+1]]

\* Where its elements are then, of the first n.
TakeOutPlaces(D, q, i, n, r) ==
    /\ r \in Seq(D) /\ Len(r) = n - 1
    /\ \A j \in 1 .. i - 1 : r[j] = q[j] /\ j \in 1 .. n /\ j \in 1 .. n - 1
    /\ \A j \in i .. n - 1 : r[j] = q[j+1] /\ j + 1 \in 1 .. n /\ j \in 1 .. n - 1
    /\ \A j \in 1 .. n - 1 : j \in 1 .. i - 1 \/ j \in i .. n - 1
    /\ \A j \in 1 .. n : j # i => \E m \in 1 .. n - 1 : q[j] = r[m]

\* A conversation taken out of a chain: the others stay, in their order.
LEMMA TakeOut ==
    ASSUME NEW D, NEW q \in Seq(D), NEW n \in Nat, n = Len(q), n > 1, NEW i \in 1 .. n,
           NEW r, r = TakeOutAt(q, i)
    PROVE  TakeOutPlaces(D, q, i, n, r)
<1>1. n - 1 \in Nat /\ \A j \in 1 .. n : q[j] \in D
  OBVIOUS
<1>2. \A j \in 1 .. n - 1 : r[j] = IF j < i THEN q[j] ELSE q[j+1]
  BY DEF TakeOutAt
<1>3. r \in [1 .. n - 1 -> D]
  <2>1. r = [j \in 1 .. n - 1 |-> r[j]]
    BY DEF TakeOutAt
  <2>2. \A j \in 1 .. n - 1 : j \in 1 .. n /\ j + 1 \in 1 .. n
    OBVIOUS
  <2>3. \A j \in 1 .. n - 1 : r[j] \in D
    BY <1>1, <1>2, <2>2
  <2> QED  BY <2>1, <2>3
<1>4. r \in Seq(D) /\ Len(r) = n - 1
  BY <1>1, <1>3
<1>5. \A j \in 1 .. i - 1 : r[j] = q[j] /\ j \in 1 .. n /\ j \in 1 .. n - 1
  BY <1>2
<1>6. \A j \in i .. n - 1 : r[j] = q[j+1] /\ j + 1 \in 1 .. n /\ j \in 1 .. n - 1
  BY <1>2
<1>7. \A j \in 1 .. n - 1 : j \in 1 .. i - 1 \/ j \in i .. n - 1
  OBVIOUS
<1>8. ASSUME NEW j \in 1 .. n, j # i
      PROVE  \E m \in 1 .. n - 1 : q[j] = r[m]
  <2>1. CASE j < i
    <3>1. j \in 1 .. i - 1
      BY <2>1
    <3> QED  BY <1>5, <3>1
  <2>2. CASE j > i
    <3>1. j - 1 \in i .. n - 1 /\ (j - 1) + 1 = j
      BY <2>2
    <3> QED  BY <1>6, <3>1
  <2> QED  BY <1>8, <2>1, <2>2
<1> QED  BY <1>4, <1>5, <1>6, <1>7, <1>8 DEF TakeOutPlaces

\* They stay sorted by setup frame, too.
LEMMA TakeOutSorted ==
    ASSUME NEW D, NEW q, NEW n \in Nat, n > 1, NEW i \in 1 .. n,
           NEW r, TakeOutPlaces(D, q, i, n, r), NEW val, Sorted(q, n, val)
    PROVE  Sorted(r, n - 1, val) /\ \A j \in 1 .. n - 1 : r[j] # q[i]
<1>1. /\ \A j \in 1 .. i - 1 : r[j] = q[j] /\ j \in 1 .. n /\ j \in 1 .. n - 1
      /\ \A j \in i .. n - 1 : r[j] = q[j+1] /\ j + 1 \in 1 .. n /\ j \in 1 .. n - 1
      /\ \A j \in 1 .. n - 1 : j \in 1 .. i - 1 \/ j \in i .. n - 1
  BY DEF TakeOutPlaces
<1>2. /\ \A a, b \in 1 .. n : q[a] = q[b] => a = b
      /\ \A a, b \in 1 .. n : a <= b => val[q[a]] <= val[q[b]]
  BY DEF Sorted
<1>3. ASSUME NEW j \in 1 .. n - 1
      PROVE  \E a \in 1 .. n : r[j] = q[a] /\ a = IF j < i THEN j ELSE j + 1
  <2>1. CASE j \in 1 .. i - 1
    BY <1>1, <2>1
  <2>2. CASE j \in i .. n - 1
    <3>1. ~(j < i)
      BY <2>2
    <3> QED  BY <1>1, <2>2, <3>1
  <2> QED  BY <1>1, <2>1, <2>2
<1>4. ASSUME NEW j \in 1 .. n - 1, NEW m \in 1 .. n - 1
      PROVE  /\ r[j] = r[m] => j = m
             /\ j <= m => val[r[j]] <= val[r[m]]
             /\ r[j] # q[i]
  <2>1. PICK a \in 1 .. n : r[j] = q[a] /\ a = IF j < i THEN j ELSE j + 1
    BY <1>3
  <2>2. PICK b \in 1 .. n : r[m] = q[b] /\ b = IF m < i THEN m ELSE m + 1
    BY <1>3
  <2>3. (a = b => j = m) /\ (j <= m => a <= b) /\ a # i
    BY <2>1, <2>2
  <2> QED  BY <1>2, <2>1, <2>2, <2>3
<1> QED  BY <1>4 DEF Sorted

\* The conversation c is the i-th of the chain q, not alone, and not the one whose
\* key the entry uses.
Leaves(s, c, k, h, e, q, i) ==
    /\ InOrder(s, {}) /\ c \in DOMAIN s.convs /\ OfKey(s, c, k, h)
    /\ k \in Kinds /\ e \in s.tables[k] /\ e.hash = h /\ e.owner # c /\ q = From(s, e.head)
    /\ i \in 1 .. Len(q) /\ q[i] = c /\ Len(q) > 1

\* It is taken out.
TakenOut(s, t, c, k, h, e, q, i, head) ==
    /\ KeepsConvs(s, t)
    /\ head = IF i = 1 THEN q[2] ELSE q[1]
    /\ \A d \in DOMAIN s.convs : ~OfKey(s, d, k, h) => t.convs[d] = s.convs[d]
    /\ \A j \in 1 .. Len(q) : j # i =>
          t.convs[q[j]].next = IF j = i - 1 THEN s.convs[c].next ELSE s.convs[q[j]].next
    /\ t.convs[head].last = IF i = Len(q) THEN q[i-1] ELSE q[Len(q)]
    /\ \/ t.convs[head].latest_found = NULL
       \/ \E j \in 1 .. Len(q) : j # i /\ t.convs[head].latest_found = q[j]
    /\ t.tables = [s.tables EXCEPT ![k] =
                      {f \in s.tables[k] : f.hash # h} \cup {[e EXCEPT !.head = head]}]

\* The tables are in order afterwards, but for c.
LEMMA SplicedOut ==
    ASSUME NEW s, NEW t, NEW c, NEW k, NEW h, NEW e, NEW q, NEW i, NEW head,
           Leaves(s, c, k, h, e, q, i), TakenOut(s, t, c, k, h, e, q, i, head)
    PROVE  InOrder(t, {c})
<1>1. IsState(s) /\ IsState(t) /\ KeepsConvs(s, t) /\ IsEntry(s, k, e, q, {})
  BY DEF Leaves, TakenOut, InOrder, KeepsConvs
<1>2. PICK n : n = Len(q)
  OBVIOUS
<1>3. PICK r : r = TakeOutAt(q, i)
  OBVIOUS
<1>4. PICK f : f = [e EXCEPT !.head = head]
  OBVIOUS
<1>5. /\ n \in Nat /\ n > 1 /\ q \in Seq(DOMAIN s.convs)
      /\ c \in DOMAIN s.convs /\ i \in 1 .. n /\ q[i] = c
      /\ \A j \in 1 .. n : q[j] \in DOMAIN s.convs /\ OfKey(s, q[j], k, h)
  BY <1>1, <1>2 DEF IsEntry, IsChain, OfKey, Leaves
<1>6. TakeOutPlaces(DOMAIN s.convs, q, i, n, r)
  BY <1>2, <1>3, <1>5, TakeOut
<1>7. /\ r \in Seq(DOMAIN s.convs) /\ Len(r) = n - 1
      /\ \A j \in 1 .. i - 1 : r[j] = q[j] /\ j \in 1 .. n /\ j \in 1 .. n - 1
      /\ \A j \in i .. n - 1 : r[j] = q[j+1] /\ j + 1 \in 1 .. n /\ j \in 1 .. n - 1
      /\ \A j \in 1 .. n - 1 : j \in 1 .. i - 1 \/ j \in i .. n - 1
      /\ \A j \in 1 .. n : j # i => \E m \in 1 .. n - 1 : q[j] = r[m]
  BY <1>6 DEF TakeOutPlaces
<1>8. /\ \A j, m \in 1 .. n - 1 : r[j] = r[m] => j = m
      /\ \A j, m \in 1 .. n - 1 : j <= m => SetupFrame(s, r[j]) <= SetupFrame(s, r[m])
      /\ \A j \in 1 .. n - 1 : r[j] # c
  <2>1. PICK val : val = [d \in DOMAIN s.convs |-> SetupFrame(s, d)]
    OBVIOUS
  <2>2. \A d \in DOMAIN s.convs : val[d] = SetupFrame(s, d)
    BY <2>1
  <2>3. Sorted(q, n, val)
    <3>1. /\ \A j, m \in 1 .. n : q[j] = q[m] => j = m
          /\ \A j, m \in 1 .. n : j <= m => SetupFrame(s, q[j]) <= SetupFrame(s, q[m])
      BY <1>1, <1>2 DEF IsEntry, IsChain
    <3> QED  BY <1>5, <2>2, <3>1 DEF Sorted
  <2>4. Sorted(r, n - 1, val) /\ \A j \in 1 .. n - 1 : r[j] # q[i]
    BY <1>5, <1>6, <2>3, TakeOutSorted
  <2>5. \A j \in 1 .. n - 1 : r[j] \in DOMAIN s.convs
    BY <1>5, <1>7
  <2>6. \A j \in 1 .. n - 1 : val[r[j]] = SetupFrame(s, r[j])
    BY <2>2, <2>5
  <2> QED  BY <1>5, <2>4, <2>6 DEF Sorted
<1>9. \A j \in 1 .. n - 1 : r[j] \in DOMAIN s.convs /\ OfKey(s, r[j], k, h)
  <2> SUFFICES ASSUME NEW j \in 1 .. n - 1
               PROVE  r[j] \in DOMAIN s.convs /\ OfKey(s, r[j], k, h)
    OBVIOUS
  <2>1. CASE j \in 1 .. i - 1
    BY <1>5, <1>7, <2>1
  <2>2. CASE j \in i .. n - 1
    BY <1>5, <1>7, <2>2
  <2> QED  BY <1>7, <2>1, <2>2
<1>10. /\ head = IF i = 1 THEN q[2] ELSE q[1]
       /\ \A j \in 1 .. n : j # i =>
             t.convs[q[j]].next = IF j = i - 1 THEN s.convs[c].next ELSE s.convs[q[j]].next
       /\ t.convs[head].last = IF i = n THEN q[i-1] ELSE q[n]
  BY <1>2 DEF TakenOut
<1>11. r[1] = head /\ 1 \in 1 .. n - 1
  <2>1. 1 \in 1 .. n - 1
    BY <1>5
  <2>2. CASE i = 1
    <3>1. 1 \in i .. n - 1
      BY <2>1, <2>2
    <3> QED  BY <1>7, <1>10, <2>1, <2>2, <3>1
  <2>3. CASE i # 1
    <3>1. 1 \in 1 .. i - 1
      BY <1>5, <2>3
    <3> QED  BY <1>7, <1>10, <2>1, <2>3, <3>1
  <2> QED  BY <2>2, <2>3
<1>12. r[n-1] = IF i = n THEN q[i-1] ELSE q[n]
  <2>1. CASE i = n
    <3>1. n - 1 \in 1 .. i - 1
      BY <1>5, <2>1
    <3> QED  BY <1>7, <2>1, <3>1
  <2>2. CASE i # n
    <3>1. n - 1 \in i .. n - 1 /\ (n - 1) + 1 = n
      BY <1>5, <2>2
    <3> QED  BY <1>7, <2>2, <3>1
  <2> QED  BY <2>1, <2>2
<1>13. /\ \A j \in 1 .. n - 1 : s.convs[q[j]].next = q[j+1]
       /\ s.convs[q[n]].next = NULL
  BY <1>1, <1>2 DEF IsEntry, IsChain
<1>14. IsChain(t, r)
  <2>1. ASSUME NEW j \in 1 .. n - 2
        PROVE  t.convs[r[j]].next = r[j+1]
    <3>1. CASE j < i - 1
      <4>1. j \in 1 .. i - 1 /\ j + 1 \in 1 .. i - 1 /\ j \in 1 .. n - 1 /\ j # i - 1 /\ j # i /\ j \in 1 .. n
        BY <1>5, <3>1
      <4>2. r[j] = q[j] /\ r[j+1] = q[j+1]
        BY <1>7, <4>1
      <4>3. t.convs[q[j]].next = s.convs[q[j]].next
        BY <1>10, <4>1
      <4> QED  BY <1>13, <4>1, <4>2, <4>3
    <3>2. CASE j = i - 1
      <4>1. j \in 1 .. i - 1 /\ j + 1 = i /\ i \in i .. n - 1 /\ j # i /\ j \in 1 .. n
        BY <1>5, <3>2
      <4>2. r[j] = q[j] /\ r[j+1] = q[i+1]
        BY <1>7, <4>1
      <4>3. t.convs[q[j]].next = s.convs[c].next
        BY <1>10, <3>2, <4>1
      <4>4. s.convs[c].next = q[i+1]
        BY <1>5, <1>13, <4>1
      <4> QED  BY <4>2, <4>3, <4>4
    <3>3. CASE j >= i
      <4>1. PICK m \in 1 .. n - 1 : m = j + 1
        BY <1>5
      <4>2. j \in i .. n - 1 /\ m \in i .. n - 1 /\ m # i /\ m # i - 1 /\ m \in 1 .. n
        BY <1>5, <3>3, <4>1
      <4>3. r[j] = q[m] /\ r[m] = q[m+1]
        BY <1>7, <4>1, <4>2
      <4>4. t.convs[q[m]].next = s.convs[q[m]].next
        BY <1>10, <4>2
      <4> QED  BY <1>13, <4>1, <4>3, <4>4
    <3> QED  BY <1>5, <3>1, <3>2, <3>3
  <2>2. t.convs[r[n-1]].next = NULL
    <3>1. CASE i = n
      <4>1. PICK m \in 1 .. n : m = n - 1
        BY <1>5
      <4>2. m # i /\ m = i - 1 /\ r[n-1] = q[m]
        BY <1>5, <1>12, <3>1, <4>1
      <4>3. t.convs[q[m]].next = s.convs[c].next
        BY <1>10, <4>2
      <4> QED  BY <1>5, <1>13, <3>1, <4>2, <4>3
    <3>2. CASE i # n
      <4>1. n \in 1 .. n /\ n # i /\ n # i - 1 /\ r[n-1] = q[n]
        BY <1>5, <1>12, <3>2
      <4>2. t.convs[q[n]].next = s.convs[q[n]].next
        BY <1>10, <4>1
      <4> QED  BY <1>13, <4>1, <4>2
    <3> QED  BY <3>1, <3>2
  <2>3. DOMAIN t.convs = DOMAIN s.convs
    BY <1>1 DEF KeepsConvs
  <2>4. r \in Seq(DOMAIN t.convs) /\ Len(r) = n - 1 /\ Len(r) > 0 /\ Len(r) - 1 = n - 2
    BY <1>5, <1>7, <2>3
  <2>5. \A j \in 1 .. Len(r) - 1 : t.convs[r[j]].next = r[j+1]
    BY <2>1, <2>4
  <2>6. \A j, m \in 1 .. Len(r) : r[j] = r[m] => j = m
    BY <1>8, <2>4
  <2>7. t.convs[r[Len(r)]].next = NULL
    BY <2>2, <2>4
  <2> QED  BY <2>4, <2>5, <2>6, <2>7 DEF IsChain
<1>15. From(t, head) = r
  BY <1>1, <1>11, <1>14, ChainIsFrom
<1>16. f = [hash |-> h, owner |-> e.owner, head |-> head] /\ e.owner # c
  BY <1>1, <1>4 DEF IsEntry, Leaves
<1>17. IsEntry(t, k, f, r, {c})
  <2>1. /\ f.hash = h /\ f.owner = e.owner /\ f.head = head
        /\ f = [hash |-> f.hash, owner |-> f.owner, head |-> f.head]
    BY <1>16
  <2>2. /\ e.owner \in DOMAIN t.convs /\ t.convs[e.owner].key = h /\ e.owner \notin {c}
        /\ KindOf(t.convs[e.owner].options) = k
    BY <1>1, <1>16 DEF IsEntry, KeepsConvs, Leaves
  <2>3. Len(r) = n - 1 /\ t.convs[r[1]].last = r[Len(r)]
    BY <1>7, <1>10, <1>11, <1>12
  <2>4. \/ t.convs[r[1]].latest_found = NULL
        \/ \E m \in 1 .. Len(r) : t.convs[r[1]].latest_found = r[m]
    <3>1. \/ t.convs[head].latest_found = NULL
          \/ \E j \in 1 .. n : j # i /\ t.convs[head].latest_found = q[j]
      BY <1>2 DEF TakenOut
    <3> QED  BY <1>7, <1>11, <3>1
  <2>5. \A j \in 1 .. Len(r) : /\ r[j] \notin {c} /\ t.convs[r[j]].key = h
                               /\ KindOf(t.convs[r[j]].options) = k
    BY <1>1, <1>8, <1>9, <2>3 DEF KeepsConvs, OfKey
  <2>6. \A j, m \in 1 .. Len(r) : j <= m => SetupFrame(t, r[j]) <= SetupFrame(t, r[m])
    <3>1. \A j \in 1 .. n - 1 : SetupFrame(t, r[j]) = SetupFrame(s, r[j])
      BY <1>1, <1>9 DEF KeepsConvs, SetupFrame
    <3> QED  BY <1>8, <2>3, <3>1
  <2>7. r[1] = f.head
    BY <1>11, <2>1
  <2>8. PICK X : X = {c}
    OBVIOUS
  <2>9. IsEntry(t, k, f, r, X)
    BY <1>14, <2>1, <2>2, <2>3, <2>4, <2>5, <2>6, <2>7, <2>8 DEF IsEntry
  <2> QED  BY <2>8, <2>9
<1>18. t.tables[k] = {g \in s.tables[k] : g.hash # h} \cup {f}
  <2>1. t.tables = [s.tables EXCEPT ![k] = {g \in s.tables[k] : g.hash # h} \cup {f}]
    BY <1>4 DEF TakenOut
  <2> QED  BY <2>1 DEF InOrder, Leaves
<1>19. ASSUME NEW d \in DOMAIN s.convs, OfKey(s, d, k, h), d # c
       PROVE  InTable(t, d)
  <2>1. \E j \in 1 .. Len(r) : r[j] = d
    <3>1. InTable(s, d)
      BY <1>19 DEF InOrder, Leaves
    <3>2. PICK g \in s.tables[k] : /\ g.hash = h
                                   /\ \E j \in 1 .. Len(From(s, g.head)) : From(s, g.head)[j] = d
      BY <1>19, <3>1 DEF InTable, OfKey
    <3>3. g = e
      BY <3>2 DEF InOrder, Leaves
    <3>4. PICK j \in 1 .. n : q[j] = d
      BY <1>2, <3>2, <3>3 DEF Leaves
    <3>5. j # i
      BY <1>5, <1>19, <3>4
    <3> QED  BY <1>7, <3>4, <3>5
  <2>2. f \in t.tables[k] /\ f.hash = h /\ f.head = head
    BY <1>16, <1>18
  <2>3. t.convs[d].key = h /\ KindOf(t.convs[d].options) = k
    BY <1>1, <1>19 DEF KeepsConvs, OfKey
  <2> QED  BY <1>15, <2>1, <2>2, <2>3 DEF InTable
<1>20. PICK B, X, Y : B = {f} /\ X = {} /\ Y = {c}
  OBVIOUS
<1>21. InOrder(s, X) /\ k \in Kinds
  BY <1>20 DEF Leaves
<1>22. Replaced(s, t, X, Y, k, h, B)
  <2>1. \A d \in DOMAIN s.convs : ~OfKey(s, d, k, h) =>
           t.convs[d] = s.convs[d] /\ (d \in Y <=> d \in X)
    BY <1>20 DEF TakenOut, Leaves
  <2>2. t.tables = [s.tables EXCEPT ![k] = {g \in s.tables[k] : g.hash # h} \cup B]
    BY <1>4, <1>20 DEF TakenOut
  <2>3. \A g \in B : g.hash = h /\ IsEntry(t, k, g, From(t, g.head), Y)
    BY <1>15, <1>16, <1>17, <1>20
  <2>4. \A g, a \in B : g = a
    BY <1>20
  <2>5. \A d \in DOMAIN s.convs : d \notin Y /\ OfKey(s, d, k, h) => InTable(t, d)
    BY <1>19, <1>20
  <2> QED  BY <2>1, <2>2, <2>3, <2>4, <2>5 DEF Replaced
<1>23. InOrder(t, Y)
  BY <1>1, <1>21, <1>22, TableChanged
<1> QED  BY <1>20, <1>23

\* A conversation whose chain can lose it.
Fixed(s, c) ==
    /\ InOrder(s, {}) /\ c \in DOMAIN s.convs
    /\ s.convs[c].latest_found = NULL \/ s.convs[c].latest_found = c
    /\ \A f \in s.tables[KindOf(s.convs[c].options)] : f.owner = c => From(s, f.head) = <<c>>

\* A chain of one is given up.
LEMMA RemovedAlone ==
    ASSUME NEW s, NEW c, Fixed(s, c), NEW k, k = KindOf(s.convs[c].options),
           NEW h, h = s.convs[c].key, NEW e \in s.tables[k], e.hash = h,
           From(s, e.head) = <<c>>,
           NEW t, t = [s EXCEPT !.tables[k] = @ \ {e}]
    PROVE  Loose(t, c) /\ KeepsConvs(s, t)
<1>1. IsState(s) /\ c \in DOMAIN s.convs /\ InOrder(s, {}) /\ k \in Kinds
  BY KindOfIsKind DEF Fixed, InOrder
<1>2. /\ t.convs = s.convs /\ t = [convs |-> t.convs, tables |-> t.tables]
      /\ t.tables = [s.tables EXCEPT ![k] = s.tables[k] \ {e}]
  BY <1>1 DEF IsState
<1>3. KeepsConvs(s, t)
  <2>1. IsState(t)
    BY <1>1, <1>2 DEF IsState
  <2> QED  BY <1>2, <2>1 DEF KeepsConvs
<1>4. PICK B, X, Y : B = {} /\ X = {} /\ Y = {c}
  OBVIOUS
<1>5. Replaced(s, t, X, Y, k, h, B)
  <2>1. \A d \in DOMAIN s.convs : ~OfKey(s, d, k, h) =>
           t.convs[d] = s.convs[d] /\ (d \in Y <=> d \in X)
    BY <1>2, <1>4 DEF OfKey
  <2>2. s.tables[k] \ {e} = {f \in s.tables[k] : f.hash # h} \cup B
    BY <1>1, <1>4 DEF InOrder
  <2>3. t.tables = [s.tables EXCEPT ![k] = {f \in s.tables[k] : f.hash # h} \cup B]
    BY <1>2, <2>2
  <2>4. ASSUME NEW d \in DOMAIN s.convs, d \notin Y, OfKey(s, d, k, h)
        PROVE  FALSE
    <3>1. InTable(s, d)
      BY <1>1 DEF InOrder
    <3>2. PICK g \in s.tables[k] : /\ g.hash = h
                                   /\ \E j \in 1 .. Len(From(s, g.head)) : From(s, g.head)[j] = d
      BY <2>4, <3>1 DEF InTable, OfKey
    <3>3. g = e
      BY <1>1, <3>2 DEF InOrder
    <3>4. PICK r : r = <<c>>
      OBVIOUS
    <3>5. Len(r) = 1 /\ r[1] = c
      BY <3>4, OneElement
    <3>6. \E j \in 1 .. 1 : r[j] = d
      BY <3>2, <3>3, <3>4, <3>5
    <3> QED  BY <1>4, <2>4, <3>5, <3>6
  <2> QED  BY <1>4, <2>1, <2>3, <2>4 DEF Replaced
<1>6. InOrder(s, X)
  BY <1>1, <1>4
<1>7. InOrder(t, Y)
  BY <1>1, <1>3, <1>5, <1>6, TableChanged
<1>8. InOrder(t, {c})
  BY <1>4, <1>7
<1> QED  BY <1>1, <1>2, <1>3, <1>8 DEF Loose, Fixed

\* The head of a longer chain is taken out.
LEMMA RemovedHead ==
    ASSUME NEW s, NEW c, NEW k, NEW h, NEW e, NEW q, NEW i, i = 1, Leaves(s, c, k, h, e, q, i),
           Fixed(s, c), NEW next, next = s.convs[c].next,
           NEW t, t = NewHead([s EXCEPT !.convs[next].last = s.convs[c].last,
                                        !.convs[next].latest_found =
                                           IF s.convs[c].latest_found = c THEN NULL
                                           ELSE s.convs[c].latest_found], k, h, next)
    PROVE  Loose(t, c) /\ KeepsConvs(s, t)
<1>1. /\ IsState(s) /\ c \in DOMAIN s.convs /\ k \in Kinds /\ IsEntry(s, k, e, q, {})
      /\ e \in s.tables[k] /\ e.hash = h
  BY DEF Leaves, InOrder
<1>2. PICK n : n = Len(q)
  OBVIOUS
<1>3. /\ n \in Nat /\ n > 1 /\ q[1] = c /\ next = q[2] /\ next \in DOMAIN s.convs /\ next # c
      /\ s.convs[c].last = q[n]
      /\ \A j \in 1 .. n : q[j] \in DOMAIN s.convs /\ OfKey(s, q[j], k, h)
      /\ \A j, m \in 1 .. n : q[j] = q[m] => j = m
  <2>1. n \in Nat /\ n > 1 /\ q[1] = c
    BY <1>1, <1>2 DEF Leaves, IsEntry, IsChain
  <2>2. /\ \A j \in 1 .. n : q[j] \in DOMAIN s.convs /\ OfKey(s, q[j], k, h)
        /\ \A j, m \in 1 .. n : q[j] = q[m] => j = m
    BY <1>1, <1>2 DEF IsEntry, IsChain, OfKey
  <2>3. 1 \in 1 .. n - 1 /\ 1 \in 1 .. n /\ 2 \in 1 .. n
    BY <2>1
  <2>4. next = q[2]
    BY <1>1, <1>2, <2>1, <2>3 DEF IsEntry, IsChain
  <2>5. s.convs[c].last = q[n]
    BY <1>1, <1>2, <2>1 DEF IsEntry
  <2>6. q[2] # q[1] /\ q[2] \in DOMAIN s.convs
    BY <2>2, <2>3
  <2> QED  BY <2>1, <2>2, <2>4, <2>5, <2>6
<1>4. PICK end, lf : /\ end = s.convs[c].last
                     /\ lf = IF s.convs[c].latest_found = c THEN NULL ELSE s.convs[c].latest_found
  OBVIOUS
<1>5. lf = NULL
  BY <1>4 DEF Fixed
<1>6. PICK a : a = [s EXCEPT !.convs[next].last = end]
  OBVIOUS
<1>7. PICK b : b = [a EXCEPT !.convs[next].latest_found = lf]
  OBVIOUS
<1>8. t = NewHead(b, k, e.hash, next)
  BY <1>1, <1>4, <1>6, <1>7
<1>9. LastIs(s, a, next, end) /\ IsState(a) /\ KeepsConvs(s, a)
  BY <1>1, <1>3, <1>6, LastSet
<1>10. next \in DOMAIN a.convs /\ DOMAIN a.convs = DOMAIN s.convs
  BY <1>3, <1>9 DEF KeepsConvs
<1>11. FoundIs(a, b, next, lf) /\ IsState(b) /\ KeepsConvs(a, b)
  BY <1>7, <1>9, <1>10, FoundSet
<1>12. KeepsConvs(s, b)
  BY <1>9, <1>11, KeepsConvsTransitive
<1>13. /\ b.tables = s.tables
       /\ \A x \in DOMAIN s.convs : x # next => b.convs[x] = s.convs[x]
       /\ b.convs[next].next = s.convs[next].next /\ b.convs[next].last = end
       /\ b.convs[next].latest_found = NULL
  BY <1>5, <1>9, <1>10, <1>11 DEF LastIs, FoundIs, SameBut
<1>14. /\ t.convs = b.convs /\ IsState(t)
       /\ t.tables = [s.tables EXCEPT ![k] =
                        {f \in s.tables[k] : f.hash # e.hash} \cup {[e EXCEPT !.head = next]}]
  <2>1. PICK X : X = {}
    OBVIOUS
  <2>2. InOrder(s, X)
    BY <2>1 DEF Leaves
  <2> QED  BY <1>1, <1>8, <1>12, <1>13, <2>2, NewHeadSet
<1>15. KeepsConvs(s, t)
  BY <1>12, <1>14 DEF KeepsConvs
<1>16. TakenOut(s, t, c, k, h, e, q, i, next)
  <2>1. \A d \in DOMAIN s.convs : ~OfKey(s, d, k, h) => t.convs[d] = s.convs[d]
    <3>1. OfKey(s, next, k, h)
      <4>1. 2 \in 1 .. n
        BY <1>3
      <4> QED  BY <1>3, <4>1
    <3> QED  BY <1>13, <1>14, <3>1
  <2>2. ASSUME NEW j \in 1 .. Len(q)
        PROVE  j # i - 1 /\ t.convs[q[j]].next = s.convs[q[j]].next
    <3>1. j # i - 1 /\ q[j] \in DOMAIN s.convs
      BY <1>2, <1>3
    <3> QED  BY <1>13, <1>14, <3>1
  <2>3. i # Len(q) /\ t.convs[next].last = q[Len(q)] /\ t.convs[next].latest_found = NULL
    <3>1. i # Len(q)
      BY <1>2, <1>3
    <3>2. t.convs[next].latest_found = NULL /\ t.convs[next].last = end
      BY <1>13, <1>14
    <3>3. end = q[Len(q)]
      BY <1>2, <1>3, <1>4
    <3> QED  BY <3>1, <3>2, <3>3
  <2>4. t.tables = [s.tables EXCEPT ![k] =
                      {f \in s.tables[k] : f.hash # h} \cup {[e EXCEPT !.head = next]}]
    BY <1>1, <1>14
  <2> QED  BY <1>3, <1>15, <2>1, <2>2, <2>3, <2>4 DEF TakenOut
<1>17. InOrder(t, {c})
  BY <1>16, SplicedOut
<1>18. t.convs[c] = s.convs[c] /\ c \in DOMAIN t.convs
  BY <1>1, <1>3, <1>13, <1>14, <1>15 DEF KeepsConvs
<1> QED  BY <1>15, <1>17, <1>18 DEF Loose, Fixed

\* Three pointers are changed one after another.
LEMMA ThreeSet ==
    ASSUME NEW s, NEW prev, NEW next, NEW head, NEW end, NEW lf,
           NEW a, a = [s EXCEPT !.convs[prev].next = next],
           NEW b, b = [a EXCEPT !.convs[head].last = end],
           NEW t, t = [b EXCEPT !.convs[head].latest_found = lf]
    PROVE  t = [s EXCEPT !.convs[prev].next = next, !.convs[head].last = end,
                         !.convs[head].latest_found = lf]
OBVIOUS

\* A conversation that is not the head is taken out of a chain.
LEMMA RemovedInside ==
    ASSUME NEW s, NEW c, NEW k, NEW h, NEW e, NEW q, NEW i, i # 1, Leaves(s, c, k, h, e, q, i),
           Fixed(s, c), NEW t, t = Unlink(s, c, q)
    PROVE  Loose(t, c) /\ KeepsConvs(s, t)
<1>1. /\ IsState(s) /\ c \in DOMAIN s.convs /\ k \in Kinds /\ IsEntry(s, k, e, q, {})
      /\ e \in s.tables[k] /\ e.hash = h
  BY DEF Leaves, InOrder
<1>2. PICK n : n = Len(q)
  OBVIOUS
<1>3. /\ n \in Nat /\ n > 1 /\ i \in 1 .. n /\ q[i] = c /\ DOMAIN q = 1 .. n
      /\ \A j \in 1 .. n : q[j] \in DOMAIN s.convs /\ OfKey(s, q[j], k, h)
      /\ \A j, m \in 1 .. n : q[j] = q[m] => j = m
      /\ q[1] = e.head /\ s.convs[q[1]].last = q[n]
      /\ \/ s.convs[q[1]].latest_found = NULL
         \/ \E j \in 1 .. n : s.convs[q[1]].latest_found = q[j]
  BY <1>1, <1>2 DEF IsEntry, IsChain, OfKey, Leaves
<1>4. PICK m \in 1 .. n : m = i - 1
  BY <1>3
<1>5. PICK prev, head, next : prev = q[m] /\ head = q[1] /\ next = s.convs[c].next
  OBVIOUS
<1>6. 1 \in 1 .. n /\ m # i /\ prev # c /\ head # c /\ prev \in DOMAIN s.convs /\ head \in DOMAIN s.convs
  BY <1>3, <1>4, <1>5
<1>7. next = NULL <=> i = n
  <2>1. CASE i = n
    <3>1. s.convs[q[n]].next = NULL
      BY <1>1, <1>2 DEF IsEntry, IsChain
    <3> QED  BY <1>3, <1>5, <2>1, <3>1
  <2>2. CASE i # n
    <3>1. i \in 1 .. n - 1 /\ i + 1 \in 1 .. n
      BY <1>3, <2>2
    <3>2. next = q[i+1]
      BY <1>1, <1>2, <1>3, <1>5, <3>1 DEF IsEntry, IsChain
    <3>3. q[i+1] \in DOMAIN s.convs
      BY <1>3, <3>1
    <3>4. q[i+1] # 0
      BY <1>1, <3>3, ConvNumbers
    <3> QED  BY <2>2, <3>2, <3>4 DEF NULL
  <2> QED  BY <2>1, <2>2
<1>8. PICK end, lf : /\ end = IF next = NULL THEN prev ELSE s.convs[head].last
                     /\ lf = IF s.convs[head].latest_found = c THEN prev ELSE s.convs[head].latest_found
  OBVIOUS
<1>9. PICK a : a = [s EXCEPT !.convs[prev].next = next]
  OBVIOUS
<1>10. NextIs(s, a, prev, next) /\ IsState(a) /\ KeepsConvs(s, a)
  BY <1>1, <1>6, <1>9, NextSet
<1>11. /\ head \in DOMAIN a.convs /\ DOMAIN a.convs = DOMAIN s.convs
       /\ a.convs[head].last = s.convs[head].last
       /\ a.convs[head].latest_found = s.convs[head].latest_found
  BY <1>6, <1>10 DEF KeepsConvs, NextIs, SameBut
<1>12. PICK b : b = [a EXCEPT !.convs[head].last = end]
  OBVIOUS
<1>13. LastIs(a, b, head, end) /\ IsState(b) /\ KeepsConvs(a, b)
  BY <1>10, <1>11, <1>12, LastSet
<1>14. head \in DOMAIN b.convs /\ DOMAIN b.convs = DOMAIN s.convs
  BY <1>11, <1>13 DEF KeepsConvs
<1>15. t = [b EXCEPT !.convs[head].latest_found = lf]
  <2>1. i \in DOMAIN q /\ q[i] = c
    BY <1>3
  <2>2. \A j \in DOMAIN q : q[j] = c => j = i
    BY <1>3
  <2>3. prev = q[i-1]
    BY <1>4, <1>5
  <2>4. PICK r : r = [b EXCEPT !.convs[head].latest_found = lf]
    OBVIOUS
  <2>5. r = [s EXCEPT !.convs[prev].next = next, !.convs[head].last = end,
                      !.convs[head].latest_found = lf]
    BY <1>9, <1>12, <2>4, ThreeSet
  <2>6. c \notin {q[j] : j \in DOMAIN q} <=> FALSE
    BY <2>1
  <2>7. PICK j : j = CHOOSE o \in DOMAIN q : q[o] = c
    OBVIOUS
  <2>8. j = i
    BY <2>1, <2>2, <2>7
  <2>9. t = [s EXCEPT !.convs[q[j-1]].next = s.convs[c].next,
         !.convs[q[1]].last = IF s.convs[c].next = NULL THEN q[j-1] ELSE s.convs[q[1]].last,
         !.convs[q[1]].latest_found = IF s.convs[q[1]].latest_found = c THEN q[j-1]
                                      ELSE s.convs[q[1]].latest_found]
    BY <2>6, <2>7 DEF Unlink
  <2>10. q[j-1] = prev /\ q[1] = head /\ s.convs[c].next = next
    BY <1>5, <2>3, <2>8
  <2>11. t = [s EXCEPT !.convs[prev].next = next, !.convs[head].last = end,
                       !.convs[head].latest_found = lf]
    BY <1>8, <2>9, <2>10
  <2> QED  BY <2>4, <2>5, <2>11
<1>16. FoundIs(b, t, head, lf) /\ IsState(t) /\ KeepsConvs(b, t)
  BY <1>13, <1>14, <1>15, FoundSet
<1>17. KeepsConvs(s, t)
  BY <1>10, <1>13, <1>16, KeepsConvsTransitive
<1>18. t.tables = s.tables
  BY <1>10, <1>13, <1>16 DEF NextIs, LastIs, FoundIs, SameBut
<1>19. /\ \A x \in DOMAIN s.convs : x # prev /\ x # head => t.convs[x] = s.convs[x]
       /\ \A x \in DOMAIN s.convs : t.convs[x].next = IF x = prev THEN next ELSE s.convs[x].next
       /\ t.convs[head].last = end /\ t.convs[head].latest_found = lf
  <2>1. /\ \A x \in DOMAIN s.convs : x # prev => a.convs[x] = s.convs[x]
        /\ a.convs[prev].next = next
    BY <1>10 DEF NextIs, SameBut
  <2>2. /\ \A x \in DOMAIN s.convs : x # head => b.convs[x] = a.convs[x]
        /\ b.convs[head].next = a.convs[head].next /\ b.convs[head].last = end
    BY <1>11, <1>13 DEF LastIs, SameBut
  <2>3. /\ \A x \in DOMAIN s.convs : x # head => t.convs[x] = b.convs[x]
        /\ t.convs[head].next = b.convs[head].next /\ t.convs[head].last = b.convs[head].last
        /\ t.convs[head].latest_found = lf
    BY <1>14, <1>16 DEF FoundIs, SameBut
  <2>4. \A x \in DOMAIN s.convs : t.convs[x].next = a.convs[x].next
    BY <2>2, <2>3
  <2>5. \A x \in DOMAIN s.convs : a.convs[x].next = IF x = prev THEN next ELSE s.convs[x].next
    BY <2>1
  <2>6. \A x \in DOMAIN s.convs : x # prev /\ x # head => t.convs[x] = s.convs[x]
    BY <2>1, <2>2, <2>3
  <2> QED  BY <2>2, <2>3, <2>4, <2>5, <2>6
<1>20. TakenOut(s, t, c, k, h, e, q, i, head)
  <2>1. \A d \in DOMAIN s.convs : ~OfKey(s, d, k, h) => t.convs[d] = s.convs[d]
    <3>1. OfKey(s, prev, k, h) /\ OfKey(s, head, k, h)
      BY <1>3, <1>5, <1>6
    <3> QED  BY <1>19, <3>1
  <2>2. ASSUME NEW j \in 1 .. Len(q)
        PROVE  t.convs[q[j]].next = IF j = i - 1 THEN s.convs[c].next ELSE s.convs[q[j]].next
    <3>1. q[j] \in DOMAIN s.convs /\ (q[j] = prev <=> j = i - 1)
      BY <1>2, <1>3, <1>4, <1>5
    <3> QED  BY <1>5, <1>19, <3>1
  <2>3. t.convs[head].last = IF i = Len(q) THEN q[i-1] ELSE q[Len(q)]
    BY <1>2, <1>3, <1>4, <1>5, <1>7, <1>8, <1>19
  <2>4. \/ t.convs[head].latest_found = NULL
        \/ \E j \in 1 .. Len(q) : j # i /\ t.convs[head].latest_found = q[j]
    <3>1. CASE s.convs[head].latest_found = c
      BY <1>2, <1>5, <1>6, <1>8, <1>19, <3>1
    <3>2. CASE s.convs[head].latest_found # c
      BY <1>2, <1>3, <1>5, <1>8, <1>19, <3>2
    <3> QED  BY <3>1, <3>2
  <2>5. t.tables = [s.tables EXCEPT ![k] =
                      {f \in s.tables[k] : f.hash # h} \cup {[e EXCEPT !.head = head]}]
    <3>1. [e EXCEPT !.head = head] = e
      BY <1>1, <1>3, <1>5 DEF IsEntry
    <3>2. {f \in s.tables[k] : f.hash # h} \cup {e} = s.tables[k]
      BY <1>1 DEF InOrder, Leaves
    <3>3. s.tables = [s.tables EXCEPT ![k] = s.tables[k]]
      BY <1>1 DEF InOrder, Leaves
    <3> QED  BY <1>18, <3>1, <3>2, <3>3
  <2> QED  BY <1>5, <1>17, <2>1, <2>2, <2>3, <2>4, <2>5 DEF TakenOut
<1>21. InOrder(t, {c})
  BY <1>20, SplicedOut
<1>22. t.convs[c] = s.convs[c] /\ c \in DOMAIN t.convs
  BY <1>1, <1>6, <1>17, <1>19 DEF KeepsConvs
<1> QED  BY <1>17, <1>21, <1>22 DEF Loose, Fixed

\* A sequence that has one element only.
LEMMA OnlyElement ==
    ASSUME NEW D, NEW q \in Seq(D), NEW c, Len(q) = 1, q[1] = c
    PROVE  q = <<c>>
OBVIOUS

\* conversation_remove_from_hashtable takes a conversation out of the tables.
LEMMA RemoveInOrder ==
    ASSUME NEW s, NEW c, Fixed(s, c), NEW k, k = KindOf(s.convs[c].options),
           NEW t, t = conversation_remove_from_hashtable(s, k, c)
    PROVE  Loose(t, c) /\ KeepsConvs(s, t)
<1>1. PICK h : h = s.convs[c].key
  OBVIOUS
<1>2. InOrder(s, {}) /\ c \in DOMAIN s.convs /\ k \in Kinds
  BY KindOfIsKind DEF Fixed
<1>3. PICK e \in s.tables[k] : /\ e.hash = h
                               /\ \E i \in 1 .. Len(From(s, e.head)) : From(s, e.head)[i] = c
  <2>1. InTable(s, c)
    BY <1>2 DEF InOrder
  <2> QED  BY <1>1, <2>1 DEF InTable
<1>4. PICK q : q = From(s, e.head)
  OBVIOUS
<1>5. PICK i \in 1 .. Len(q) : q[i] = c
  BY <1>3, <1>4
<1>6. HeadOf(s, k, h) = e.head /\ Entries(s, k, h) = {e}
  BY <1>2, <1>3, EntryOfKey
<1>7. IsEntry(s, k, e, q, {}) /\ q \in Seq(DOMAIN s.convs) /\ Len(q) \in Nat
  BY <1>2, <1>4 DEF InOrder, IsEntry, IsChain
<1>8. PICK next : next = s.convs[c].next
  OBVIOUS
<1>9. t = IF q = <<c>> THEN [s EXCEPT !.tables[k] = @ \ {e}]
          ELSE IF q # << >> /\ q[1] = c
            THEN NewHead([s EXCEPT !.convs[next].last = s.convs[c].last,
                                   !.convs[next].latest_found =
                                      IF s.convs[c].latest_found = c THEN NULL
                                      ELSE s.convs[c].latest_found], k, h, next)
          ELSE Unlink(s, c, q)
  <2>1. PICK chain : chain = From(s, HeadOf(s, k, h))
    OBVIOUS
  <2>2. t = IF chain = <<c>> THEN [s EXCEPT !.tables[k] = @ \ Entries(s, k, h)]
            ELSE IF chain # << >> /\ chain[1] = c
              THEN NewHead([s EXCEPT !.convs[next].last = s.convs[c].last,
                                     !.convs[next].latest_found =
                                        IF s.convs[c].latest_found = c THEN NULL
                                        ELSE s.convs[c].latest_found], k, h, next)
            ELSE Unlink(s, c, chain)
    BY <1>1, <1>8, <2>1 DEF conversation_remove_from_hashtable
  <2>3. chain = q
    BY <1>4, <1>6, <2>1
  <2> QED  BY <1>6, <2>2, <2>3
<1>10. CASE q = <<c>>
  <2>1. t = [s EXCEPT !.tables[k] = @ \ {e}]
    BY <1>9, <1>10
  <2>2. From(s, e.head) = <<c>>
    BY <1>4, <1>10
  <2>3. e \in s.tables[k] /\ e.hash = h
    BY <1>3
  <2> QED  BY <1>1, <2>1, <2>2, <2>3, RemovedAlone
<1>11. CASE q # <<c>>
  <2>1. Len(q) > 1
    <3>1. CASE Len(q) = 1
      <4>1. i = 1
        BY <1>5, <3>1
      <4>2. q = <<c>>
        BY <1>2, <1>5, <1>7, <3>1, <4>1, OnlyElement
      <4> QED  BY <1>11, <4>2
    <3>2. PICK n \in Nat : n = Len(q)
      BY <1>7
    <3>3. i \in 1 .. n /\ n # 1
      BY <1>5, <3>1, <3>2
    <3>4. n > 1
      BY <3>3
    <3> QED  BY <3>2, <3>4
  <2>2. e.owner # c
    BY <1>4, <1>11 DEF Fixed
  <2>3. Leaves(s, c, k, h, e, q, i)
    BY <1>1, <1>2, <1>3, <1>4, <1>5, <2>1, <2>2 DEF Leaves, OfKey
  <2>4. CASE i = 1
    <3>1. q # << >> /\ q[1] = c
      BY <1>5, <1>7, <2>1, <2>4
    <3>2. t = NewHead([s EXCEPT !.convs[next].last = s.convs[c].last,
                                !.convs[next].latest_found =
                                   IF s.convs[c].latest_found = c THEN NULL
                                   ELSE s.convs[c].latest_found], k, h, next)
      BY <1>9, <1>11, <3>1
    <3> QED  BY <1>8, <2>3, <2>4, <3>2, RemovedHead
  <2>5. CASE i # 1
    <3>1. q[1] # c
      <4>1. \A j, m \in 1 .. Len(q) : q[j] = q[m] => j = m
        BY <1>7 DEF IsEntry, IsChain
      <4>2. 1 \in 1 .. Len(q)
        BY <1>7, <2>1
      <4> QED  BY <1>5, <2>5, <4>1, <4>2
    <3>2. t = Unlink(s, c, q)
      BY <1>9, <1>11, <3>1
    <3> QED  BY <2>3, <2>5, <3>2, RemovedInside
  <2> QED  BY <2>4, <2>5
<1> QED  BY <1>10, <1>11

\* A conversation that is in no chain is new, or gets another key.
LEMMA LooseGiven ==
    ASSUME NEW s, NEW X, InOrder(s, X), NEW c, X \subseteq {c}, c \in DOMAIN s.convs => c \in X,
           NEW t, IsState(t), t.tables = s.tables, DOMAIN t.convs = DOMAIN s.convs \cup {c},
           \A d \in DOMAIN s.convs : d # c => t.convs[d] = s.convs[d],
           t.convs[c].setup_frame \in Nat, WildcardsFit(t.convs[c]),
           t.convs[c].latest_found = NULL \/ t.convs[c].latest_found = c
    PROVE  Loose(t, c)
<1>1. PICK Y : Y = {c}
  OBVIOUS
<1>2. IsState(s) /\ s.tables = [k \in Kinds |-> s.tables[k]]
  BY DEF InOrder
<1>3. \A d \in DOMAIN s.convs : d # c <=> d \notin X
  OBVIOUS
<1>4. ASSUME NEW k \in Kinds, NEW e \in s.tables[k]
      PROVE  IsEntry(t, k, e, From(s, e.head), Y) /\ From(t, e.head) = From(s, e.head)
  <2>1. PICK q : q = From(s, e.head)
    OBVIOUS
  <2>2. IsEntry(s, k, e, q, X)
    BY <2>1 DEF InOrder
  <2>3. \A i \in 1 .. Len(q) : q[i] \in DOMAIN s.convs /\ q[i] \notin X
    BY <2>2 DEF IsEntry, IsChain
  <2>4. \A i \in 1 .. Len(q) : t.convs[q[i]] = s.convs[q[i]] /\ q[i] \notin Y
    BY <1>1, <1>3, <2>3
  <2>5. e.owner \in DOMAIN s.convs /\ e.owner \notin X
    BY <2>2 DEF IsEntry
  <2>6. e.owner \notin Y /\ t.convs[e.owner] = s.convs[e.owner]
    BY <1>1, <1>3, <2>5
  <2>7. DOMAIN s.convs \subseteq DOMAIN t.convs
    OBVIOUS
  <2> QED  BY <1>2, <2>1, <2>2, <2>4, <2>6, <2>7, EntryKept
<1>5. \A d \in DOMAIN t.convs : t.convs[d].setup_frame \in Nat /\ WildcardsFit(t.convs[d])
  BY DEF InOrder
<1>6. \A k \in Kinds : \A e \in t.tables[k] : IsEntry(t, k, e, From(t, e.head), Y)
  BY <1>4
<1>7. \A k \in Kinds : \A e, f \in t.tables[k] : e.hash = f.hash => e = f
  BY DEF InOrder
<1>8. ASSUME NEW d \in DOMAIN t.convs, d \notin Y
      PROVE  InTable(t, d)
  <2>1. d \in DOMAIN s.convs /\ d \notin X /\ t.convs[d] = s.convs[d]
    BY <1>1, <1>3, <1>8
  <2>2. PICK k : k = KindOf(s.convs[d].options)
    OBVIOUS
  <2>3. PICK e \in s.tables[k] : /\ e.hash = s.convs[d].key
                                 /\ \E i \in 1 .. Len(From(s, e.head)) : From(s, e.head)[i] = d
    BY <2>1, <2>2 DEF InOrder, InTable
  <2>4. k \in Kinds
    BY <2>2, KindOfIsKind
  <2>5. From(t, e.head) = From(s, e.head)
    BY <1>4, <2>4
  <2> QED  BY <2>1, <2>2, <2>3, <2>5 DEF InTable
<1>9. t.tables = [k \in Kinds |-> t.tables[k]]
  BY <1>2
<1>10. InOrder(t, Y)
  BY <1>5, <1>6, <1>7, <1>8, <1>9 DEF InOrder
<1>11. c \in DOMAIN t.convs
  OBVIOUS
<1>12. InOrder(t, {c})
  BY <1>1, <1>10
<1> QED  BY <1>11, <1>12 DEF Loose

\* A conversation gets another key and other options.
KeyIs(s, t, c, key, options) ==
    /\ IsState(t) /\ DOMAIN t.convs = DOMAIN s.convs
    /\ \A d \in DOMAIN s.convs \ {c} : /\ t.convs[d].key = s.convs[d].key
                                       /\ t.convs[d].options = s.convs[d].options
    /\ \A d \in DOMAIN s.convs : /\ t.convs[d].setup_frame = s.convs[d].setup_frame
                                 /\ t.convs[d].template = s.convs[d].template
    /\ t.convs[c].key = key /\ t.convs[c].options = options

\* Nothing else is changed.
OnlyKey(s, t, c) ==
    /\ t.tables = s.tables
    /\ \A d \in DOMAIN s.convs : d # c => t.convs[d] = s.convs[d]
    /\ t.convs[c].latest_found = s.convs[c].latest_found

\* The key of a conversation that is in no table is changed in place: no chain and no
\* entry of another one notices.
LEMMA KeyChanged ==
    ASSUME NEW s, IsState(s), NEW c \in DOMAIN s.convs, NEW key, NEW options,
           NEW t, t = [s EXCEPT !.convs[c].key = key, !.convs[c].options = options]
    PROVE  KeyIs(s, t, c, key, options) /\ OnlyKey(s, t, c)
<1>1. PICK v : v = [[s.convs[c] EXCEPT !.key = key] EXCEPT !.options = options]
  OBVIOUS
<1>2. t = [convs |-> t.convs, tables |-> t.tables] /\ t.convs = [s.convs EXCEPT ![c] = v] /\ t.tables = s.tables
  <2>1. PICK d : d = [s EXCEPT !.convs[c].key = key]
    OBVIOUS
  <2>2. t = [d EXCEPT !.convs[c].options = options]
    BY <2>1
  <2>3. /\ d = [convs |-> d.convs, tables |-> d.tables] /\ d.tables = s.tables
        /\ d.convs = [s.convs EXCEPT ![c] = [s.convs[c] EXCEPT !.key = key]]
    BY <2>1 DEF IsState
  <2>4. t = [convs |-> t.convs, tables |-> t.tables] /\ t.tables = s.tables
    BY <2>2, <2>3
  <2>5. t.convs = [d.convs EXCEPT ![c] = [d.convs[c] EXCEPT !.options = options]]
    BY <2>2, <2>3
  <2>6. PICK n \in Nat : s.convs = [i \in 1 .. n |-> s.convs[i]]
    BY DEF IsState
  <2> QED  BY <1>1, <2>3, <2>4, <2>5, <2>6
<1>3. PICK r : r = s.convs[c]
  OBVIOUS
<1>4. IsConv(r) /\ v = [[r EXCEPT !.key = key] EXCEPT !.options = options]
  BY <1>1, <1>3 DEF IsState
<1>5. /\ IsConv(v) /\ v.options = options /\ v.key = key /\ v.setup_frame = r.setup_frame
      /\ v.template = r.template /\ v.latest_found = r.latest_found
  BY <1>4 DEF IsConv
<1>6. /\ IsState(t) /\ DOMAIN t.convs = DOMAIN s.convs
      /\ \A d \in DOMAIN s.convs : t.convs[d] = IF d = c THEN v ELSE s.convs[d]
  BY <1>2, <1>5, OneChanged
<1> QED  BY <1>2, <1>3, <1>5, <1>6 DEF KeyIs, OnlyKey

\* Out of one table and into another: all but the key and the options stay, wherever
\* the conversation was.
LEMMA MovedKey ==
    ASSUME NEW s, IsState(s), NEW c \in DOMAIN s.convs, NEW key, NEW options,
           NEW t, t = Moved(s, c, key, options)
    PROVE  /\ IsState(t) /\ DOMAIN t.convs = DOMAIN s.convs
           /\ t.convs[c].key = key /\ t.convs[c].options = options
<1>1. PICK a : a = conversation_remove_from_hashtable(s, KindOf(s.convs[c].options), c)
  OBVIOUS
<1>2. KeepsKeys(s, a) /\ IsState(a)
  BY <1>1, RemoveKeeps, KeptIsState
<1>3. PICK b : b = [a EXCEPT !.convs[c].key = key, !.convs[c].options = options]
  OBVIOUS
<1>4. c \in DOMAIN a.convs
  BY <1>2 DEF KeepsKeys
<1>5. KeyIs(a, b, c, key, options)
  BY <1>2, <1>3, <1>4, KeyChanged
<1>6. t = conversation_insert_into_hashtable(b, KindOf(options), c)
  BY <1>1, <1>3 DEF Moved
<1>7. KeepsKeys(b, t)
  BY <1>5, <1>6, InsertKeeps DEF KeyIs
<1> QED  BY <1>2, <1>4, <1>5, <1>7 DEF KeyIs, KeepsKeys

\* A conversation that its chain can lose is moved.
LEMMA MovedInOrder ==
    ASSUME NEW s, NEW c, Fixed(s, c), NEW key, NEW options,
           key = Key(key.addr1, key.port1, key.addr2, key.port2),
           "NO_ADDR2" \in options => key.addr2 = Any,
           "NO_PORT2" \in options => key.port2 = Any,
           NEW t, t = Moved(s, c, key, options)
    PROVE  Fixed(t, c) /\ KeyIs(s, t, c, key, options)
<1>1. PICK k : k = KindOf(s.convs[c].options)
  OBVIOUS
<1>2. PICK a : a = conversation_remove_from_hashtable(s, k, c)
  OBVIOUS
<1>3. Loose(a, c) /\ KeepsConvs(s, a)
  BY <1>1, <1>2, RemoveInOrder
<1>4. PICK b : b = [a EXCEPT !.convs[c].key = key, !.convs[c].options = options]
  OBVIOUS
<1>5. IsState(a) /\ c \in DOMAIN a.convs /\ InOrder(a, {c})
  BY <1>3 DEF Loose, InOrder
<1>6. KeyIs(a, b, c, key, options) /\ OnlyKey(a, b, c)
  BY <1>4, <1>5, KeyChanged
<1>7. Loose(b, c)
  <2>1. PICK X : X = {c}
    OBVIOUS
  <2>2. InOrder(a, X) /\ X \subseteq {c} /\ (c \in DOMAIN a.convs => c \in X)
    BY <1>5, <2>1
  <2>3. IsState(b) /\ DOMAIN b.convs = DOMAIN a.convs \cup {c}
    BY <1>5, <1>6 DEF KeyIs
  <2>4. b.convs[c].latest_found = NULL \/ b.convs[c].latest_found = c
    BY <1>3, <1>6 DEF Loose, OnlyKey
  <2>5. b.convs[c].setup_frame \in Nat
    BY <1>5, <1>6 DEF InOrder, KeyIs
  <2>6. WildcardsFit(b.convs[c])
    BY <1>6 DEF KeyIs, WildcardsFit
  <2>7. b.tables = a.tables /\ \A d \in DOMAIN a.convs : d # c => b.convs[d] = a.convs[d]
    BY <1>6 DEF OnlyKey
  <2> QED  BY <2>2, <2>3, <2>4, <2>5, <2>6, <2>7, LooseGiven
<1>8. PICK m : m = KindOf(options)
  OBVIOUS
<1>9. t = conversation_insert_into_hashtable(b, m, c)
  BY <1>1, <1>2, <1>4, <1>8 DEF Moved
<1>10. b.convs[c].options = options
  BY <1>6 DEF KeyIs
<1>11. m = KindOf(b.convs[c].options)
  BY <1>8, <1>10
<1>12. Inserted(b, t, c)
  BY <1>7, <1>9, <1>11, InsertInOrder
<1>13. KeyIs(s, t, c, key, options)
  BY <1>3, <1>5, <1>6, <1>12 DEF KeyIs, KeepsConvs, Inserted
<1>14. Fixed(t, c)
  <2>1. InOrder(t, {}) /\ c \in DOMAIN t.convs
    BY <1>5, <1>6, <1>12 DEF Inserted, KeepsConvs, KeyIs
  <2>2. t.convs[c].latest_found = b.convs[c].latest_found
    BY <1>5, <1>6, <1>12 DEF Inserted, KeyIs
  <2>3. t.convs[c].options = options
    BY <1>13 DEF KeyIs
  <2>4. \A f \in t.tables[KindOf(t.convs[c].options)] : f.owner = c => From(t, f.head) = <<c>>
    BY <1>10, <1>12, <2>3 DEF Inserted
  <2> QED  BY <1>7, <2>1, <2>2, <2>4 DEF Fixed, Loose
<1> QED  BY <1>13, <1>14

\* A conversation that no other one shares its key with.
LEMMA AloneIsFixed ==
    ASSUME NEW s, InOrder(s, {}), NEW c \in DOMAIN s.convs, SameKey(s, c) = {c}
    PROVE  Fixed(s, c)
<1>1. PICK k : k = KindOf(s.convs[c].options)
  OBVIOUS
<1>2. k \in Kinds /\ InTable(s, c)
  BY <1>1, KindOfIsKind DEF InOrder
<1>3. PICK e \in s.tables[k] : /\ e.hash = s.convs[c].key
                               /\ \E i \in 1 .. Len(From(s, e.head)) : From(s, e.head)[i] = c
  BY <1>1, <1>2 DEF InTable
<1>4. PICK q : q = From(s, e.head)
  OBVIOUS
<1>5. IsEntry(s, k, e, q, {})
  BY <1>2, <1>4 DEF InOrder
<1>6. PICK n : n = Len(q)
  OBVIOUS
<1>7. /\ n \in Nat /\ n > 0 /\ q \in Seq(DOMAIN s.convs)
      /\ \A i \in 1 .. n : q[i] \in DOMAIN s.convs /\ s.convs[q[i]].key = e.hash
      /\ \A i, j \in 1 .. n : q[i] = q[j] => i = j
  BY <1>5, <1>6 DEF IsEntry, IsChain
<1>8. \A i \in 1 .. n : q[i] = c
  BY <1>3, <1>7 DEF SameKey
<1>9. 1 \in 1 .. n /\ n \in 1 .. n
  BY <1>7
<1>10. n = 1
  BY <1>7, <1>8, <1>9
<1>11. q = <<c>>
  BY <1>6, <1>7, <1>8, <1>9, <1>10, OnlyElement
<1>12. s.convs[c].latest_found = NULL \/ s.convs[c].latest_found = c
  BY <1>5, <1>6, <1>8, <1>9 DEF IsEntry
<1>13. ASSUME NEW f \in s.tables[k], f.owner = c
       PROVE  From(s, f.head) = <<c>>
  <2>1. s.convs[c].key = f.hash
    BY <1>2, <1>13 DEF InOrder, IsEntry
  <2>2. f = e
    BY <1>2, <1>3, <2>1 DEF InOrder
  <2> QED  BY <1>4, <1>11, <2>2
<1> QED  BY <1>1, <1>12, <1>13 DEF Fixed

-----------------------------------------------------------------------------
\* The key and the options of a conversation once its wildcards are replaced.
GivenAddr(conv, addr) == "NO_ADDR2" \in conv.options /\ addr # Any
GivenPort(conv, port) == "NO_PORT2" \in conv.options /\ port # Any
KeyGiven(conv, addr, port) ==
    Key(conv.key.addr1, conv.key.port1,
        IF GivenAddr(conv, addr) THEN addr ELSE conv.key.addr2,
        IF GivenPort(conv, port) THEN port ELSE conv.key.port2)
OptionsGiven(conv, addr, port) ==
    {o \in conv.options : /\ o = "NO_ADDR2" => ~GivenAddr(conv, addr)
                          /\ o = "NO_PORT2" => ~GivenPort(conv, port)}

\* No wildcard is replaced.
LEMMA NothingGiven ==
    ASSUME NEW conv, WildcardsFit(conv), NEW addr, NEW port,
           ~GivenAddr(conv, addr), ~GivenPort(conv, port)
    PROVE  KeyGiven(conv, addr, port) = conv.key /\ OptionsGiven(conv, addr, port) = conv.options
<1>1. KeyGiven(conv, addr, port) = conv.key
  BY DEF KeyGiven, WildcardsFit
<1>2. OptionsGiven(conv, addr, port) = conv.options
  BY DEF OptionsGiven
<1> QED  BY <1>1, <1>2

\* conversation_set_addr2
LEMMA AddrSet ==
    ASSUME NEW s, NEW c, Fixed(s, c), NEW addr, NEW t, t = conversation_set_addr2(s, c, addr)
    PROVE  /\ Fixed(t, c)
           /\ KeyIs(s, t, c, KeyGiven(s.convs[c], addr, Any), OptionsGiven(s.convs[c], addr, Any))
<1>1. IsState(s) /\ c \in DOMAIN s.convs /\ WildcardsFit(s.convs[c])
  BY DEF Fixed, InOrder
<1>2. PICK conv : conv = s.convs[c]
  OBVIOUS
<1>3. WildcardsFit(conv) /\ ~GivenPort(conv, Any)
  BY <1>1, <1>2 DEF GivenPort
<1>4. CASE ~GivenAddr(conv, addr)
  <2>1. t = s
    BY <1>2, <1>4 DEF conversation_set_addr2, GivenAddr
  <2>2. KeyGiven(conv, addr, Any) = conv.key /\ OptionsGiven(conv, addr, Any) = conv.options
    BY <1>3, <1>4, NothingGiven
  <2>3. KeyIs(s, t, c, conv.key, conv.options)
    BY <1>1, <1>2, <2>1 DEF KeyIs
  <2> QED  BY <1>2, <2>1, <2>2, <2>3
<1>5. CASE GivenAddr(conv, addr)
  <2>1. PICK key, options : key = [conv.key EXCEPT !.addr2 = addr] /\ options = conv.options \ {"NO_ADDR2"}
    OBVIOUS
  <2>2. t = Moved(s, c, key, options)
    BY <1>2, <1>5, <2>1 DEF conversation_set_addr2, GivenAddr
  <2>3. key = Key(conv.key.addr1, conv.key.port1, addr, conv.key.port2)
    BY <1>3, <2>1 DEF WildcardsFit, Key
  <2>4. key = Key(key.addr1, key.port1, key.addr2, key.port2) /\ key.port2 = conv.key.port2
    BY <2>3 DEF Key
  <2>5. "NO_ADDR2" \in options => key.addr2 = Any
    BY <2>1
  <2>6. "NO_PORT2" \in options => key.port2 = Any
    BY <1>3, <2>1, <2>4 DEF WildcardsFit
  <2>7. Fixed(t, c) /\ KeyIs(s, t, c, key, options)
    BY <2>2, <2>4, <2>5, <2>6, MovedInOrder
  <2>8. key = KeyGiven(conv, addr, Any)
    BY <1>3, <1>5, <2>3 DEF KeyGiven
  <2>9. options = OptionsGiven(conv, addr, Any)
    BY <1>3, <1>5, <2>1 DEF OptionsGiven
  <2> QED  BY <1>2, <2>7, <2>8, <2>9
<1> QED  BY <1>4, <1>5

\* conversation_set_port2
LEMMA PortSet ==
    ASSUME NEW s, NEW c, Fixed(s, c), NEW port, NEW t, t = conversation_set_port2(s, c, port)
    PROVE  /\ Fixed(t, c)
           /\ KeyIs(s, t, c, KeyGiven(s.convs[c], Any, port), OptionsGiven(s.convs[c], Any, port))
<1>1. IsState(s) /\ c \in DOMAIN s.convs /\ WildcardsFit(s.convs[c])
  BY DEF Fixed, InOrder
<1>2. PICK conv : conv = s.convs[c]
  OBVIOUS
<1>3. WildcardsFit(conv) /\ ~GivenAddr(conv, Any)
  BY <1>1, <1>2 DEF GivenAddr
<1>4. CASE ~GivenPort(conv, port)
  <2>1. t = s
    BY <1>2, <1>4 DEF conversation_set_port2, GivenPort
  <2>2. KeyGiven(conv, Any, port) = conv.key /\ OptionsGiven(conv, Any, port) = conv.options
    BY <1>3, <1>4, NothingGiven
  <2>3. KeyIs(s, t, c, conv.key, conv.options)
    BY <1>1, <1>2, <2>1 DEF KeyIs
  <2> QED  BY <1>2, <2>1, <2>2, <2>3
<1>5. CASE GivenPort(conv, port)
  <2>1. PICK key, options : key = [conv.key EXCEPT !.port2 = port] /\ options = conv.options \ {"NO_PORT2"}
    OBVIOUS
  <2>2. t = Moved(s, c, key, options)
    BY <1>2, <1>5, <2>1 DEF conversation_set_port2, GivenPort
  <2>3. key = Key(conv.key.addr1, conv.key.port1, conv.key.addr2, port)
    BY <1>3, <2>1 DEF WildcardsFit, Key
  <2>4. key = Key(key.addr1, key.port1, key.addr2, key.port2) /\ key.addr2 = conv.key.addr2
    BY <2>3 DEF Key
  <2>5. "NO_PORT2" \in options => key.port2 = Any
    BY <2>1
  <2>6. "NO_ADDR2" \in options => key.addr2 = Any
    BY <1>3, <2>1, <2>4 DEF WildcardsFit
  <2>7. Fixed(t, c) /\ KeyIs(s, t, c, key, options)
    BY <2>2, <2>4, <2>5, <2>6, MovedInOrder
  <2>8. key = KeyGiven(conv, Any, port)
    BY <1>3, <1>5, <2>3 DEF KeyGiven
  <2>9. options = OptionsGiven(conv, Any, port)
    BY <1>3, <1>5, <2>1 DEF OptionsGiven
  <2> QED  BY <1>2, <2>7, <2>8, <2>9
<1> QED  BY <1>4, <1>5

\* A change of a key that two changes after one another are.
LEMMA KeyIsTransitive ==
    ASSUME NEW s, NEW t, NEW u, NEW c \in DOMAIN s.convs, NEW key, NEW options, NEW key2, NEW options2,
           KeyIs(s, t, c, key, options), KeyIs(t, u, c, key2, options2)
    PROVE  KeyIs(s, u, c, key2, options2)
BY DEF KeyIs

\* Both wildcards of a conversation are replaced.  Whenever that changes its key, it
\* is the only conversation of it.
LEMMA EndsSet ==
    ASSUME NEW s, InOrder(s, {}), NEW c \in DOMAIN s.convs, NEW addr, NEW port, NEW a, NEW t,
           a = conversation_set_addr2(s, c, addr), t = conversation_set_port2(a, c, port),
           t.convs[c].key # s.convs[c].key => SameKey(s, c) = {c}
    PROVE  /\ InOrder(t, {})
           /\ KeyIs(s, t, c, KeyGiven(s.convs[c], addr, port), OptionsGiven(s.convs[c], addr, port))
<1>1. IsState(s) /\ WildcardsFit(s.convs[c])
  BY DEF InOrder
<1>2. PICK conv : conv = s.convs[c]
  OBVIOUS
<1>3. WildcardsFit(conv)
  BY <1>1, <1>2
<1>4. CASE SameKey(s, c) = {c}
  <2>1. Fixed(s, c)
    BY <1>4, AloneIsFixed
  <2>2. PICK key1, options1 : /\ key1 = KeyGiven(conv, addr, Any)
                              /\ options1 = OptionsGiven(conv, addr, Any)
    OBVIOUS
  <2>3. Fixed(a, c) /\ KeyIs(s, a, c, key1, options1)
    BY <1>2, <2>1, <2>2, AddrSet
  <2>4. PICK mid : mid = a.convs[c]
    OBVIOUS
  <2>5. mid.key = key1 /\ mid.options = options1
    BY <2>3, <2>4 DEF KeyIs
  <2>6. PICK key2, options2 : /\ key2 = KeyGiven(mid, Any, port)
                              /\ options2 = OptionsGiven(mid, Any, port)
    OBVIOUS
  <2>7. Fixed(t, c) /\ KeyIs(a, t, c, key2, options2)
    BY <2>3, <2>4, <2>6, PortSet
  <2>8. ~GivenAddr(mid, Any) /\ ~GivenPort(conv, Any)
    BY DEF GivenAddr, GivenPort
  <2>9. GivenPort(mid, port) <=> GivenPort(conv, port)
    BY <2>2, <2>5 DEF GivenPort, OptionsGiven
  <2>10. key2 = KeyGiven(conv, addr, port)
    <3>1. mid.key = Key(conv.key.addr1, conv.key.port1,
                        IF GivenAddr(conv, addr) THEN addr ELSE conv.key.addr2, conv.key.port2)
      BY <2>2, <2>5, <2>8 DEF KeyGiven
    <3>2. /\ mid.key.addr1 = conv.key.addr1 /\ mid.key.port1 = conv.key.port1
          /\ mid.key.addr2 = (IF GivenAddr(conv, addr) THEN addr ELSE conv.key.addr2)
          /\ mid.key.port2 = conv.key.port2
      BY <3>1 DEF Key
    <3>3. key2 = Key(mid.key.addr1, mid.key.port1, mid.key.addr2,
                     IF GivenPort(conv, port) THEN port ELSE mid.key.port2)
      BY <2>6, <2>8, <2>9 DEF KeyGiven
    <3> QED  BY <3>2, <3>3 DEF KeyGiven
  <2>11. options2 = OptionsGiven(conv, addr, port)
    BY <2>2, <2>5, <2>6, <2>8, <2>9 DEF OptionsGiven
  <2>12. KeyIs(s, t, c, key2, options2)
    BY <2>3, <2>7, KeyIsTransitive
  <2> QED  BY <1>2, <2>7, <2>10, <2>11, <2>12 DEF Fixed
<1>5. CASE SameKey(s, c) # {c}
  <2>1. t.convs[c].key = conv.key
    BY <1>2, <1>5
  <2>2. ~GivenAddr(conv, addr)
    <3>1. SUFFICES ASSUME GivenAddr(conv, addr)
                   PROVE  FALSE
      OBVIOUS
    <3>2. PICK key, options : key = [conv.key EXCEPT !.addr2 = addr] /\ options = conv.options \ {"NO_ADDR2"}
      OBVIOUS
    <3>3. a = Moved(s, c, key, options)
      BY <1>2, <3>1, <3>2 DEF conversation_set_addr2, GivenAddr
    <3>4. IsState(a) /\ DOMAIN a.convs = DOMAIN s.convs /\ a.convs[c].key = key
      BY <1>1, <3>3, MovedKey
    <3>5. key = Key(conv.key.addr1, conv.key.port1, addr, conv.key.port2)
      BY <1>3, <3>2 DEF WildcardsFit, Key
    <3>6. key.addr2 = addr /\ addr # Any /\ conv.key.addr2 = Any
      BY <1>3, <3>1, <3>5 DEF WildcardsFit, GivenAddr, Key
    <3>7. t.convs[c].key.addr2 = addr
      <4>1. CASE port = Any \/ "NO_PORT2" \notin a.convs[c].options
        BY <3>4, <3>6, <4>1 DEF conversation_set_port2
      <4>2. CASE ~(port = Any \/ "NO_PORT2" \notin a.convs[c].options)
        <5>1. PICK key2, options2 : key2 = [key EXCEPT !.port2 = port] /\ options2 = a.convs[c].options \ {"NO_PORT2"}
          OBVIOUS
        <5>2. t = Moved(a, c, key2, options2)
          BY <3>4, <4>2, <5>1 DEF conversation_set_port2
        <5>3. t.convs[c].key = key2
          BY <3>4, <5>2, MovedKey
        <5>4. key2.addr2 = addr
          BY <3>5, <5>1 DEF Key
        <5> QED  BY <5>3, <5>4
      <4> QED  BY <4>1, <4>2
    <3> QED  BY <2>1, <3>6, <3>7
  <2>3. a = s
    BY <1>2, <2>2 DEF conversation_set_addr2, GivenAddr
  <2>4. ~GivenPort(conv, port)
    <3>1. SUFFICES ASSUME GivenPort(conv, port)
                   PROVE  FALSE
      OBVIOUS
    <3>2. PICK key, options : key = [conv.key EXCEPT !.port2 = port] /\ options = conv.options \ {"NO_PORT2"}
      OBVIOUS
    <3>3. t = Moved(s, c, key, options)
      BY <1>2, <2>3, <3>1, <3>2 DEF conversation_set_port2, GivenPort
    <3>4. t.convs[c].key = key
      BY <1>1, <3>3, MovedKey
    <3>5. key = Key(conv.key.addr1, conv.key.port1, conv.key.addr2, port)
      BY <1>3, <3>2 DEF WildcardsFit, Key
    <3>6. key.port2 = port /\ port # Any /\ conv.key.port2 = Any
      BY <1>3, <3>1, <3>5 DEF WildcardsFit, GivenPort, Key
    <3> QED  BY <2>1, <3>4, <3>6
  <2>5. t = s
    BY <1>2, <2>3, <2>4 DEF conversation_set_port2, GivenPort
  <2>6. KeyGiven(conv, addr, port) = conv.key /\ OptionsGiven(conv, addr, port) = conv.options
    BY <1>3, <2>2, <2>4, NothingGiven
  <2>7. KeyIs(s, t, c, conv.key, conv.options)
    BY <1>1, <1>2, <2>5 DEF KeyIs
  <2> QED  BY <1>2, <2>5, <2>6, <2>7
<1> QED  BY <1>4, <1>5

\* The wildcards of the key of a new conversation.
LEMMA KeyOfFits ==
    ASSUME NEW ends, NEW options, NEW conv, conv.key = KeyOf(ends, options), conv.options = options
    PROVE  WildcardsFit(conv)
<1>1. PICK kind, port1, addr2, port2 :
         /\ kind = KindOf(options)
         /\ port1 = IF kind = "exact_addr" THEN Any ELSE ends.port_a
         /\ addr2 = IF kind \in {"no_addr2", "no_addr2_or_port2"} THEN Any ELSE ends.addr_b
         /\ port2 = IF kind \in {"exact_addr_port", "no_addr2"} THEN ends.port_b ELSE Any
  OBVIOUS
<1>2. conv.key = Key(ends.addr_a, port1, addr2, port2)
  BY <1>1 DEF KeyOf
<1>3. /\ conv.key = Key(conv.key.addr1, conv.key.port1, conv.key.addr2, conv.key.port2)
      /\ conv.key.addr2 = addr2 /\ conv.key.port2 = port2
  BY <1>2 DEF Key
<1>4. "NO_ADDR2" \in options => kind \in {"no_addr2", "no_addr2_or_port2"}
  BY <1>1 DEF KindOf
<1>5. "NO_PORT2" \in options => kind \notin {"exact_addr_port", "no_addr2"}
  BY <1>1 DEF KindOf
<1> QED  BY <1>1, <1>3, <1>4, <1>5 DEF WildcardsFit

\* A conversation is new, and the others stay as they are.
Added(s, t, n, v) ==
    /\ IsState(t) /\ n = Len(s.convs) + 1 /\ Len(t.convs) = n
    /\ DOMAIN t.convs = DOMAIN s.convs \cup {n} /\ n \notin DOMAIN s.convs
    /\ \A d \in DOMAIN s.convs :
          /\ t.convs[d].key = s.convs[d].key /\ t.convs[d].options = s.convs[d].options
          /\ t.convs[d].setup_frame = s.convs[d].setup_frame
          /\ t.convs[d].template = s.convs[d].template
    /\ t.convs[n].key = v.key /\ t.convs[n].options = v.options
    /\ t.convs[n].setup_frame = v.setup_frame /\ t.convs[n].template = v.template

\* It is the last one.
LEMMA Appended ==
    ASSUME NEW s, IsState(s), NEW v, IsConv(v), NEW n, n = Len(s.convs) + 1,
           NEW t, t = [s EXCEPT !.convs = Append(@, v)]
    PROVE  /\ Added(s, t, n, v) /\ t.tables = s.tables /\ t.convs[n] = v
           /\ \A d \in DOMAIN s.convs : t.convs[d] = s.convs[d]
<1>1. PICK m \in Nat : s.convs = [i \in 1 .. m |-> s.convs[i]]
  BY DEF IsState
<1>2. PICK V : V = {s.convs[i] : i \in 1 .. m} \cup {v}
  OBVIOUS
<1>3. s.convs \in [1 .. m -> V]
  BY <1>1, <1>2
<1>4. s.convs \in Seq(V) /\ v \in V /\ Len(s.convs) = m /\ n = m + 1
  BY <1>2, <1>3
<1>5. t.tables = s.tables /\ t.convs = Append(s.convs, v)
  BY DEF IsState
<1>6. /\ t.convs \in Seq(V) /\ Len(t.convs) = m + 1 /\ t.convs[m + 1] = v
      /\ \A i \in 1 .. m : t.convs[i] = s.convs[i]
  BY <1>4, <1>5
<1>7. DOMAIN t.convs = 1 .. m + 1 /\ DOMAIN s.convs = 1 .. m
  BY <1>1, <1>6
<1>8. IsState(t)
  BY OneAdded DEF KeepsTemplates
<1>9. DOMAIN t.convs = DOMAIN s.convs \cup {n} /\ n \notin DOMAIN s.convs
  BY <1>4, <1>7
<1> QED  BY <1>4, <1>5, <1>6, <1>7, <1>8, <1>9 DEF Added

\* An interval from 1 has one end.
LEMMA IntervalEnd ==
    ASSUME NEW m \in Nat, NEW n \in Nat, 1 .. m = 1 .. n
    PROVE  m = n
<1>1. m = 0 \/ m \in 1 .. m
  OBVIOUS
<1>2. n = 0 \/ n \in 1 .. n
  OBVIOUS
<1>3. m <= n
  BY <1>1
<1>4. n <= m
  BY <1>2
<1> QED  BY <1>3, <1>4

\* conversation_new
LEMMA NewInOrder ==
    ASSUME NEW s, InOrder(s, {}), NEW setup_frame \in Nat, NEW ends, NEW options, NEW template,
           NEW t, t = conversation_new(s, setup_frame, ends, options, template),
           NEW v, v = [setup_frame |-> setup_frame, options |-> options,
                       key |-> KeyOf(ends, options), template |-> template,
                       next |-> NULL, last |-> NULL, latest_found |-> NULL]
    PROVE  InOrder(t, {}) /\ Added(s, t, Len(s.convs) + 1, v)
<1>1. IsState(s)
  BY DEF InOrder
<1>2. IsConv(v) /\ WildcardsFit(v)
  <2>1. v.key = KeyOf(ends, options) /\ v.options = options
    OBVIOUS
  <2> QED  BY <2>1, KeyOfFits DEF IsConv
<1>3. PICK n : n = Len(s.convs) + 1
  OBVIOUS
<1>4. PICK a : a = [s EXCEPT !.convs = Append(@, v)]
  OBVIOUS
<1>5. /\ Added(s, a, n, v) /\ a.tables = s.tables /\ a.convs[n] = v
      /\ \A d \in DOMAIN s.convs : a.convs[d] = s.convs[d]
  BY <1>1, <1>2, <1>3, <1>4, Appended
<1>6. Loose(a, n)
  <2>1. PICK X : X = {}
    OBVIOUS
  <2>2. InOrder(s, X) /\ X \subseteq {n} /\ (n \in DOMAIN s.convs => n \in X)
    BY <1>5, <2>1 DEF Added
  <2>3. IsState(a) /\ DOMAIN a.convs = DOMAIN s.convs \cup {n}
    BY <1>5 DEF Added
  <2>4. a.convs[n].latest_found = NULL \/ a.convs[n].latest_found = n
    BY <1>5
  <2>5. a.convs[n].setup_frame \in Nat /\ WildcardsFit(a.convs[n])
    BY <1>2, <1>5
  <2>6. a.tables = s.tables /\ \A d \in DOMAIN s.convs : d # n => a.convs[d] = s.convs[d]
    BY <1>5
  <2> QED  BY <2>2, <2>3, <2>4, <2>5, <2>6, LooseGiven
<1>7. PICK k : k = KindOf(options)
  OBVIOUS
<1>8. t = conversation_insert_into_hashtable(a, k, n)
  BY <1>3, <1>4, <1>7 DEF conversation_new
<1>9. k = KindOf(a.convs[n].options)
  BY <1>5, <1>7
<1>10. Inserted(a, t, n)
  BY <1>6, <1>8, <1>9, InsertInOrder
<1>11. Added(s, t, n, v)
  <2>1. IsState(t) /\ IsState(a) /\ DOMAIN t.convs = DOMAIN a.convs /\ n \in DOMAIN a.convs
    BY <1>5, <1>10 DEF Added, Inserted, KeepsConvs
  <2>2. Len(t.convs) = n
    <3>1. /\ DOMAIN t.convs = 1 .. Len(t.convs) /\ DOMAIN a.convs = 1 .. Len(a.convs)
          /\ Len(t.convs) \in Nat /\ Len(a.convs) \in Nat
      BY <2>1, ConvNumbers
    <3>2. Len(a.convs) = n
      BY <1>5 DEF Added
    <3> QED  BY <2>1, <3>1, <3>2, IntervalEnd
  <2> QED  BY <1>5, <1>10, <2>1, <2>2 DEF Added, Inserted, KeepsConvs
<1> QED  BY <1>3, <1>10, <1>11 DEF Inserted

\* conversation_create_from_template
LEMMA TemplateInOrder ==
    ASSUME NEW s, InOrder(s, {}), NEW c \in DOMAIN s.convs, NEW addr, NEW port,
           NEW r, r = conversation_create_from_template(s, c, addr, port)
    PROVE  /\ InOrder(r.s, {})
           /\ \/ r.s = s
              \/ \E v : Added(s, r.s, Len(s.convs) + 1, v) /\ v.template = c
<1>1. CASE s.convs[c].options \cap {"NO_ADDR2", "NO_PORT2"} = {}
  <2>1. r.s = s
    BY <1>1 DEF conversation_create_from_template
  <2> QED  BY <2>1
<1>2. CASE s.convs[c].options \cap {"NO_ADDR2", "NO_PORT2"} # {}
  <2>1. PICK key : key = s.convs[c].key
    OBVIOUS
  <2>2. PICK ends, options :
           /\ ends = [addr_a |-> key.addr1, port_a |-> key.port1,
                      addr_b |-> IF key.addr2 = Any THEN addr ELSE key.addr2,
                      port_b |-> IF key.port2 = Any THEN port ELSE key.port2]
           /\ options = s.convs[c].options \ {"CONVERSATION_TEMPLATE", "NO_ADDR2", "NO_PORT2"}
    OBVIOUS
  <2>3. PICK t : t = conversation_new(s, s.convs[c].setup_frame, ends, options, c)
    OBVIOUS
  <2>4. r.s = t
    BY <1>2, <2>1, <2>2, <2>3 DEF conversation_create_from_template
  <2>5. PICK f \in Nat : f = s.convs[c].setup_frame
    BY DEF InOrder
  <2>6. PICK v : v = [setup_frame |-> f, options |-> options,
                      key |-> KeyOf(ends, options), template |-> c,
                      next |-> NULL, last |-> NULL, latest_found |-> NULL]
    OBVIOUS
  <2>7. InOrder(t, {}) /\ Added(s, t, Len(s.convs) + 1, v)
    BY <2>3, <2>5, <2>6, NewInOrder
  <2>8. v.template = c
    BY <2>6
  <2> QED  BY <2>4, <2>7, <2>8
<1> QED  BY <1>1, <1>2

\* A walk along conversations in the order of their setup frames.
IsWalk(s, w, n) ==
    /\ n \in Nat /\ n > 0 /\ DOMAIN w = 1 .. n
    /\ \A j \in 1 .. n : w[j] # NULL /\ SetupFrame(s, w[j]) \in Nat
    /\ \A i, j \in 1 .. n : i <= j => SetupFrame(s, w[i]) <= SetupFrame(s, w[j])

\* The first of the latest of them that are early enough.
LEMMA LatestExists ==
    ASSUME NEW s, NEW w, NEW n, IsWalk(s, w, n), NEW f \in Nat, SetupFrame(s, w[1]) <= f,
           NEW m, m = LatestOn(s, w, f)
    PROVE  \E i \in 1 .. n : /\ m = w[i] /\ SetupFrame(s, w[i]) <= f
                             /\ \A j \in 1 .. n : SetupFrame(s, w[j]) <= f =>
                                   SetupFrame(s, w[j]) <= SetupFrame(s, w[i])
                             /\ \A j \in 1 .. n : SetupFrame(s, w[j]) = SetupFrame(s, w[i]) => i <= j
<1>1. PICK F : F = [j \in 1 .. n |-> SetupFrame(s, w[j])]
  OBVIOUS
<1>2. /\ n \in Nat /\ n > 0 /\ \A j \in 1 .. n : F[j] = SetupFrame(s, w[j]) /\ F[j] \in Nat
      /\ \A i, j \in 1 .. n : i <= j => F[i] <= F[j]
  BY <1>1 DEF IsWalk
<1>3. 1 \in 1 .. n /\ F[1] <= f
  BY <1>2
<1>4. PICK x \in 1 .. n : F[x] <= f /\ \A j \in 1 .. n : F[j] <= f => j <= x
  <2>1. PICK T : T = {y \in 0 .. n - 1 : F[n - y] <= f}
    OBVIOUS
  <2>2. n - 1 \in 0 .. n - 1 /\ n - (n - 1) = 1
    BY <1>2
  <2>3. T \subseteq Nat /\ n - 1 \in T
    BY <1>3, <2>1, <2>2
  <2>4. PICK y \in T : \A z \in T : y <= z
    BY <2>3, NatMin
  <2>5. y \in 0 .. n - 1 /\ F[n - y] <= f
    BY <2>1, <2>4
  <2>6. PICK x \in 1 .. n : x = n - y
    BY <1>2, <2>5
  <2>7. ASSUME NEW j \in 1 .. n, F[j] <= f
        PROVE  j <= x
    <3>1. n - j \in 0 .. n - 1 /\ n - (n - j) = j
      BY <1>2
    <3>2. n - j \in T
      BY <2>1, <2>7, <3>1
    <3>3. y <= n - j
      BY <2>4, <3>2
    <3> QED  BY <1>2, <2>5, <2>6, <3>3
  <2> QED  BY <2>5, <2>6, <2>7
<1>5. PICK i \in 1 .. n : F[i] = F[x] /\ \A j \in 1 .. n : F[j] = F[x] => i <= j
  <2>1. PICK T : T = {j \in 1 .. n : F[j] = F[x]}
    OBVIOUS
  <2>2. T \subseteq Nat /\ x \in T
    BY <2>1
  <2>3. PICK i \in T : \A j \in T : i <= j
    BY <2>2, NatMin
  <2> QED  BY <2>1, <2>3
<1> DEFINE upto(j) == \A l \in 1 .. j : Early(s, w[l], f)
           best(o) == /\ upto(o)
                      /\ \A j \in 1 .. n : upto(j) =>
                            \/ SetupFrame(s, w[j]) < SetupFrame(s, w[o])
                            \/ SetupFrame(s, w[j]) = SetupFrame(s, w[o]) /\ o <= j
<1>6. \A j \in 1 .. n : upto(j) <=> F[j] <= f
  <2> TAKE j \in 1 .. n
  <2>1. \A l \in 1 .. j : l \in 1 .. n /\ l <= j
    BY <1>2
  <2>2. \A l \in 1 .. j : Early(s, w[l], f) <=> F[l] <= f
    BY <1>2, <2>1 DEF IsWalk, Early
  <2>3. ASSUME F[j] <= f, NEW l \in 1 .. j
        PROVE  F[l] <= f
    <3>1. F[l] \in Nat /\ F[j] \in Nat /\ F[l] <= F[j]
      BY <1>2, <2>1
    <3> QED  BY <2>3, <3>1
  <2>4. j \in 1 .. j
    BY <1>2
  <2> QED  BY <2>2, <2>3, <2>4
<1> HIDE DEF upto
<1>7. best(i)
  <2>1. upto(i)
    BY <1>4, <1>5, <1>6
  <2>2. ASSUME NEW j \in 1 .. n, upto(j)
        PROVE  F[j] < F[i] \/ (F[j] = F[i] /\ i <= j)
    <3>1. F[j] <= f
      BY <1>6, <2>2
    <3>2. j <= x
      BY <1>4, <3>1
    <3>3. F[j] <= F[x] /\ F[j] \in Nat /\ F[x] \in Nat
      BY <1>2, <3>2
    <3>4. CASE F[j] = F[x]
      <4>1. F[j] = F[i]
        BY <1>5, <3>4
      <4>2. i <= j
        BY <1>5, <3>4
      <4> QED  BY <4>1, <4>2
    <3>5. CASE F[j] # F[x]
      <4>1. F[j] < F[x]
        BY <3>3, <3>5
      <4>2. F[j] < F[i]
        BY <1>5, <4>1
      <4> QED  BY <4>2
    <3> QED  BY <3>4, <3>5
  <2> QED  BY <1>2, <2>1, <2>2
<1>8. PICK o : o = CHOOSE y \in 1 .. n : best(y)
  OBVIOUS
<1>9. m = w[o]
  <2>1. DOMAIN w = 1 .. n
    BY DEF IsWalk
  <2> USE DEF upto
  <2>2. m = w[CHOOSE y \in DOMAIN w : best(y)]
    <3>1. LatestOn(s, w, f) = w[CHOOSE y \in DOMAIN w :
              /\ \A l \in 1 .. y : Early(s, w[l], f)
              /\ \A j \in DOMAIN w : (\A l \in 1 .. j : Early(s, w[l], f)) =>
                      \/ SetupFrame(s, w[j]) < SetupFrame(s, w[y])
                      \/ SetupFrame(s, w[j]) = SetupFrame(s, w[y]) /\ y <= j]
      BY Zenon DEF LatestOn
    <3> QED  BY <2>1, <3>1, Zenon
  <2> QED  BY <1>8, <2>1, <2>2, Zenon
<1> HIDE DEF best
<1>10. o \in 1 .. n /\ best(o)
  BY <1>7, <1>8
<1> USE DEF best
<1>11. F[o] <= f
  BY <1>6, <1>10
<1>12. ASSUME NEW j \in 1 .. n, F[j] <= f
       PROVE  F[j] <= F[o]
  <2>1. upto(j)
    BY <1>6, <1>12
  <2>2. F[j] < F[o] \/ F[j] = F[o]
    BY <1>2, <1>10, <2>1
  <2>3. F[j] \in Nat /\ F[o] \in Nat
    BY <1>2, <1>10
  <2> QED  BY <2>2, <2>3
<1>13. ASSUME NEW j \in 1 .. n, F[j] = F[o]
       PROVE  o <= j
  <2>1. upto(j)
    BY <1>6, <1>11, <1>13
  <2>2. F[j] < F[o] \/ o <= j
    BY <1>2, <1>10, <2>1
  <2>3. F[j] \in Nat /\ F[o] \in Nat
    BY <1>2, <1>10
  <2> QED  BY <1>13, <2>2, <2>3
<1> HIDE DEF best
<1> QED  BY <1>2, <1>9, <1>10, <1>11, <1>12, <1>13

\* The rest of a chain.
RestIs(q, n, i, w) ==
    /\ DOMAIN w = 1 .. n - i + 1
    /\ \A j \in 1 .. n - i + 1 : w[j] = q[i + j - 1]

\* The next pointers from a conversation of a chain on lead along its rest.
LEMMA RestOfChain ==
    ASSUME NEW s, IsState(s), NEW q, IsChain(s, q), NEW n, n = Len(q), NEW i \in 1 .. n,
           NEW w, w = From(s, q[i])
    PROVE  RestIs(q, n, i, w)
<1>1. /\ n \in Nat /\ n > 0 /\ q \in Seq(DOMAIN s.convs) /\ DOMAIN q = 1 .. n
      /\ \A j \in 1 .. n : q[j] \in DOMAIN s.convs
      /\ \A j \in 1 .. n - 1 : s.convs[q[j]].next = q[j+1]
      /\ s.convs[q[n]].next = NULL
      /\ \A j, l \in 1 .. n : q[j] = q[l] => j = l
  BY DEF IsChain
<1>2. PICK m \in Nat : m = n - i + 1 /\ m > 0
  <2>1. i \in Int /\ 1 <= i /\ i <= n
    BY <1>1
  <2>2. n - i + 1 \in Nat /\ n - i + 1 > 0
    BY <1>1, <2>1
  <2> QED  BY <2>2
<1>3. PICK r : r = [j \in 1 .. m |-> q[i + j - 1]]
  OBVIOUS
<1>4. /\ \A j \in 1 .. m : i + j - 1 \in 1 .. n /\ r[j] = q[i + j - 1]
      /\ DOMAIN r = 1 .. m
  BY <1>1, <1>2, <1>3
<1>5. r \in [1 .. m -> DOMAIN s.convs]
  BY <1>1, <1>3, <1>4
<1>6. r \in Seq(DOMAIN s.convs) /\ Len(r) = m
  BY <1>2, <1>5
<1>7. IsChain(s, r)
  <2>1. ASSUME NEW j \in 1 .. m - 1
        PROVE  s.convs[r[j]].next = r[j+1]
    <3>1. j \in 1 .. m /\ j + 1 \in 1 .. m /\ i + j - 1 \in 1 .. n - 1
      BY <1>1, <1>2
    <3>2. i + (j + 1) - 1 = (i + j - 1) + 1
      BY <1>1
    <3>3. r[j] = q[i + j - 1] /\ r[j+1] = q[(i + j - 1) + 1]
      BY <1>4, <3>1, <3>2
    <3> QED  BY <1>1, <3>1, <3>3
  <2>2. s.convs[r[m]].next = NULL
    <3>1. m \in 1 .. m /\ i + m - 1 = n
      BY <1>1, <1>2
    <3>2. r[m] = q[n]
      BY <1>4, <3>1
    <3> QED  BY <1>1, <3>2
  <2>3. ASSUME NEW j \in 1 .. m, NEW l \in 1 .. m, r[j] = r[l]
        PROVE  j = l
    <3>1. /\ i + j - 1 \in 1 .. n /\ r[j] = q[i + j - 1]
          /\ i + l - 1 \in 1 .. n /\ r[l] = q[i + l - 1]
      BY <1>4
    <3>2. i + j - 1 = i + l - 1
      BY <1>1, <2>3, <3>1
    <3> QED  BY <1>2, <3>2
  <2> QED  BY <1>2, <1>6, <2>1, <2>2, <2>3 DEF IsChain
<1>8. From(s, r[1]) = r
  BY <1>7, ChainIsFrom
<1>9. 1 \in 1 .. m /\ i + 1 - 1 = i
  BY <1>1, <1>2
<1>10. r[1] = q[i]
  BY <1>4, <1>9
<1>11. w = r
  BY <1>8, <1>10
<1> QED  BY <1>2, <1>4, <1>11 DEF RestIs

\* The latest conversation of a kind and a key that was set up by a frame.
LatestOf(s, k, h, f, c) ==
    /\ \A d \in DOMAIN s.convs : OfKey(s, d, k, h) /\ SetupFrame(s, d) <= f =>
          c # NULL /\ SetupFrame(s, d) <= SetupFrame(s, c)
    /\ c # NULL => c \in DOMAIN s.convs /\ OfKey(s, c, k, h) /\ SetupFrame(s, c) <= f

\* The conversations of a kind and a key are those of a chain.
LEMMA OfKeyInChain ==
    ASSUME NEW s, InOrder(s, {}), NEW k \in Kinds, NEW e \in s.tables[k],
           NEW q, q = From(s, e.head), NEW d \in DOMAIN s.convs, OfKey(s, d, k, e.hash)
    PROVE  \E i \in 1 .. Len(q) : q[i] = d
<1>1. InTable(s, d)
  BY DEF InOrder
<1>2. PICK g \in s.tables[k] : /\ g.hash = e.hash
                               /\ \E i \in 1 .. Len(From(s, g.head)) : From(s, g.head)[i] = d
  BY <1>1 DEF InTable, OfKey
<1>3. g = e
  BY <1>2 DEF InOrder
<1> QED  BY <1>2, <1>3

\* The conversation of a chain that a lookup is to give for a frame.
LatestIn(s, q, f, m) ==
    /\ \A j \in 1 .. Len(q) : SetupFrame(s, q[j]) <= f =>
          m # NULL /\ SetupFrame(s, q[j]) <= SetupFrame(s, m)
    /\ m # NULL => \E i \in 1 .. Len(q) : m = q[i] /\ SetupFrame(s, q[i]) <= f

\* The start of a walk along a chain: what its head remembers, or the head itself.
StartsAt(s, head, f, start) ==
    start = IF Early(s, s.convs[head].latest_found, f) THEN s.convs[head].latest_found ELSE head

\* What there is to know of the chain of an entry.
ChainOf(s, e, q, n) ==
    /\ n \in Nat /\ n > 0 /\ 1 \in 1 .. n /\ n \in 1 .. n
    /\ n = Len(q) /\ q[1] = e.head /\ s.convs[e.head].last = q[n]
    /\ \A j \in 1 .. n : q[j] \in DOMAIN s.convs /\ q[j] # NULL /\ SetupFrame(s, q[j]) \in Nat
    /\ \A i, j \in 1 .. n : i <= j => SetupFrame(s, q[i]) <= SetupFrame(s, q[j])

\* The chain of an entry of a table, and where a walk along it for a frame starts.
LEMMA EntryChain ==
    ASSUME NEW s, InOrder(s, {}), NEW k \in Kinds, NEW e \in s.tables[k],
           NEW q, q = From(s, e.head), NEW n, n = Len(q)
    PROVE  /\ ChainOf(s, e, q, n) /\ IsChain(s, q)
           /\ \A f \in Nat : Early(s, e.head, f) =>
                 \E i \in 1 .. n : StartsAt(s, e.head, f, q[i]) /\ SetupFrame(s, q[i]) <= f
<1>1. IsState(s) /\ IsEntry(s, k, e, q, {}) /\ IsChain(s, q)
  BY DEF InOrder, IsEntry
<1>2. /\ n \in Nat /\ n > 0 /\ q[1] = e.head /\ s.convs[e.head].last = q[n]
      /\ \A j \in 1 .. n : q[j] \in DOMAIN s.convs
      /\ \A i, j \in 1 .. n : i <= j => SetupFrame(s, q[i]) <= SetupFrame(s, q[j])
      /\ \/ s.convs[e.head].latest_found = NULL
         \/ \E i \in 1 .. n : s.convs[e.head].latest_found = q[i]
  BY <1>1 DEF IsEntry, IsChain
<1>3. \A d \in DOMAIN s.convs : d # NULL /\ SetupFrame(s, d) \in Nat
  BY <1>1, ConvNumbers DEF InOrder, SetupFrame, NULL
<1>4. 1 \in 1 .. n /\ n \in 1 .. n
  BY <1>2
<1>5. ChainOf(s, e, q, n)
  BY <1>2, <1>3, <1>4 DEF ChainOf
<1>6. ASSUME NEW f \in Nat, Early(s, e.head, f)
      PROVE  \E i \in 1 .. n : StartsAt(s, e.head, f, q[i]) /\ SetupFrame(s, q[i]) <= f
  <2>1. CASE Early(s, s.convs[e.head].latest_found, f)
    BY <1>2, <2>1 DEF Early, StartsAt
  <2>2. CASE ~Early(s, s.convs[e.head].latest_found, f)
    BY <1>2, <1>4, <1>6, <2>2 DEF Early, StartsAt
  <2> QED  BY <2>1, <2>2
<1> QED  BY <1>1, <1>5, <1>6

\* Where along a chain the conversation is that a lookup finds.
FoundAt(s, q, b, n, f, i) ==
    /\ i \in b .. n /\ SetupFrame(s, q[i]) <= f
    /\ \A j \in b .. n : SetupFrame(s, q[j]) <= f => SetupFrame(s, q[j]) <= SetupFrame(s, q[i])
    /\ \A j \in b .. n : SetupFrame(s, q[j]) = SetupFrame(s, q[i]) => i <= j

\* A lookup that goes along a chain, from its start on.
LEMMA LookupWalk ==
    ASSUME NEW s, IsState(s), NEW e, NEW q, IsChain(s, q), NEW n, ChainOf(s, e, q, n), NEW f \in Nat,
           Early(s, e.head, f), ~Early(s, q[n], f), NEW b \in 1 .. n, StartsAt(s, e.head, f, q[b]),
           SetupFrame(s, q[b]) <= f, NEW m, m = Lookup(s, e.head, f)
    PROVE  \E i \in 1 .. n : m = q[i] /\ FoundAt(s, q, b, n, f, i)
<1>1. /\ n \in Nat /\ n > 0 /\ q[1] = e.head /\ s.convs[e.head].last = q[n] /\ n = Len(q)
      /\ \A j \in 1 .. n : q[j] # NULL /\ SetupFrame(s, q[j]) \in Nat
      /\ \A i, j \in 1 .. n : i <= j => SetupFrame(s, q[i]) <= SetupFrame(s, q[j])
  BY DEF ChainOf
<1>2. PICK w : w = From(s, q[b])
  OBVIOUS
<1>3. PICK l \in Nat : l = n - b + 1 /\ l > 0
  <2>1. b \in Int /\ 1 <= b /\ b <= n
    BY <1>1
  <2>2. n - b + 1 \in Nat /\ n - b + 1 > 0
    BY <1>1, <2>1
  <2> QED  BY <2>2
<1>4. DOMAIN w = 1 .. l /\ \A j \in 1 .. l : w[j] = q[b + j - 1]
  <2>1. RestIs(q, n, b, w)
    BY <1>1, <1>2, RestOfChain
  <2> QED  BY <1>3, <2>1 DEF RestIs
<1>5. ASSUME NEW j \in 1 .. l
      PROVE  b + j - 1 \in 1 .. n /\ b + j - 1 \in b .. n
  BY <1>1, <1>3
<1>6. IsWalk(s, w, l)
  <2>1. \A j \in 1 .. l : w[j] # NULL /\ SetupFrame(s, w[j]) \in Nat
    BY <1>1, <1>4, <1>5
  <2>2. ASSUME NEW x \in 1 .. l, NEW y \in 1 .. l, x <= y
        PROVE  SetupFrame(s, w[x]) <= SetupFrame(s, w[y])
    <3>1. /\ w[x] = q[b + x - 1] /\ w[y] = q[b + y - 1]
          /\ b + x - 1 \in 1 .. n /\ b + y - 1 \in 1 .. n
      BY <1>4, <1>5
    <3>2. b + x - 1 <= b + y - 1
      BY <2>2
    <3> QED  BY <1>1, <3>1, <3>2
  <2> QED  BY <1>3, <1>4, <2>1, <2>2 DEF IsWalk
<1>7. 1 \in 1 .. l /\ w[1] = q[b]
  <2>1. 1 \in 1 .. l /\ b + 1 - 1 = b
    BY <1>1, <1>3
  <2> QED  BY <1>4, <2>1
<1>8. m = LatestOn(s, w, f)
  <2>1. m = LatestOn(s, From(s, q[b]), f)
    BY <1>1 DEF Lookup, StartsAt
  <2> QED  BY <1>2, <2>1
<1>9. PICK o \in 1 .. l : /\ m = w[o] /\ SetupFrame(s, w[o]) <= f
                          /\ \A j \in 1 .. l : SetupFrame(s, w[j]) <= f =>
                                SetupFrame(s, w[j]) <= SetupFrame(s, w[o])
                          /\ \A j \in 1 .. l : SetupFrame(s, w[j]) = SetupFrame(s, w[o]) => o <= j
  <2>1. SetupFrame(s, w[1]) <= f
    BY <1>7
  <2> QED  BY <1>6, <1>8, <2>1, LatestExists
<1>10. PICK i \in 1 .. n : i = b + o - 1 /\ i \in b .. n
  BY <1>5
<1>11. m = q[i] /\ SetupFrame(s, q[i]) <= f
  BY <1>4, <1>9, <1>10
<1>12. ASSUME NEW j \in b .. n
       PROVE  /\ SetupFrame(s, q[j]) <= f => SetupFrame(s, q[j]) <= SetupFrame(s, q[i])
              /\ SetupFrame(s, q[j]) = SetupFrame(s, q[i]) => i <= j
  <2>1. PICK x \in 1 .. l : x = j - b + 1 /\ b + x - 1 = j
    <3>1. j \in Int /\ b <= j /\ j <= n /\ b \in Int /\ n \in Int
      BY <1>1
    <3>2. j - b + 1 \in 1 .. n - b + 1 /\ b + (j - b + 1) - 1 = j
      BY <3>1
    <3> QED  BY <1>3, <3>2
  <2>2. w[x] = q[j] /\ w[o] = q[i]
    BY <1>4, <1>10, <2>1
  <2>3. o <= x => i <= j
    BY <1>1, <1>3, <1>10, <2>1
  <2> QED  BY <1>9, <2>2, <2>3
<1> QED  BY <1>10, <1>11, <1>12 DEF FoundAt

\* A lookup in a chain.
LEMMA LookupAlong ==
    ASSUME NEW s, InOrder(s, {}), NEW k \in Kinds, NEW e \in s.tables[k],
           NEW q, q = From(s, e.head), NEW f \in Nat, NEW m, m = Lookup(s, e.head, f)
    PROVE  LatestIn(s, q, f, m)
<1>1. PICK n : n = Len(q)
  OBVIOUS
<1>2. /\ IsState(s) /\ ChainOf(s, e, q, n) /\ IsChain(s, q)
      /\ Early(s, e.head, f) =>
            \E i \in 1 .. n : StartsAt(s, e.head, f, q[i]) /\ SetupFrame(s, q[i]) <= f
  BY <1>1, EntryChain DEF InOrder
<1>3. /\ n \in Nat /\ n > 0 /\ q[1] = e.head /\ s.convs[e.head].last = q[n]
      /\ \A j \in 1 .. n : q[j] # NULL /\ SetupFrame(s, q[j]) \in Nat
      /\ \A i, j \in 1 .. n : i <= j => SetupFrame(s, q[i]) <= SetupFrame(s, q[j])
      /\ 1 \in 1 .. n /\ n \in 1 .. n
  BY <1>2 DEF ChainOf
<1>4. CASE ~Early(s, e.head, f)
  <2>1. m = NULL
    BY <1>4 DEF Lookup
  <2>2. ~(SetupFrame(s, q[1]) <= f)
    BY <1>3, <1>4 DEF Early
  <2>3. ASSUME NEW j \in 1 .. n, SetupFrame(s, q[j]) <= f
        PROVE  FALSE
    <3>1. SetupFrame(s, q[1]) <= SetupFrame(s, q[j])
      BY <1>3
    <3>2. SetupFrame(s, q[1]) \in Nat /\ SetupFrame(s, q[j]) \in Nat
      BY <1>3
    <3> QED  BY <2>2, <2>3, <3>1, <3>2
  <2> QED  BY <1>1, <2>1, <2>3 DEF LatestIn
<1>5. CASE Early(s, e.head, f) /\ Early(s, q[n], f)
  <2>1. m = q[n]
    BY <1>3, <1>5 DEF Lookup
  <2>2. m # NULL /\ SetupFrame(s, q[n]) <= f
    BY <1>3, <1>5, <2>1 DEF Early
  <2>3. \A j \in 1 .. n : SetupFrame(s, q[j]) <= SetupFrame(s, m)
    BY <1>3, <2>1
  <2> QED  BY <1>1, <1>3, <2>1, <2>2, <2>3 DEF LatestIn
<1>6. CASE Early(s, e.head, f) /\ ~Early(s, q[n], f)
  <2>1. PICK b \in 1 .. n : StartsAt(s, e.head, f, q[b]) /\ SetupFrame(s, q[b]) <= f
    BY <1>2, <1>6
  <2>2. PICK i \in 1 .. n : m = q[i] /\ FoundAt(s, q, b, n, f, i)
    BY <1>2, <1>6, <2>1, LookupWalk
  <2>3. ASSUME NEW j \in 1 .. n, SetupFrame(s, q[j]) <= f
        PROVE  SetupFrame(s, q[j]) <= SetupFrame(s, q[i])
    <3>1. CASE j < b
      <4>1. SetupFrame(s, q[j]) <= SetupFrame(s, q[b])
        BY <1>3, <3>1
      <4>2. b \in b .. n
        BY <1>3
      <4>3. SetupFrame(s, q[b]) <= SetupFrame(s, q[i])
        BY <2>1, <2>2, <4>2 DEF FoundAt
      <4>4. /\ SetupFrame(s, q[j]) \in Nat /\ SetupFrame(s, q[b]) \in Nat
            /\ SetupFrame(s, q[i]) \in Nat
        BY <1>3
      <4> QED  BY <4>1, <4>3, <4>4
    <3>2. CASE ~(j < b)
      <4>1. j \in b .. n
        BY <1>3, <3>2
      <4> QED  BY <2>2, <2>3, <4>1 DEF FoundAt
    <3> QED  BY <3>1, <3>2
  <2>4. m # NULL /\ SetupFrame(s, q[i]) <= f
    BY <1>3, <2>2 DEF FoundAt
  <2> QED  BY <1>1, <2>2, <2>3, <2>4 DEF LatestIn
<1> QED  BY <1>4, <1>5, <1>6

\* conversation_lookup_hashtable, which gives the latest conversation of the key and
\* keeps the tables in order.
LEMMA LookupInOrder ==
    ASSUME NEW s, InOrder(s, {}), NEW k \in Kinds, NEW h, NEW f \in Nat,
           NEW r, r = conversation_lookup_hashtable(s, k, h, f)
    PROVE  InOrder(r.s, {}) /\ KeepsConvs(s, r.s) /\ LatestOf(s, k, h, f, r.conv)
<1>1. PICK head : head = HeadOf(s, k, h)
  OBVIOUS
<1>2. PICK m : m = Lookup(s, head, f)
  OBVIOUS
<1>3. PICK t : t = IF m = NULL \/ SetupFrame(s, s.convs[head].last) <= f THEN s
                   ELSE [s EXCEPT !.convs[head].latest_found = m]
  OBVIOUS
<1>4. r.conv = m /\ r.s = t
  BY <1>1, <1>2, <1>3 DEF conversation_lookup_hashtable, LookupAt, Remember
<1>5. IsState(s) /\ KeepsConvs(s, s)
  BY DEF InOrder, KeepsConvs
<1>6. CASE \A e \in s.tables[k] : e.hash # h
  <2>1. head = NULL
    BY <1>1, <1>6, NoEntryOfKey
  <2>2. m = NULL
    BY <1>2, <2>1 DEF Lookup, Early
  <2>3. \A d \in DOMAIN s.convs : ~OfKey(s, d, k, h)
    BY <1>6 DEF InOrder, InTable, OfKey
  <2>4. LatestOf(s, k, h, f, m)
    BY <2>2, <2>3 DEF LatestOf
  <2>5. t = s
    BY <1>3, <2>2
  <2> QED  BY <1>4, <1>5, <2>4, <2>5
<1>7. ASSUME NEW e \in s.tables[k], e.hash = h
      PROVE  InOrder(t, {}) /\ KeepsConvs(s, t) /\ LatestOf(s, k, h, f, m)
  <2>1. head = e.head /\ head \in DOMAIN s.convs
    BY <1>1, <1>7, EntryOfKey
  <2>2. PICK q : q = From(s, e.head)
    OBVIOUS
  <2>3. IsEntry(s, k, e, q, {})
    BY <2>2 DEF InOrder
  <2>4. LatestIn(s, q, f, m)
    BY <1>2, <2>1, <2>2, LookupAlong
  <2>5. \A d \in DOMAIN s.convs : OfKey(s, d, k, h) => \E i \in 1 .. Len(q) : q[i] = d
    BY <1>7, <2>2, OfKeyInChain
  <2>6. \A i \in 1 .. Len(q) : q[i] \in DOMAIN s.convs /\ OfKey(s, q[i], k, h)
    BY <1>7, <2>3 DEF IsEntry, IsChain, OfKey
  <2>7. LatestOf(s, k, h, f, m)
    BY <2>4, <2>5, <2>6 DEF LatestOf, LatestIn
  <2>8. CASE t = s
    BY <1>5, <2>7, <2>8
  <2>9. CASE m # NULL /\ t = [s EXCEPT !.convs[head].latest_found = m]
    <3>1. FoundIs(s, t, head, m) /\ IsState(t) /\ KeepsConvs(s, t)
      BY <1>5, <2>1, <2>9, FoundSet
    <3>2. PICK B, X : B = {e} /\ X = {}
      OBVIOUS
    <3>3. /\ t.tables = s.tables /\ DOMAIN t.convs = DOMAIN s.convs
          /\ \A d \in DOMAIN s.convs : d # head => t.convs[d] = s.convs[d]
          /\ t.convs[head].next = s.convs[head].next /\ t.convs[head].last = s.convs[head].last
          /\ t.convs[head].latest_found = m
      BY <3>1 DEF FoundIs, SameBut, KeepsConvs
    <3>4. Len(q) \in Nat /\ Len(q) > 0 /\ q[1] = head /\ 1 \in 1 .. Len(q)
      BY <2>1, <2>3 DEF IsEntry, IsChain
    <3>5. IsChain(t, q)
      <4>1. \A d \in DOMAIN s.convs : t.convs[d].next = s.convs[d].next
        BY <3>3
      <4>2. IsChain(s, q)
        BY <2>3 DEF IsEntry
      <4>3. Len(q) \in 1 .. Len(q) /\ \A i \in 1 .. Len(q) - 1 : i \in 1 .. Len(q)
        BY <3>4
      <4>4. q[Len(q)] \in DOMAIN s.convs /\ \A i \in 1 .. Len(q) - 1 : q[i] \in DOMAIN s.convs
        BY <2>6, <4>3
      <4> QED  BY <3>3, <4>1, <4>2, <4>4 DEF IsChain
    <3>6. From(t, e.head) = q
      BY <2>1, <3>1, <3>4, <3>5, ChainIsFrom
    <3>7. IsEntry(t, k, e, q, X)
      <4>1. \A d \in DOMAIN s.convs : /\ t.convs[d].key = s.convs[d].key
                                      /\ t.convs[d].options = s.convs[d].options
                                      /\ SetupFrame(t, d) = SetupFrame(s, d)
        BY <3>1 DEF KeepsConvs, SetupFrame
      <4>2. \/ t.convs[q[1]].latest_found = NULL
            \/ \E i \in 1 .. Len(q) : t.convs[q[1]].latest_found = q[i]
        BY <2>4, <2>9, <3>3, <3>4 DEF LatestIn
      <4>3. t.convs[q[1]].last = q[Len(q)]
        BY <2>3, <3>3, <3>4 DEF IsEntry
      <4>4. \A i \in 1 .. Len(q) : /\ q[i] \notin X /\ t.convs[q[i]].key = e.hash
                                   /\ KindOf(t.convs[q[i]].options) = k
        BY <1>7, <2>6, <3>2, <4>1 DEF OfKey
      <4>5. \A i, j \in 1 .. Len(q) : i <= j => SetupFrame(t, q[i]) <= SetupFrame(t, q[j])
        BY <2>3, <2>6, <4>1 DEF IsEntry
      <4>6. /\ e = [hash |-> e.hash, owner |-> e.owner, head |-> e.head]
            /\ e.owner \in DOMAIN t.convs /\ e.owner \notin X
            /\ t.convs[e.owner].key = e.hash /\ KindOf(t.convs[e.owner].options) = k
        BY <2>3, <3>2, <3>3, <4>1 DEF IsEntry
      <4> QED  BY <2>1, <3>4, <3>5, <4>2, <4>3, <4>4, <4>5, <4>6 DEF IsEntry
    <3>8. Replaced(s, t, X, X, k, h, B)
      <4>1. \A d \in DOMAIN s.convs : ~OfKey(s, d, k, h) =>
               t.convs[d] = s.convs[d] /\ (d \in X <=> d \in X)
        BY <2>6, <3>3, <3>4
      <4>2. {g \in s.tables[k] : g.hash # h} \cup B = s.tables[k]
        BY <1>7, <3>2 DEF InOrder
      <4>3. t.tables = [s.tables EXCEPT ![k] = {g \in s.tables[k] : g.hash # h} \cup B]
        BY <3>3, <4>2 DEF InOrder
      <4>4. \A g \in B : g.hash = h /\ IsEntry(t, k, g, From(t, g.head), X)
        BY <1>7, <3>2, <3>6, <3>7
      <4>5. ASSUME NEW d \in DOMAIN s.convs, OfKey(s, d, k, h)
            PROVE  InTable(t, d)
        <5>1. \E i \in 1 .. Len(From(t, e.head)) : From(t, e.head)[i] = d
          BY <2>5, <3>6, <4>5
        <5>2. e \in t.tables[KindOf(t.convs[d].options)] /\ e.hash = t.convs[d].key
          BY <1>7, <3>1, <3>3, <4>5 DEF OfKey, KeepsConvs
        <5> QED  BY <5>1, <5>2 DEF InTable
      <4> QED  BY <3>2, <4>1, <4>3, <4>4, <4>5 DEF Replaced
    <3>9. InOrder(s, X)
      BY <3>2
    <3>10. InOrder(t, X)
      BY <3>1, <3>8, <3>9, TableChanged
    <3> QED  BY <2>7, <3>1, <3>2, <3>10
  <2> QED  BY <1>3, <2>8, <2>9
<1> QED  BY <1>4, <1>6, <1>7

\* What a lookup finds depends on what no lookup changes.
LEMMA LatestOfKept ==
    ASSUME NEW s, NEW t, KeepsConvs(s, t), NEW k, NEW h, NEW f, NEW c, LatestOf(t, k, h, f, c)
    PROVE  LatestOf(s, k, h, f, c)
BY DEF KeepsConvs, LatestOf, OfKey, SetupFrame

\* A key leads to a conversation that was set up by a frame just when there is one.
LEMMA HeadEarly ==
    ASSUME NEW s, InOrder(s, {}), NEW k \in Kinds, NEW h, NEW f \in Nat
    PROVE  Early(s, HeadOf(s, k, h), f) <=>
              \E d \in DOMAIN s.convs : OfKey(s, d, k, h) /\ SetupFrame(s, d) <= f
<1>1. CASE \A e \in s.tables[k] : e.hash # h
  <2>1. HeadOf(s, k, h) = NULL
    BY <1>1, NoEntryOfKey
  <2>2. \A d \in DOMAIN s.convs : ~OfKey(s, d, k, h)
    BY <1>1 DEF InOrder, InTable, OfKey
  <2> QED  BY <2>1, <2>2 DEF Early
<1>2. ASSUME NEW e \in s.tables[k], e.hash = h
      PROVE  Early(s, HeadOf(s, k, h), f) <=>
                \E d \in DOMAIN s.convs : OfKey(s, d, k, h) /\ SetupFrame(s, d) <= f
  <2>1. PICK q : q = From(s, e.head)
    OBVIOUS
  <2>2. IsEntry(s, k, e, q, {})
    BY <2>1 DEF InOrder
  <2>3. HeadOf(s, k, h) = q[1] /\ q[1] # NULL
    BY <1>2, <2>2, EntryOfKey DEF IsEntry
  <2>4. Len(q) \in Nat /\ 1 \in 1 .. Len(q)
    BY <2>2 DEF IsEntry, IsChain
  <2>5. q[1] \in DOMAIN s.convs /\ OfKey(s, q[1], k, h)
    BY <1>2, <2>2, <2>4 DEF IsEntry, IsChain, OfKey
  <2>6. ASSUME NEW d \in DOMAIN s.convs, OfKey(s, d, k, h), SetupFrame(s, d) <= f
        PROVE  SetupFrame(s, q[1]) <= f
    <3>1. PICK i \in 1 .. Len(q) : q[i] = d
      BY <1>2, <2>1, <2>6, OfKeyInChain
    <3>2. 1 <= i
      BY <2>4
    <3>3. SetupFrame(s, q[1]) <= SetupFrame(s, d)
      BY <2>2, <2>4, <3>1, <3>2 DEF IsEntry
    <3>4. SetupFrame(s, q[1]) \in Nat /\ SetupFrame(s, d) \in Nat
      BY <2>5 DEF InOrder, SetupFrame
    <3> QED  BY <2>6, <3>3, <3>4
  <2> QED  BY <2>3, <2>5, <2>6 DEF Early
<1> QED  BY <1>1, <1>2

\* The keys of a packet in its two directions.
KeyThere(p) == Key(p.addr_a, p.port_a, p.addr_b, p.port_b)
KeyBack(p) == Key(p.addr_b, p.port_b, p.addr_a, p.port_a)

\* The younger of the latest conversations of the two.
ExactOf(s, f, p, c) ==
    \E x, y : /\ LatestOf(s, "exact_addr_port", KeyThere(p), f, x)
              /\ LatestOf(s, "exact_addr_port", KeyBack(p), f, y)
              /\ c = IF y > x THEN y ELSE x

\* The exact lookup in both directions.
LEMMA FindExactInOrder ==
    ASSUME NEW s, InOrder(s, {}), NEW f \in Nat, NEW p, NEW r, r = FindExact(s, f, p)
    PROVE  InOrder(r.s, {}) /\ KeepsConvs(s, r.s) /\ ExactOf(s, f, p, r.conv)
<1>1. PICK k : k = "exact_addr_port"
  OBVIOUS
<1>2. k \in Kinds
  BY <1>1 DEF Kinds
<1>3. PICK h, g : h = KeyThere(p) /\ g = KeyBack(p)
  OBVIOUS
<1>4. PICK there : there = conversation_lookup_hashtable(s, k, h, f)
  OBVIOUS
<1>5. InOrder(there.s, {}) /\ KeepsConvs(s, there.s) /\ LatestOf(s, k, h, f, there.conv)
  BY <1>2, <1>4, LookupInOrder
<1>6. PICK back : back = conversation_lookup_hashtable(there.s, k, g, f)
  OBVIOUS
<1>7. InOrder(back.s, {}) /\ KeepsConvs(there.s, back.s) /\ LatestOf(there.s, k, g, f, back.conv)
  BY <1>2, <1>5, <1>6, LookupInOrder
<1>8. r.s = back.s /\ r.conv = IF back.conv > there.conv THEN back.conv ELSE there.conv
  BY <1>1, <1>3, <1>4, <1>6 DEF FindExact, LookupBack, LookupThere, Younger, KeyThere, KeyBack
<1>9. KeepsConvs(s, back.s) /\ LatestOf(s, k, g, f, back.conv)
  BY <1>5, <1>7, KeepsConvsTransitive, LatestOfKept
<1> QED  BY <1>1, <1>3, <1>5, <1>7, <1>8, <1>9 DEF ExactOf

\* What it finds is a conversation.
LEMMA ExactIsConv ==
    ASSUME NEW s, IsState(s), NEW f, NEW p, NEW c, ExactOf(s, f, p, c), c # NULL
    PROVE  /\ c \in DOMAIN s.convs /\ SetupFrame(s, c) <= f
           /\ \/ OfKey(s, c, "exact_addr_port", KeyThere(p))
              \/ OfKey(s, c, "exact_addr_port", KeyBack(p))
BY DEF ExactOf, LatestOf

-----------------------------------------------------------------------------
\* A key is replaced only where no other conversation has it.
KeysGuarded(s, t) ==
    \A c \in DOMAIN s.convs : s.convs[c].key # t.convs[c].key => SameKey(s, c) = {c}

\* Lookups before a change leave it guarded.
LEMMA GuardedAfter ==
    ASSUME NEW s, NEW t, NEW u, KeepsConvs(s, t), KeysGuarded(s, u)
    PROVE  KeysGuarded(t, u)
BY DEF KeepsConvs, KeysGuarded, SameKey

\* A match of a wildcard lookup.
LEMMA MatchedInOrder ==
    ASSUME NEW s, InOrder(s, {}), NEW c \in DOMAIN s.convs, NEW try,
           NEW r, r = Matched(s, c, try)
    PROVE  (KeysGuarded(s, r.s) => InOrder(r.s, {})) /\ r.conv # NULL
<1>1. c # NULL /\ Len(s.convs) + 1 # NULL
  BY ConvNumbers DEF InOrder, NULL
<1>2. CASE r = [s |-> s, conv |-> c]
  BY <1>1, <1>2
<1>3. CASE r = conversation_create_from_template(s, c, try.addr2, try.port2)
  <2>1. InOrder(r.s, {})
    BY <1>3, TemplateInOrder
  <2>2. r.conv = c \/ r.conv = Len(s.convs) + 1
    BY <1>3 DEF conversation_create_from_template
  <2> QED  BY <1>1, <2>1, <2>2
<1>4. CASE r = [s |-> conversation_set_port2(conversation_set_addr2(s, c, try.addr2), c, try.port2),
                conv |-> c]
  <2>1. PICK a : a = conversation_set_addr2(s, c, try.addr2)
    OBVIOUS
  <2>2. PICK t : t = conversation_set_port2(a, c, try.port2)
    OBVIOUS
  <2>3. r.s = t /\ r.conv = c
    BY <1>4, <2>1, <2>2
  <2>4. ASSUME KeysGuarded(s, t)
        PROVE  InOrder(t, {})
    <3>1. t.convs[c].key # s.convs[c].key => SameKey(s, c) = {c}
      BY <2>4 DEF KeysGuarded
    <3> QED  BY <2>1, <2>2, <3>1, EndsSet
  <2> QED  BY <1>1, <2>3, <2>4
<1> QED  BY <1>2, <1>3, <1>4 DEF Matched

\* The lookups with wildcards.
LEMMA TryKinds ==
    ASSUME NEW p, NEW options, NEW tries, tries = WildcardTries(p, options)
    PROVE  DOMAIN tries = 1 .. 8 /\ \A i \in 1 .. 8 : tries[i].kind \in Kinds
<1>1. DOMAIN tries = 1 .. 8
  BY DEF WildcardTries
<1>2. /\ tries[1].kind = "no_addr2" /\ tries[2].kind = "no_addr2"
      /\ tries[3].kind = "no_port2" /\ tries[4].kind = "no_port2"
      /\ tries[5].kind = "no_addr2_or_port2" /\ tries[6].kind = "no_addr2_or_port2"
      /\ tries[7].kind = "exact_addr" /\ tries[8].kind = "exact_addr"
  BY DEF WildcardTries, Try
<1>3. \A i \in 1 .. 8 : i \in {1, 2, 3, 4, 5, 6, 7, 8}
  OBVIOUS
<1> QED  BY <1>1, <1>2, <1>3 DEF Kinds

\* The first one that has a match.
FirstHit(s, f, tries, i) ==
    /\ i \in DOMAIN tries /\ tries[i].made
    /\ Early(s, HeadOf(s, tries[i].kind, tries[i].key), f)
    /\ \A j \in DOMAIN tries : j < i =>
          ~(tries[j].made /\ Early(s, HeadOf(s, tries[j].kind, tries[j].key), f))
\* No wildcard lookup has a match.
NoHit(s, f, tries) ==
    \A j \in DOMAIN tries : ~(tries[j].made /\ Early(s, HeadOf(s, tries[j].kind, tries[j].key), f))

\* The wildcard lookups stop at the first one that has a match.
LEMMA FindWildcardIs ==
    ASSUME NEW s, NEW f, NEW tries, DOMAIN tries = 1 .. 8, NEW r, r = FindWildcard(s, f, tries)
    PROVE  \/ NoHit(s, f, tries) /\ r = [s |-> s, conv |-> NULL]
           \/ \E i : /\ FirstHit(s, f, tries, i)
                     /\ r = MatchedBy(conversation_lookup_hashtable(s, tries[i].kind, tries[i].key, f), tries[i])
<1>1. PICK hits : hits = {i \in DOMAIN tries :
                             /\ tries[i].made
                             /\ Early(s, HeadOf(s, tries[i].kind, tries[i].key), f)}
  OBVIOUS
<1>2. CASE hits = {}
  <2>1. r = [s |-> s, conv |-> NULL]
    BY <1>1, <1>2 DEF FindWildcard
  <2> QED  BY <1>1, <1>2, <2>1 DEF NoHit
<1>3. CASE hits # {}
  <2>1. hits \subseteq Nat
    BY <1>1
  <2>2. PICK least : least = CHOOSE i \in hits : \A j \in hits : i <= j
    OBVIOUS
  <2>3. \E i \in hits : \A j \in hits : i <= j
    BY <1>3, <2>1, NatMin
  <2>4. least \in hits /\ \A j \in hits : least <= j
    BY <2>2, <2>3
  <2>5. r = MatchedBy(conversation_lookup_hashtable(s, tries[least].kind, tries[least].key, f), tries[least])
    BY <1>1, <1>3, <2>2 DEF FindWildcard
  <2>6. FirstHit(s, f, tries, least)
    <3>1. least \in 1 .. 8
      BY <1>1, <2>4
    <3>2. ASSUME NEW j \in 1 .. 8, j < least
          PROVE  j \notin hits
      BY <2>4, <3>1, <3>2
    <3> QED  BY <1>1, <2>4, <3>2 DEF FirstHit
  <2> QED  BY <2>5, <2>6
<1> QED  BY <1>2, <1>3

\* The wildcard lookups keep the tables in order, and change nothing without a match.
LEMMA FindWildcardInOrder ==
    ASSUME NEW s, InOrder(s, {}), NEW f \in Nat, NEW p, NEW options,
           NEW r, r = FindWildcard(s, f, WildcardTries(p, options))
    PROVE  /\ KeysGuarded(s, r.s) => InOrder(r.s, {})
           /\ r.conv = NULL => r.s = s
<1>1. PICK tries : tries = WildcardTries(p, options)
  OBVIOUS
<1>2. DOMAIN tries = 1 .. 8 /\ \A i \in 1 .. 8 : tries[i].kind \in Kinds
  BY <1>1, TryKinds
<1>3. CASE r = [s |-> s, conv |-> NULL]
  BY <1>3
<1>4. ASSUME NEW i, FirstHit(s, f, tries, i),
             r = MatchedBy(conversation_lookup_hashtable(s, tries[i].kind, tries[i].key, f), tries[i])
      PROVE  (KeysGuarded(s, r.s) => InOrder(r.s, {})) /\ r.conv # NULL
  <2>1. PICK k, h : k = tries[i].kind /\ h = tries[i].key
    OBVIOUS
  <2>2. k \in Kinds /\ Early(s, HeadOf(s, k, h), f)
    BY <1>2, <1>4, <2>1 DEF FirstHit
  <2>3. PICK looked : looked = conversation_lookup_hashtable(s, k, h, f)
    OBVIOUS
  <2>4. InOrder(looked.s, {}) /\ KeepsConvs(s, looked.s) /\ LatestOf(s, k, h, f, looked.conv)
    BY <2>2, <2>3, LookupInOrder
  <2>5. \E d \in DOMAIN s.convs : OfKey(s, d, k, h) /\ SetupFrame(s, d) <= f
    BY <2>2, HeadEarly
  <2>6. looked.conv \in DOMAIN looked.s.convs
    BY <2>4, <2>5 DEF LatestOf, KeepsConvs
  <2>7. r = Matched(looked.s, looked.conv, tries[i])
    BY <1>4, <2>1, <2>3 DEF MatchedBy
  <2>8. (KeysGuarded(looked.s, r.s) => InOrder(r.s, {})) /\ r.conv # NULL
    BY <2>4, <2>6, <2>7, MatchedInOrder
  <2> QED  BY <2>4, <2>8, GuardedAfter
<1>5. \/ r = [s |-> s, conv |-> NULL]
      \/ \E i : /\ FirstHit(s, f, tries, i)
                /\ r = MatchedBy(conversation_lookup_hashtable(s, tries[i].kind, tries[i].key, f), tries[i])
  BY <1>1, <1>2, FindWildcardIs
<1> QED  BY <1>3, <1>4, <1>5

\* find_conversation keeps the tables in order.
LEMMA FindInOrder ==
    ASSUME NEW s, InOrder(s, {}), NEW f \in Nat, NEW p, NEW options,
           NEW r, r = find_conversation(s, f, p, options)
    PROVE  /\ KeysGuarded(s, r.s) => InOrder(r.s, {})
           /\ r.conv = NULL => InOrder(r.s, {}) /\ KeepsConvs(s, r.s)
<1>1. PICK exact : exact = (options \cap {"NO_ADDR_B", "NO_PORT_B", "NO_PORT_X", "EXACT_EXCLUDED"} = {})
  OBVIOUS
<1>2. PICK first : first = IF exact THEN FindExact(s, f, p) ELSE [s |-> s, conv |-> NULL]
  OBVIOUS
<1>3. InOrder(first.s, {}) /\ KeepsConvs(s, first.s)
  <2>1. CASE first = FindExact(s, f, p)
    BY <2>1, FindExactInOrder
  <2>2. CASE first = [s |-> s, conv |-> NULL]
    BY <2>2 DEF KeepsConvs, InOrder
  <2> QED  BY <1>2, <2>1, <2>2
<1>4. PICK w : w = FindWildcard(first.s, f, WildcardTries(p, options))
  OBVIOUS
<1>5. /\ KeysGuarded(first.s, w.s) => InOrder(w.s, {})
      /\ w.conv = NULL => w.s = first.s
  BY <1>3, <1>4, FindWildcardInOrder
<1>6. r = first \/ r = w
  BY <1>1, <1>2, <1>4 DEF find_conversation, FindAfter
<1>7. CASE r = first
  BY <1>3, <1>7
<1>8. CASE r = w
  <2>1. KeysGuarded(s, w.s) => KeysGuarded(first.s, w.s)
    BY <1>3, GuardedAfter
  <2> QED  BY <1>3, <1>5, <1>8, <2>1
<1> QED  BY <1>6, <1>7, <1>8

\* find_or_create_conversation keeps the tables in order.
LEMMA FindOrCreateInOrder ==
    ASSUME NEW s, InOrder(s, {}), NEW f \in Nat, NEW p,
           NEW r, r = find_or_create_conversation(s, f, p), KeysGuarded(s, r.s)
    PROVE  InOrder(r.s, {})
<1>1. PICK x : x = find_conversation(s, f, p, {})
  OBVIOUS
<1>2. PICK o : o = {}
  OBVIOUS
<1>3. x = find_conversation(s, f, p, o)
  BY <1>1, <1>2
<1>4. /\ KeysGuarded(s, x.s) => InOrder(x.s, {})
      /\ x.conv = NULL => InOrder(x.s, {}) /\ KeepsConvs(s, x.s)
  BY <1>3, FindInOrder
<1>5. CASE x.conv # NULL
  <2>1. r = x
    BY <1>1, <1>5 DEF find_or_create_conversation, OrCreate
  <2> QED  BY <1>4, <2>1
<1>6. CASE x.conv = NULL
  <2>1. PICK t, none : none = NULL /\ t = conversation_new(x.s, f, p, o, none)
    OBVIOUS
  <2>2. r.s = t
    BY <1>1, <1>2, <1>6, <2>1 DEF find_or_create_conversation, OrCreate
  <2>3. InOrder(x.s, {})
    BY <1>4, <1>6
  <2>4. InOrder(t, {})
    BY <2>1, <2>3, NewInOrder
  <2> QED  BY <2>2, <2>4
<1> QED  BY <1>5, <1>6

-----------------------------------------------------------------------------
\* The tables are in order, at least until a wildcard is replaced that other
\* conversations have too.
TablesInv ==
    /\ packets \in Seq(Packets)
    /\ (SharedWildcards /\ filled) \/ InOrder(st, {})

\* The empty tables are in order.
LEMMA InitInOrder ==
    ASSUME Init
    PROVE  TablesInv
<1>1. st.convs = << >> /\ st = [convs |-> st.convs, tables |-> st.tables]
  BY DEF Init, InitTables
<1>2. << >> = [i \in 1 .. 0 |-> << >>[i]] /\ DOMAIN << >> = {}
  OBVIOUS
<1>3. IsState(st)
  BY <1>1, <1>2 DEF IsState
<1>4. DOMAIN st.convs = {}
  BY <1>1, <1>2
<1>5. st.tables = [k \in Kinds |-> {}]
  BY DEF Init, InitTables
<1>6. st.tables = [k \in Kinds |-> st.tables[k]] /\ \A k \in Kinds : st.tables[k] = {}
  BY <1>5
<1>7. InOrder(st, {})
  BY <1>3, <1>4, <1>6 DEF InOrder
<1>8. packets \in Seq(Packets)
  BY DEF Init
<1> QED  BY <1>7, <1>8 DEF TablesInv

\* Where the tables stay in order only keys that can be replaced are.
LEMMA BecomesGuarded ==
    ASSUME NEW t, Becomes(t), ~(SharedWildcards /\ filled')
    PROVE  KeysGuarded(st, t) /\ st' = t /\ ~(SharedWildcards /\ filled)
<1>1. CASE ~SharedWildcards
  BY <1>1 DEF Becomes, Allowed, KeysGuarded
<1>2. CASE ~filled'
  BY <1>2 DEF Becomes, Filled, KeysGuarded
<1> QED  BY <1>1, <1>2

\* Every step keeps the tables in order.
LEMMA TablesStep ==
    ASSUME TablesInv, [Next]_vars
    PROVE  TablesInv'
<1>1. Len(packets) \in Nat /\ frame \in Nat /\ frame + 1 \in Nat
  BY DEF TablesInv, frame
<1>2. packets' \in Seq(Packets)
  <2>1. CASE FirstPass
    BY <2>1 DEF FirstPass, TablesInv
  <2>2. CASE packets' = packets
    BY <2>2 DEF TablesInv
  <2> QED  BY <2>1, <2>2 DEF Next, SetUp, Search, LaterPass, vars
<1>3. ASSUME ~(SharedWildcards /\ filled')
      PROVE  InOrder(st', {})
  <2>1. ~(SharedWildcards /\ filled) => InOrder(st, {})
    BY DEF TablesInv
  <2>2. CASE FirstPass
    <3>1. PICK p \in Packets : \E r \in {find_or_create_conversation(st, frame + 1, p)} : Becomes(r.s)
      BY <2>2 DEF FirstPass
    <3>2. PICK r : r = find_or_create_conversation(st, frame + 1, p) /\ Becomes(r.s)
      BY <3>1
    <3>3. KeysGuarded(st, r.s) /\ st' = r.s /\ InOrder(st, {})
      BY <1>3, <2>1, <3>2, BecomesGuarded
    <3> QED  BY <1>1, <3>2, <3>3, FindOrCreateInOrder
  <2>3. CASE SetUp
    <3>1. PICK u \in SetUps : Becomes(conversation_new(st, frame, u.ends, u.options, NULL))
      BY <2>3 DEF SetUp
    <3>2. PICK t, none : none = NULL /\ t = conversation_new(st, frame, u.ends, u.options, none)
      OBVIOUS
    <3>3. st' = t /\ InOrder(st, {})
      BY <1>3, <2>1, <3>1, <3>2, BecomesGuarded
    <3> QED  BY <1>1, <3>2, <3>3, NewInOrder
  <2>4. CASE Search
    <3>1. PICK p \in Packets, options \in Searches :
             Becomes(find_conversation(st, frame, p, options).s)
      BY <2>4 DEF Search
    <3>2. PICK r : r = find_conversation(st, frame, p, options)
      OBVIOUS
    <3>3. KeysGuarded(st, r.s) /\ st' = r.s /\ InOrder(st, {})
      BY <1>3, <2>1, <3>1, <3>2, BecomesGuarded
    <3> QED  BY <1>1, <3>2, <3>3, FindInOrder
  <2>5. CASE LaterPass
    <3>1. PICK f \in 1 .. frame : Becomes(find_or_create_conversation(st, f, packets[f]).s)
      BY <2>5 DEF LaterPass
    <3>2. PICK r : r = find_or_create_conversation(st, f, packets[f])
      OBVIOUS
    <3>3. KeysGuarded(st, r.s) /\ st' = r.s /\ InOrder(st, {})
      BY <1>3, <2>1, <3>1, <3>2, BecomesGuarded
    <3>4. f \in Nat
      BY <1>1
    <3> QED  BY <3>2, <3>3, <3>4, FindOrCreateInOrder
  <2>6. CASE UNCHANGED vars
    <3>1. st' = st /\ filled' = filled
      BY <2>6 DEF vars
    <3> QED  BY <1>3, <2>1, <3>1
  <2> QED  BY <2>2, <2>3, <2>4, <2>5, <2>6 DEF Next
<1> QED  BY <1>2, <1>3 DEF TablesInv

\* What it means that the tables are in order.
LEMMA InOrderMeans ==
    ASSUME InOrder(st, {}), packets \in Seq(Packets)
    PROVE  ChainsOrdered /\ Reachable /\ LookupExact
<1>1. ChainsOrdered
  <2> SUFFICES ASSUME NEW kind \in Kinds, NEW e \in st.tables[kind], NEW chain, chain = From(st, e.head)
               PROVE  /\ \A i \in DOMAIN chain : st.convs[chain[i]].key = st.convs[e.head].key
                      /\ \A i \in 1 .. Len(chain) - 1 : SetupFrame(st, chain[i]) <= SetupFrame(st, chain[i+1])
                      /\ st.convs[e.head].last = chain[Len(chain)]
    BY DEF ChainsOrdered
  <2>1. IsEntry(st, kind, e, chain, {})
    BY DEF InOrder
  <2>2. /\ Len(chain) \in Nat /\ DOMAIN chain = 1 .. Len(chain) /\ chain[1] = e.head
        /\ 1 \in 1 .. Len(chain)
    BY <2>1 DEF IsEntry, IsChain
  <2>3. \A i \in DOMAIN chain : st.convs[chain[i]].key = st.convs[e.head].key
    <3>1. \A i \in 1 .. Len(chain) : st.convs[chain[i]].key = e.hash
      BY <2>1 DEF IsEntry
    <3> QED  BY <2>2, <3>1
  <2>4. ASSUME NEW i \in 1 .. Len(chain) - 1
        PROVE  SetupFrame(st, chain[i]) <= SetupFrame(st, chain[i+1])
    <3>1. i \in 1 .. Len(chain) /\ i + 1 \in 1 .. Len(chain) /\ i <= i + 1
      BY <2>2
    <3> QED  BY <2>1, <3>1 DEF IsEntry
  <2>5. st.convs[e.head].last = chain[Len(chain)]
    BY <2>1, <2>2 DEF IsEntry
  <2> QED  BY <2>3, <2>4, <2>5
<1>2. Reachable
  <2> SUFFICES ASSUME NEW c \in DOMAIN st.convs, NEW k, k = KindOf(st.convs[c].options),
                      NEW chain, chain = From(st, HeadOf(st, k, st.convs[c].key))
               PROVE  \E i \in DOMAIN chain : chain[i] = c
    BY DEF Reachable, Convs
  <2>1. k \in Kinds /\ InTable(st, c)
    BY KindOfIsKind DEF InOrder
  <2>2. PICK e \in st.tables[k] : /\ e.hash = st.convs[c].key
                                  /\ \E i \in 1 .. Len(From(st, e.head)) : From(st, e.head)[i] = c
    BY <2>1 DEF InTable
  <2>3. chain = From(st, e.head)
    BY <2>1, <2>2, EntryOfKey
  <2>4. DOMAIN chain = 1 .. Len(chain)
    BY <2>1, <2>3 DEF InOrder, IsEntry, IsChain
  <2> QED  BY <2>2, <2>3, <2>4
<1>3. LookupExact
  <2> DEFINE KeyFor(c) == st.convs[c].key
             Kind(c) == KindOf(st.convs[c].options)
             Match(c, f) == conversation_lookup_hashtable(st, Kind(c), KeyFor(c), f).conv
             EarlyOf(c, f) == {d \in SameKey(st, c) : /\ KindOf(st.convs[d].options) = Kind(c)
                                                     /\ SetupFrame(st, d) <= f}
             Good(early, match) == IF early = {} THEN match = NULL
                                   ELSE /\ match \in early
                                        /\ \A d \in early : SetupFrame(st, d) <= SetupFrame(st, match)
  <2> SUFFICES ASSUME NEW c \in Convs, NEW f \in 1 .. frame
               PROVE  Good(EarlyOf(c, f), Match(c, f))
    BY Zenon DEF LookupExact
  <2> PICK key, k, match, early : /\ key = KeyFor(c) /\ k = Kind(c) /\ match = Match(c, f)
                                  /\ early = EarlyOf(c, f)
    OBVIOUS
  <2> SUFFICES Good(early, match)
    OBVIOUS
  <2>1. f \in Nat /\ k \in Kinds
    BY KindOfIsKind DEF frame
  <2>0. c \in DOMAIN st.convs
    BY DEF Convs
  <2>2. PICK r : r = conversation_lookup_hashtable(st, k, key, f)
    OBVIOUS
  <2>3. LatestOf(st, k, key, f, match)
    BY <2>1, <2>2, LookupInOrder
  <2>4. \A d : d \in early <=> d \in DOMAIN st.convs /\ OfKey(st, d, k, key) /\ SetupFrame(st, d) <= f
    BY <2>0 DEF SameKey, OfKey
  <2> QED  BY <2>3, <2>4 DEF LatestOf
<1> QED  BY <1>1, <1>2, <1>3

\* The tables stay in order.
LEMMA TablesInvHolds == Spec => []TablesInv
BY InitInOrder, TablesStep, PTL DEF Spec

\* conversation_insert_into_hashtable and conversation_remove_from_hashtable keep
\* every chain sorted by setup frame, of one key only, with an end that its head
\* knows, however wildcards are replaced that no other conversation has.
THEOREM ChainsStayOrdered ==
    ASSUME ~SharedWildcards
    PROVE  Spec => []ChainsOrdered
<1>1. TablesInv => ChainsOrdered
  BY InOrderMeans DEF TablesInv
<1> QED  BY <1>1, TablesInvHolds, PTL

\* Every conversation stays in the chain its key leads to, in the table its wildcards
\* belong to: conversation_set_addr2 and conversation_set_port2 lose neither the
\* conversation they move nor another.
THEOREM ConversationsStayReachable ==
    ASSUME ~SharedWildcards
    PROVE  Spec => []Reachable
<1>1. TablesInv => Reachable
  BY InOrderMeans DEF TablesInv
<1> QED  BY <1>1, TablesInvHolds, PTL

\* conversation_lookup_hashtable gives the latest conversation that has the key and was
\* set up by the frame, whatever the head of the chain remembers of earlier lookups.
THEOREM LookupsStayExact ==
    ASSUME ~SharedWildcards
    PROVE  Spec => []LookupExact
<1>1. TablesInv => LookupExact
  BY InOrderMeans DEF TablesInv
<1> QED  BY <1>1, TablesInvHolds, PTL

\* A change that lookups alone make is no use of a wildcard, before another or not.
LEMMA FilledAfter ==
    ASSUME NEW s, NEW t, NEW u, IsState(s), KeepsConvs(s, t), ~Filled(s, u)
    PROVE  ~Filled(t, u)
<1>1. Len(s.convs) = Len(t.convs)
  <2>1. /\ DOMAIN s.convs = 1 .. Len(s.convs) /\ DOMAIN t.convs = 1 .. Len(t.convs)
        /\ Len(s.convs) \in Nat /\ Len(t.convs) \in Nat
    BY ConvNumbers DEF KeepsConvs
  <2> QED  BY <2>1, IntervalEnd DEF KeepsConvs
<1> QED  BY <1>1 DEF KeepsConvs, Filled

\* Lookups use no wildcard and make no conversation.
LEMMA KeptNotFilled ==
    ASSUME NEW s, NEW t, IsState(s), KeepsConvs(s, t)
    PROVE  ~Filled(s, t) /\ Len(t.convs) = Len(s.convs)
<1>1. /\ DOMAIN s.convs = 1 .. Len(s.convs) /\ DOMAIN t.convs = 1 .. Len(t.convs)
      /\ Len(s.convs) \in Nat /\ Len(t.convs) \in Nat
  BY ConvNumbers DEF KeepsConvs
<1>2. Len(t.convs) = Len(s.convs)
  BY <1>1, IntervalEnd DEF KeepsConvs
<1>3. ~(Len(t.convs) > Len(s.convs))
  BY <1>1, <1>2
<1> QED  BY <1>2, <1>3 DEF KeepsConvs, Filled

\* A match that uses no wildcard changes nothing.
LEMMA MatchedUnfilled ==
    ASSUME NEW s, InOrder(s, {}), NEW c \in DOMAIN s.convs, NEW try,
           NEW r, r = Matched(s, c, try), ~Filled(s, r.s)
    PROVE  r.s = s /\ r.conv = c
<1>1. PICK conv : conv = s.convs[c]
  OBVIOUS
<1>2. CASE r = [s |-> s, conv |-> c]
  BY <1>2
<1>3. CASE r = conversation_create_from_template(s, c, try.addr2, try.port2)
  <2>1. CASE conv.options \cap {"NO_ADDR2", "NO_PORT2"} = {}
    BY <1>1, <1>3, <2>1 DEF conversation_create_from_template
  <2>2. CASE conv.options \cap {"NO_ADDR2", "NO_PORT2"} # {}
    <3>1. CASE r.s = s
      <4>1. PICK key : key = conv.key
        OBVIOUS
      <4>2. PICK ends, options :
           /\ ends = [addr_a |-> key.addr1, port_a |-> key.port1,
                      addr_b |-> IF key.addr2 = Any THEN try.addr2 ELSE key.addr2,
                      port_b |-> IF key.port2 = Any THEN try.port2 ELSE key.port2]
           /\ options = conv.options \ {"CONVERSATION_TEMPLATE", "NO_ADDR2", "NO_PORT2"}
        OBVIOUS
      <4>3. PICK f \in Nat : f = conv.setup_frame
        BY <1>1 DEF InOrder
      <4>4. PICK t : t = conversation_new(s, f, ends, options, c)
        OBVIOUS
      <4>5. r.s = t
        BY <1>1, <1>3, <2>2, <4>1, <4>2, <4>3, <4>4 DEF conversation_create_from_template
      <4>6. PICK v : v = [setup_frame |-> f, options |-> options,
                      key |-> KeyOf(ends, options), template |-> c,
                      next |-> NULL, last |-> NULL, latest_found |-> NULL]
        OBVIOUS
      <4>7. Added(s, t, Len(s.convs) + 1, v)
        BY <4>4, <4>6, NewInOrder
      <4>8. FALSE
        BY <3>1, <4>5, <4>7 DEF Added
      <4> QED  BY <4>8
    <3>2. ASSUME NEW v, Added(s, r.s, Len(s.convs) + 1, v), v.template = c
          PROVE  FALSE
      <4>1. PICK t : t = r.s
        OBVIOUS
      <4>2. Len(s.convs) \in Nat /\ c # NULL
        BY ConvNumbers DEF InOrder, NULL
      <4>3. Len(t.convs) = Len(s.convs) + 1 /\ t.convs[Len(s.convs) + 1].template = c
        BY <3>2, <4>1 DEF Added
      <4>4. Len(t.convs) > Len(s.convs) /\ t.convs[Len(t.convs)].template # NULL
        BY <4>2, <4>3
      <4> QED  BY <4>1, <4>4 DEF Filled
    <3>3. r.s = s \/ \E v : Added(s, r.s, Len(s.convs) + 1, v) /\ v.template = c
      BY <1>3, TemplateInOrder
    <3> QED  BY <3>1, <3>2, <3>3
  <2> QED  BY <2>1, <2>2
<1>4. CASE r = [s |-> conversation_set_port2(conversation_set_addr2(s, c, try.addr2), c, try.port2),
                conv |-> c]
  <2>1. PICK addr, port : addr = try.addr2 /\ port = try.port2
    OBVIOUS
  <2>2. PICK a : a = conversation_set_addr2(s, c, addr)
    OBVIOUS
  <2>3. PICK t : t = conversation_set_port2(a, c, port)
    OBVIOUS
  <2>4. r.s = t /\ r.conv = c
    BY <1>4, <2>1, <2>2, <2>3
  <2>5. t.convs[c].key = s.convs[c].key
    BY <2>4 DEF Filled
  <2>6. KeyIs(s, t, c, KeyGiven(s.convs[c], addr, port), OptionsGiven(s.convs[c], addr, port))
    BY <2>2, <2>3, <2>5, EndsSet
  <2>7. KeyGiven(conv, addr, port) = conv.key /\ WildcardsFit(conv)
    BY <1>1, <2>5, <2>6 DEF KeyIs, InOrder
  <2>8. /\ conv.key.addr2 = IF GivenAddr(conv, addr) THEN addr ELSE conv.key.addr2
        /\ conv.key.port2 = IF GivenPort(conv, port) THEN port ELSE conv.key.port2
    BY <2>7 DEF KeyGiven, Key
  <2>9. ~GivenAddr(conv, addr) /\ ~GivenPort(conv, port)
    BY <2>7, <2>8 DEF WildcardsFit, GivenAddr, GivenPort
  <2>10. a = s
    BY <1>1, <2>2, <2>9 DEF conversation_set_addr2, GivenAddr
  <2>11. t = s
    BY <1>1, <2>3, <2>9, <2>10 DEF conversation_set_port2, GivenPort
  <2> QED  BY <2>4, <2>11
<1> QED  BY <1>2, <1>3, <1>4 DEF Matched

\* What the wildcard lookups find when none is used.
WildcardOf(s, f, tries, c) ==
    \/ NoHit(s, f, tries) /\ c = NULL
    \/ \E i : FirstHit(s, f, tries, i) /\ LatestOf(s, tries[i].kind, tries[i].key, f, c) /\ c # NULL

\* The wildcard lookups, when none is used.
LEMMA FindWildcardUnfilled ==
    ASSUME NEW s, InOrder(s, {}), NEW f \in Nat, NEW p, NEW options,
           NEW tries, tries = WildcardTries(p, options),
           NEW r, r = FindWildcard(s, f, tries), ~Filled(s, r.s)
    PROVE  KeepsConvs(s, r.s) /\ InOrder(r.s, {}) /\ WildcardOf(s, f, tries, r.conv)
<1>1. IsState(s) /\ KeepsConvs(s, s)
  BY DEF InOrder, KeepsConvs
<1>2. DOMAIN tries = 1 .. 8 /\ \A i \in 1 .. 8 : tries[i].kind \in Kinds
  BY TryKinds
<1>3. CASE NoHit(s, f, tries) /\ r = [s |-> s, conv |-> NULL]
  <2>1. r.s = s /\ r.conv = NULL
    BY <1>3
  <2> QED  BY <1>1, <1>3, <2>1 DEF WildcardOf
<1>4. ASSUME NEW i, FirstHit(s, f, tries, i),
             r = MatchedBy(conversation_lookup_hashtable(s, tries[i].kind, tries[i].key, f), tries[i])
      PROVE  KeepsConvs(s, r.s) /\ InOrder(r.s, {}) /\ WildcardOf(s, f, tries, r.conv)
  <2>1. PICK k, h : k = tries[i].kind /\ h = tries[i].key
    OBVIOUS
  <2>2. k \in Kinds /\ Early(s, HeadOf(s, k, h), f)
    BY <1>2, <1>4, <2>1 DEF FirstHit
  <2>3. PICK looked : looked = conversation_lookup_hashtable(s, k, h, f)
    OBVIOUS
  <2>4. InOrder(looked.s, {}) /\ KeepsConvs(s, looked.s) /\ LatestOf(s, k, h, f, looked.conv)
    BY <2>2, <2>3, LookupInOrder
  <2>5. \E d \in DOMAIN s.convs : OfKey(s, d, k, h) /\ SetupFrame(s, d) <= f
    BY <2>2, HeadEarly
  <2>6. looked.conv \in DOMAIN looked.s.convs /\ looked.conv # NULL
    BY <2>4, <2>5 DEF LatestOf, KeepsConvs
  <2>7. r = Matched(looked.s, looked.conv, tries[i])
    BY <1>4, <2>1, <2>3 DEF MatchedBy
  <2>8. ~Filled(looked.s, r.s)
    BY <1>1, <2>4, FilledAfter
  <2>9. r.s = looked.s /\ r.conv = looked.conv
    BY <2>4, <2>6, <2>7, <2>8, MatchedUnfilled
  <2> QED  BY <1>4, <2>1, <2>4, <2>6, <2>9 DEF WildcardOf
<1>5. \/ NoHit(s, f, tries) /\ r = [s |-> s, conv |-> NULL]
      \/ \E i : /\ FirstHit(s, f, tries, i)
                /\ r = MatchedBy(conversation_lookup_hashtable(s, tries[i].kind, tries[i].key, f), tries[i])
  BY <1>2, FindWildcardIs
<1> QED  BY <1>3, <1>4, <1>5

\* What it finds is the same where lookups alone are made.
LEMMA WildcardOfKept ==
    ASSUME NEW s, NEW t, InOrder(s, {}), InOrder(t, {}), KeepsConvs(s, t), NEW f \in Nat,
           NEW p, NEW options, NEW tries, tries = WildcardTries(p, options),
           NEW c, WildcardOf(t, f, tries, c)
    PROVE  WildcardOf(s, f, tries, c)
<1>1. DOMAIN tries = 1 .. 8 /\ \A i \in 1 .. 8 : tries[i].kind \in Kinds
  BY TryKinds
<1>2. \A i \in DOMAIN tries : Early(t, HeadOf(t, tries[i].kind, tries[i].key), f)
                                 <=> Early(s, HeadOf(s, tries[i].kind, tries[i].key), f)
  <2> TAKE i \in DOMAIN tries
  <2>1. PICK k, h : k = tries[i].kind /\ h = tries[i].key
    OBVIOUS
  <2>2. k \in Kinds
    BY <1>1, <2>1
  <2>3. /\ Early(t, HeadOf(t, k, h), f) <=>
              \E d \in DOMAIN t.convs : OfKey(t, d, k, h) /\ SetupFrame(t, d) <= f
        /\ Early(s, HeadOf(s, k, h), f) <=>
              \E d \in DOMAIN s.convs : OfKey(s, d, k, h) /\ SetupFrame(s, d) <= f
    BY <2>2, HeadEarly
  <2>4. DOMAIN s.convs = DOMAIN t.convs /\ \A d \in DOMAIN s.convs :
           (OfKey(t, d, k, h) <=> OfKey(s, d, k, h)) /\ SetupFrame(t, d) = SetupFrame(s, d)
    BY DEF KeepsConvs, OfKey, SetupFrame
  <2> QED  BY <2>1, <2>3, <2>4
<1>3. CASE NoHit(t, f, tries) /\ c = NULL
  BY <1>2, <1>3 DEF NoHit, WildcardOf
<1>4. ASSUME NEW i, FirstHit(t, f, tries, i), LatestOf(t, tries[i].kind, tries[i].key, f, c), c # NULL
      PROVE  WildcardOf(s, f, tries, c)
  <2>1. FirstHit(s, f, tries, i)
    BY <1>2, <1>4 DEF FirstHit
  <2>2. LatestOf(s, tries[i].kind, tries[i].key, f, c)
    BY <1>4, LatestOfKept
  <2> QED  BY <1>4, <2>1, <2>2 DEF WildcardOf
<1> QED  BY <1>3, <1>4 DEF WildcardOf

\* What find_conversation finds when no wildcard is used.
FindUnfilledIs(s, f, p, options, c) ==
    \E x : /\ \/ ExactOf(s, f, p, x)
              \/ options # {} /\ x = NULL
           /\ \/ x # NULL /\ c = x
              \/ x = NULL /\ options # {} /\ c = NULL
              \/ x = NULL /\ WildcardOf(s, f, WildcardTries(p, options), c)

\* find_conversation, when no wildcard is used.
LEMMA FindUnfilled ==
    ASSUME NEW s, InOrder(s, {}), NEW f \in Nat, NEW p, NEW options,
           NEW r, r = find_conversation(s, f, p, options), ~Filled(s, r.s)
    PROVE  KeepsConvs(s, r.s) /\ FindUnfilledIs(s, f, p, options, r.conv)
<1>1. PICK exact : exact = (options \cap {"NO_ADDR_B", "NO_PORT_B", "NO_PORT_X", "EXACT_EXCLUDED"} = {})
  OBVIOUS
<1>2. PICK first : first = IF exact THEN FindExact(s, f, p) ELSE [s |-> s, conv |-> NULL]
  OBVIOUS
<1>3. /\ InOrder(first.s, {}) /\ KeepsConvs(s, first.s)
      /\ ExactOf(s, f, p, first.conv) \/ (options # {} /\ first.conv = NULL)
  <2>1. CASE first = FindExact(s, f, p)
    BY <2>1, FindExactInOrder
  <2>2. CASE ~exact /\ first = [s |-> s, conv |-> NULL]
    BY <1>1, <2>2 DEF KeepsConvs, InOrder
  <2> QED  BY <1>2, <2>1, <2>2
<1>4. PICK tries : tries = WildcardTries(p, options)
  OBVIOUS
<1>5. PICK w : w = FindWildcard(first.s, f, tries)
  OBVIOUS
<1>6. /\ r = IF first.conv # NULL \/ (exact /\ "NO_GREEDY" \in options) THEN first ELSE w
  BY <1>1, <1>2, <1>4, <1>5 DEF find_conversation, FindAfter
<1>7. CASE r = first /\ first.conv # NULL
  BY <1>3, <1>7 DEF FindUnfilledIs
<1>8. CASE r = first /\ first.conv = NULL /\ "NO_GREEDY" \in options
  <2>1. options # {}
    BY <1>8
  <2> QED  BY <1>3, <1>8, <2>1 DEF FindUnfilledIs
<1>9. CASE r = w /\ first.conv = NULL
  <2>1. IsState(s) /\ ~Filled(first.s, w.s)
    BY <1>3, <1>9, FilledAfter DEF InOrder
  <2>2. KeepsConvs(first.s, w.s) /\ WildcardOf(first.s, f, tries, w.conv)
    BY <1>3, <1>4, <1>5, <2>1, FindWildcardUnfilled
  <2>3. WildcardOf(s, f, tries, w.conv)
    BY <1>3, <1>4, <2>2, WildcardOfKept
  <2>4. KeepsConvs(s, w.s)
    BY <1>3, <2>2, KeepsConvsTransitive
  <2> QED  BY <1>3, <1>4, <1>9, <2>3, <2>4 DEF FindUnfilledIs
<1> QED  BY <1>6, <1>7, <1>8, <1>9

\* Is a conversation what the j-th lookup of a search without options looks for?  The
\* exact lookups in both directions are the first.
LooksFor(s, d, p, j) ==
    \/ /\ j = 0
       /\ \/ OfKey(s, d, "exact_addr_port", KeyThere(p))
          \/ OfKey(s, d, "exact_addr_port", KeyBack(p))
    \/ /\ j \in 1 .. 8 /\ WildcardTries(p, {})[j].made
       /\ OfKey(s, d, WildcardTries(p, {})[j].kind, WildcardTries(p, {})[j].key)

\* Those that were set up by the frame.
Candidates(s, f, p, j) == {d \in DOMAIN s.convs : LooksFor(s, d, p, j) /\ SetupFrame(s, d) <= f}

\* The first lookup that has candidates finds the latest of them.
FoundBy(s, f, p, c) ==
    \E j \in 0 .. 8 : /\ c \in Candidates(s, f, p, j)
                      /\ \A i \in 0 .. 8 : i < j => Candidates(s, f, p, i) = {}
                      /\ \A d \in Candidates(s, f, p, j) : SetupFrame(s, d) <= SetupFrame(s, c)

\* Younger conversations are set up later.
Aged(s) == \A c, d \in DOMAIN s.convs : c <= d => SetupFrame(s, c) <= SetupFrame(s, d)

\* The exact lookups.
LEMMA ExactFound ==
    ASSUME NEW s, InOrder(s, {}), Aged(s), NEW f \in Nat, NEW p, NEW c, ExactOf(s, f, p, c)
    PROVE  /\ c = NULL => Candidates(s, f, p, 0) = {}
           /\ c # NULL => /\ c \in Candidates(s, f, p, 0)
                          /\ \A d \in Candidates(s, f, p, 0) : SetupFrame(s, d) <= SetupFrame(s, c)
<1>1. PICK x, y : /\ LatestOf(s, "exact_addr_port", KeyThere(p), f, x)
                  /\ LatestOf(s, "exact_addr_port", KeyBack(p), f, y)
                  /\ c = IF y > x THEN y ELSE x
  BY DEF ExactOf
<1>2. DOMAIN s.convs \subseteq Nat \ {0}
  BY ConvNumbers DEF InOrder
<1>3. x \in Nat /\ y \in Nat /\ (x # 0 => x \in DOMAIN s.convs) /\ (y # 0 => y \in DOMAIN s.convs)
  BY <1>1, <1>2 DEF LatestOf, NULL
<1>4. c \in Nat /\ x <= c /\ y <= c /\ (c = x \/ c = y)
  BY <1>1, <1>3
<1>5. \A d \in Candidates(s, f, p, 0) :
         \/ x # NULL /\ SetupFrame(s, d) <= SetupFrame(s, x)
         \/ y # NULL /\ SetupFrame(s, d) <= SetupFrame(s, y)
  BY <1>1 DEF Candidates, LooksFor, LatestOf
<1>6. ASSUME c = NULL
      PROVE  Candidates(s, f, p, 0) = {}
  <2>1. x = NULL /\ y = NULL
    BY <1>3, <1>4, <1>6 DEF NULL
  <2> QED  BY <1>5, <2>1
<1>7. ASSUME c # NULL
      PROVE  /\ c \in Candidates(s, f, p, 0)
             /\ \A d \in Candidates(s, f, p, 0) : SetupFrame(s, d) <= SetupFrame(s, c)
  <2>1. c \in DOMAIN s.convs
    BY <1>3, <1>4, <1>7 DEF NULL
  <2>2. c \in Candidates(s, f, p, 0)
    BY <1>1, <1>4, <1>7, <2>1 DEF Candidates, LooksFor, LatestOf
  <2>3. /\ x # NULL => SetupFrame(s, x) <= SetupFrame(s, c)
        /\ y # NULL => SetupFrame(s, y) <= SetupFrame(s, c)
    BY <1>3, <1>4, <2>1 DEF Aged, NULL
  <2>4. \A d \in DOMAIN s.convs : SetupFrame(s, d) \in Nat
    BY DEF InOrder, SetupFrame
  <2>5. ASSUME NEW d \in Candidates(s, f, p, 0)
        PROVE  SetupFrame(s, d) <= SetupFrame(s, c)
    <3>1. d \in DOMAIN s.convs /\ SetupFrame(s, d) \in Nat /\ SetupFrame(s, c) \in Nat
      BY <2>1, <2>4 DEF Candidates
    <3>2. CASE x # NULL /\ SetupFrame(s, d) <= SetupFrame(s, x)
      <4>1. SetupFrame(s, x) \in Nat /\ SetupFrame(s, x) <= SetupFrame(s, c)
        BY <1>3, <2>3, <2>4, <3>2 DEF NULL
      <4> QED  BY <3>1, <3>2, <4>1
    <3>3. CASE y # NULL /\ SetupFrame(s, d) <= SetupFrame(s, y)
      <4>1. SetupFrame(s, y) \in Nat /\ SetupFrame(s, y) <= SetupFrame(s, c)
        BY <1>3, <2>3, <2>4, <3>3 DEF NULL
      <4> QED  BY <3>1, <3>3, <4>1
    <3> QED  BY <1>5, <3>2, <3>3
  <2> QED  BY <2>2, <2>5
<1> QED  BY <1>6, <1>7

\* What find_conversation finds without options when no wildcard is used.
LEMMA FindFirst ==
    ASSUME NEW s, InOrder(s, {}), Aged(s), NEW f \in Nat, NEW p, NEW o, o = {},
           NEW c, FindUnfilledIs(s, f, p, o, c)
    PROVE  \/ c = NULL /\ \A j \in 0 .. 8 : Candidates(s, f, p, j) = {}
           \/ c # NULL /\ FoundBy(s, f, p, c)
<1>1. PICK tries : tries = WildcardTries(p, o)
  OBVIOUS
<1>2. DOMAIN tries = 1 .. 8 /\ \A i \in 1 .. 8 : tries[i].kind \in Kinds
  BY <1>1, TryKinds
<1>3. PICK x : /\ ExactOf(s, f, p, x)
               /\ (x # NULL /\ c = x) \/ (x = NULL /\ WildcardOf(s, f, tries, c))
  BY <1>1 DEF FindUnfilledIs
<1>4. /\ x = NULL => Candidates(s, f, p, 0) = {}
      /\ x # NULL => /\ x \in Candidates(s, f, p, 0)
                     /\ \A d \in Candidates(s, f, p, 0) : SetupFrame(s, d) <= SetupFrame(s, x)
  BY <1>3, ExactFound
<1>5. ASSUME NEW j \in 1 .. 8
      PROVE  Candidates(s, f, p, j) # {} <=>
                tries[j].made /\ Early(s, HeadOf(s, tries[j].kind, tries[j].key), f)
  <2>1. PICK k, h : k = tries[j].kind /\ h = tries[j].key
    OBVIOUS
  <2>2. Early(s, HeadOf(s, k, h), f) <=>
           \E d \in DOMAIN s.convs : OfKey(s, d, k, h) /\ SetupFrame(s, d) <= f
    BY <1>2, <2>1, HeadEarly
  <2>3. \A d : LooksFor(s, d, p, j) <=> tries[j].made /\ OfKey(s, d, k, h)
    BY <1>1, <2>1 DEF LooksFor
  <2> QED  BY <2>1, <2>2, <2>3 DEF Candidates
<1>6. CASE x # NULL
  <2>1. c = x
    BY <1>3, <1>6
  <2>2. 0 \in 0 .. 8 /\ \A i \in 0 .. 8 : ~(i < 0)
    OBVIOUS
  <2>3. FoundBy(s, f, p, c)
    BY <1>4, <1>6, <2>1, <2>2 DEF FoundBy
  <2> QED  BY <1>6, <2>1, <2>3
<1>7. CASE x = NULL /\ NoHit(s, f, tries) /\ c = NULL
  <2>1. ASSUME NEW j \in 0 .. 8
        PROVE  Candidates(s, f, p, j) = {}
    <3>1. CASE j = 0
      BY <1>4, <1>7, <3>1
    <3>2. CASE j \in 1 .. 8
      BY <1>2, <1>5, <1>7, <3>2 DEF NoHit
    <3> QED  BY <3>1, <3>2
  <2> QED  BY <1>7, <2>1
<1>8. ASSUME x = NULL, c # NULL, NEW i, FirstHit(s, f, tries, i),
             LatestOf(s, tries[i].kind, tries[i].key, f, c)
      PROVE  FoundBy(s, f, p, c)
  <2>1. i \in 1 .. 8 /\ i \in 0 .. 8 /\ tries[i].made
    BY <1>2, <1>8 DEF FirstHit
  <2>2. PICK k, h : k = tries[i].kind /\ h = tries[i].key
    OBVIOUS
  <2>3. \A d : LooksFor(s, d, p, i) <=> OfKey(s, d, k, h)
    BY <1>1, <2>1, <2>2 DEF LooksFor
  <2>4. c \in Candidates(s, f, p, i)
    BY <1>8, <2>2, <2>3 DEF Candidates, LatestOf
  <2>5. \A d \in Candidates(s, f, p, i) : SetupFrame(s, d) <= SetupFrame(s, c)
    BY <1>8, <2>2, <2>3 DEF Candidates, LatestOf
  <2>6. ASSUME NEW j \in 0 .. 8, j < i
        PROVE  Candidates(s, f, p, j) = {}
    <3>1. CASE j = 0
      BY <1>4, <1>8, <3>1
    <3>2. CASE j \in 1 .. 8
      BY <1>2, <1>5, <1>8, <2>6, <3>2 DEF FirstHit
    <3> QED  BY <3>1, <3>2
  <2> QED  BY <2>1, <2>4, <2>5, <2>6 DEF FoundBy
<1>9. \/ x # NULL
      \/ x = NULL /\ NoHit(s, f, tries) /\ c = NULL
      \/ x = NULL /\ c # NULL /\ \E i : /\ FirstHit(s, f, tries, i)
                                        /\ LatestOf(s, tries[i].kind, tries[i].key, f, c)
  BY <1>3 DEF WildcardOf
<1> QED  BY <1>6, <1>7, <1>8, <1>9

-----------------------------------------------------------------------------
\* A frame has its conversation: what is searched for before it was set up in that
\* very frame, and what is searched for with it is not later, or was too.
Settled(s, f, p, c) ==
    \E j \in 0 .. 8 : /\ c \in Candidates(s, f, p, j)
                      /\ \A i \in 0 .. 8 : i < j =>
                            \A d \in Candidates(s, f, p, i) : SetupFrame(s, d) = f
                      /\ \A d \in Candidates(s, f, p, j) :
                            SetupFrame(s, d) <= SetupFrame(s, c) \/ SetupFrame(s, d) = f

\* Another search gives a conversation of the same setup frame, or of that frame.
LEMMA SettledFinds ==
    ASSUME NEW s, InOrder(s, {}), NEW f \in Nat, NEW p, NEW c, Settled(s, f, p, c), NEW x,
           \/ x = NULL /\ \A j \in 0 .. 8 : Candidates(s, f, p, j) = {}
           \/ x # NULL /\ FoundBy(s, f, p, x)
    PROVE  x # NULL /\ SetupFrame(s, x) \in {SetupFrame(s, c), f}
<1>1. PICK j \in 0 .. 8 : /\ c \in Candidates(s, f, p, j)
                          /\ \A i \in 0 .. 8 : i < j =>
                                \A d \in Candidates(s, f, p, i) : SetupFrame(s, d) = f
                          /\ \A d \in Candidates(s, f, p, j) :
                                SetupFrame(s, d) <= SetupFrame(s, c) \/ SetupFrame(s, d) = f
  BY DEF Settled
<1>2. x # NULL /\ FoundBy(s, f, p, x)
  BY <1>1
<1>3. PICK i \in 0 .. 8 : /\ x \in Candidates(s, f, p, i)
                          /\ \A l \in 0 .. 8 : l < i => Candidates(s, f, p, l) = {}
                          /\ \A d \in Candidates(s, f, p, i) : SetupFrame(s, d) <= SetupFrame(s, x)
  BY <1>2 DEF FoundBy
<1>4. ~(j < i)
  BY <1>1, <1>3
<1>5. CASE i < j
  BY <1>1, <1>2, <1>3, <1>5
<1>6. CASE i = j
  <2>1. SetupFrame(s, c) <= SetupFrame(s, x)
    BY <1>1, <1>3, <1>6
  <2>2. SetupFrame(s, x) <= SetupFrame(s, c) \/ SetupFrame(s, x) = f
    BY <1>1, <1>3, <1>6
  <2>3. SetupFrame(s, x) \in Nat /\ SetupFrame(s, c) \in Nat
    BY <1>1, <1>3 DEF Candidates, InOrder, SetupFrame
  <2> QED  BY <1>2, <2>1, <2>2, <2>3
<1> QED  BY <1>4, <1>5, <1>6

\* A frame keeps its conversation when the keys stay.
LEMMA SettledKept ==
    ASSUME NEW s, NEW t, KeepsConvs(s, t), NEW f, NEW p, NEW c
    PROVE  /\ Settled(s, f, p, c) => Settled(t, f, p, c)
           /\ FoundBy(s, f, p, c) => FoundBy(t, f, p, c)
           /\ Aged(s) => Aged(t)
           /\ \A j \in 0 .. 8 : Candidates(t, f, p, j) = Candidates(s, f, p, j)
<1>1. DOMAIN t.convs = DOMAIN s.convs /\ \A d \in DOMAIN s.convs : SetupFrame(t, d) = SetupFrame(s, d)
  BY DEF KeepsConvs, SetupFrame
<1>2. \A d \in DOMAIN s.convs : \A k, h : OfKey(t, d, k, h) <=> OfKey(s, d, k, h)
  BY DEF KeepsConvs, OfKey
<1>3. \A j \in 0 .. 8 : \A d \in DOMAIN s.convs : LooksFor(t, d, p, j) <=> LooksFor(s, d, p, j)
  BY <1>2 DEF LooksFor
<1>4. \A j \in 0 .. 8 : Candidates(t, f, p, j) = Candidates(s, f, p, j)
  BY <1>1, <1>3 DEF Candidates
<1>5. \A j \in 0 .. 8 : \A d \in Candidates(s, f, p, j) : SetupFrame(t, d) = SetupFrame(s, d)
  BY <1>1 DEF Candidates
<1>6. Settled(s, f, p, c) => Settled(t, f, p, c)
  <2> SUFFICES ASSUME Settled(s, f, p, c) PROVE Settled(t, f, p, c)
    OBVIOUS
  <2>1. PICK j \in 0 .. 8 : /\ c \in Candidates(s, f, p, j)
                            /\ \A i \in 0 .. 8 : i < j =>
                                  \A d \in Candidates(s, f, p, i) : SetupFrame(s, d) = f
                            /\ \A d \in Candidates(s, f, p, j) :
                                  SetupFrame(s, d) <= SetupFrame(s, c) \/ SetupFrame(s, d) = f
    BY DEF Settled
  <2>2. /\ c \in Candidates(t, f, p, j)
        /\ \A i \in 0 .. 8 : i < j =>
              \A d \in Candidates(t, f, p, i) : SetupFrame(t, d) = f
        /\ \A d \in Candidates(t, f, p, j) :
              SetupFrame(t, d) <= SetupFrame(t, c) \/ SetupFrame(t, d) = f
    BY <1>4, <1>5, <2>1
  <2> QED  BY <2>2 DEF Settled
<1>7. FoundBy(s, f, p, c) => FoundBy(t, f, p, c)
  BY <1>4, <1>5 DEF FoundBy
<1>8. Aged(s) => Aged(t)
  BY <1>1 DEF Aged
<1> QED  BY <1>4, <1>6, <1>7, <1>8

\* A conversation of this or a later frame is added.
LEMMA SettledAdded ==
    ASSUME NEW s, NEW t, InOrder(s, {}), NEW n, NEW v, Added(s, t, n, v), v.setup_frame \in Nat,
           NEW f \in Nat, f <= v.setup_frame, NEW p, NEW c, Settled(s, f, p, c)
    PROVE  Settled(t, f, p, c)
<1>1. /\ \A d \in DOMAIN s.convs : SetupFrame(t, d) = SetupFrame(s, d)
      /\ DOMAIN t.convs = DOMAIN s.convs \cup {n} /\ SetupFrame(t, n) = v.setup_frame
  BY DEF Added, SetupFrame
<1>2. \A d \in DOMAIN s.convs : \A k, h : OfKey(t, d, k, h) <=> OfKey(s, d, k, h)
  BY DEF Added, OfKey
<1>3. \A j \in 0 .. 8 : \A d \in DOMAIN s.convs : LooksFor(t, d, p, j) <=> LooksFor(s, d, p, j)
  BY <1>2 DEF LooksFor
<1>4. \A j \in 0 .. 8 : \A d \in DOMAIN s.convs :
         d \in Candidates(t, f, p, j) <=> d \in Candidates(s, f, p, j)
  BY <1>1, <1>3 DEF Candidates
<1>5. \A j \in 0 .. 8 : \A d \in Candidates(t, f, p, j) :
         d \in DOMAIN s.convs \/ SetupFrame(t, d) = f
  BY <1>1 DEF Candidates
<1>6. PICK j \in 0 .. 8 : /\ c \in Candidates(s, f, p, j)
                          /\ \A i \in 0 .. 8 : i < j =>
                                \A d \in Candidates(s, f, p, i) : SetupFrame(s, d) = f
                          /\ \A d \in Candidates(s, f, p, j) :
                                SetupFrame(s, d) <= SetupFrame(s, c) \/ SetupFrame(s, d) = f
  BY DEF Settled
<1>7. c \in DOMAIN s.convs /\ c \in Candidates(t, f, p, j)
  BY <1>4, <1>6 DEF Candidates
<1>8. ASSUME NEW i \in 0 .. 8, i < j, NEW d \in Candidates(t, f, p, i)
      PROVE  SetupFrame(t, d) = f
  BY <1>1, <1>4, <1>5, <1>6, <1>8
<1>9. ASSUME NEW d \in Candidates(t, f, p, j)
      PROVE  SetupFrame(t, d) <= SetupFrame(t, c) \/ SetupFrame(t, d) = f
  BY <1>1, <1>4, <1>5, <1>6, <1>7
<1> QED  BY <1>7, <1>8, <1>9 DEF Settled

\* A conversation is added after lookups.
LEMMA AddedAfter ==
    ASSUME NEW s, IsState(s), NEW a, NEW t, KeepsConvs(s, a), NEW v, Added(a, t, Len(a.convs) + 1, v)
    PROVE  Added(s, t, Len(s.convs) + 1, v)
<1>1. Len(a.convs) = Len(s.convs)
  BY KeptNotFilled
<1>2. Added(a, t, Len(s.convs) + 1, v)
  BY <1>1
<1> QED  BY <1>1, <1>2 DEF Added, KeepsConvs

\* A conversation that find_or_create_conversation sets up for a packet.
SetUpFor(s, t, f, p, n) ==
    \E v : /\ Added(s, t, n, v) /\ v.setup_frame = f /\ v.key = KeyThere(p) /\ v.options = {}
           /\ v.template = NULL

\* find_or_create_conversation where the search finds nothing.
LEMMA CreatedFor ==
    ASSUME NEW s, InOrder(s, {}), NEW f \in Nat, NEW p,
           NEW x, x = find_conversation(s, f, p, {}), x.conv = NULL,
           NEW r, r = find_or_create_conversation(s, f, p)
    PROVE  /\ InOrder(r.s, {}) /\ r.conv = Len(s.convs) + 1 /\ KeepsConvs(s, x.s)
           /\ SetUpFor(s, r.s, f, p, Len(s.convs) + 1)
<1>1. PICK o, none : o = {} /\ none = NULL
  OBVIOUS
<1>2. x = find_conversation(s, f, p, o)
  BY <1>1
<1>3. InOrder(x.s, {}) /\ KeepsConvs(s, x.s)
  BY <1>2, FindInOrder
<1>4. IsState(s) /\ Len(x.s.convs) = Len(s.convs)
  BY <1>3, KeptNotFilled DEF InOrder
<1>5. PICK t : t = conversation_new(x.s, f, p, o, none)
  OBVIOUS
<1>6. r.s = t /\ r.conv = Len(s.convs) + 1
  BY <1>1, <1>4, <1>5 DEF find_or_create_conversation, OrCreate
<1>7. PICK v : v = [setup_frame |-> f, options |-> o, key |-> KeyOf(p, o), template |-> none,
                    next |-> NULL, last |-> NULL, latest_found |-> NULL]
  OBVIOUS
<1>8. InOrder(t, {}) /\ Added(x.s, t, Len(x.s.convs) + 1, v)
  BY <1>3, <1>5, <1>7, NewInOrder
<1>9. Added(s, t, Len(s.convs) + 1, v)
  BY <1>3, <1>4, <1>8, AddedAfter
<1>10. KeyOf(p, o) = KeyThere(p)
  <2>1. KindOf(o) = "exact_addr_port"
    BY <1>1 DEF KindOf
  <2> QED  BY <2>1 DEF KeyOf, KeyThere
<1>11. v.setup_frame = f /\ v.key = KeyThere(p) /\ v.options = {} /\ v.template = NULL
  BY <1>1, <1>7, <1>10
<1> QED  BY <1>3, <1>6, <1>8, <1>9, <1>11 DEF SetUpFor

\* What find_or_create_conversation does when no wildcard is used.
LEMMA FindOrCreateUnfilled ==
    ASSUME NEW s, InOrder(s, {}), Aged(s), NEW f \in Nat, NEW p,
           NEW r, r = find_or_create_conversation(s, f, p), ~Filled(s, r.s)
    PROVE  \/ KeepsConvs(s, r.s) /\ FoundBy(s, f, p, r.conv)
           \/ /\ SetUpFor(s, r.s, f, p, Len(s.convs) + 1) /\ r.conv = Len(s.convs) + 1
              /\ \A j \in 0 .. 8 : Candidates(s, f, p, j) = {}
<1>1. PICK o : o = {}
  OBVIOUS
<1>2. PICK x : x = find_conversation(s, f, p, o)
  OBVIOUS
<1>3. x = find_conversation(s, f, p, {})
  BY <1>1, <1>2
<1>4. CASE x.conv # NULL
  <2>1. r = x
    BY <1>3, <1>4 DEF find_or_create_conversation, OrCreate
  <2>2. KeepsConvs(s, x.s) /\ FindUnfilledIs(s, f, p, o, x.conv)
    BY <1>2, <2>1, FindUnfilled
  <2>3. FoundBy(s, f, p, x.conv)
    BY <1>1, <1>4, <2>2, FindFirst
  <2> QED  BY <2>1, <2>2, <2>3
<1>5. CASE x.conv = NULL
  <2>1. /\ r.conv = Len(s.convs) + 1 /\ KeepsConvs(s, x.s)
        /\ SetUpFor(s, r.s, f, p, Len(s.convs) + 1)
    BY <1>3, <1>5, CreatedFor
  <2>2. ~Filled(s, x.s)
    BY <2>1, KeptNotFilled DEF InOrder
  <2>3. FindUnfilledIs(s, f, p, o, x.conv)
    BY <1>2, <2>2, FindUnfilled
  <2>4. \A j \in 0 .. 8 : Candidates(s, f, p, j) = {}
    BY <1>1, <1>5, <2>3, FindFirst
  <2> QED  BY <2>1, <2>4
<1> QED  BY <1>4, <1>5

\* A frame that has found, or been given, its conversation has it.
LEMMA FoundSettled ==
    ASSUME NEW s, NEW f, NEW p, NEW c, FoundBy(s, f, p, c)
    PROVE  Settled(s, f, p, c)
<1>1. PICK j \in 0 .. 8 : /\ c \in Candidates(s, f, p, j)
                          /\ \A i \in 0 .. 8 : i < j => Candidates(s, f, p, i) = {}
                          /\ \A d \in Candidates(s, f, p, j) : SetupFrame(s, d) <= SetupFrame(s, c)
  BY DEF FoundBy
<1>2. \A i \in 0 .. 8 : i < j => \A d \in Candidates(s, f, p, i) : SetupFrame(s, d) = f
  BY <1>1
<1> QED  BY <1>1, <1>2 DEF Settled

\* A frame for which a conversation was made has it.
LEMMA CreatedSettled ==
    ASSUME NEW s, InOrder(s, {}), NEW t, NEW f \in Nat, NEW p, NEW n, SetUpFor(s, t, f, p, n),
           \A j \in 0 .. 8 : Candidates(s, f, p, j) = {}
    PROVE  Settled(t, f, p, n)
<1>1. PICK v : /\ Added(s, t, n, v) /\ v.setup_frame = f /\ v.key = KeyThere(p) /\ v.options = {}
  BY DEF SetUpFor
<1>2. /\ \A d \in DOMAIN s.convs : SetupFrame(t, d) = SetupFrame(s, d)
      /\ DOMAIN t.convs = DOMAIN s.convs \cup {n} /\ SetupFrame(t, n) = f
  BY <1>1 DEF Added, SetupFrame
<1>3. \A d \in DOMAIN s.convs : \A k, h : OfKey(t, d, k, h) <=> OfKey(s, d, k, h)
  BY <1>1 DEF Added, OfKey
<1>4. \A d \in DOMAIN s.convs : LooksFor(t, d, p, 0) <=> LooksFor(s, d, p, 0)
  BY <1>3 DEF LooksFor
<1>5. OfKey(t, n, "exact_addr_port", KeyThere(p))
  <2>1. t.convs[n].key = KeyThere(p) /\ t.convs[n].options = {}
    BY <1>1 DEF Added
  <2>2. KindOf(t.convs[n].options) = "exact_addr_port"
    BY <2>1 DEF KindOf
  <2> QED  BY <2>1, <2>2 DEF OfKey
<1>6. n \in Candidates(t, f, p, 0)
  BY <1>2, <1>5 DEF Candidates, LooksFor
<1>7. \A d \in Candidates(t, f, p, 0) : SetupFrame(t, d) = f
  <2> SUFFICES ASSUME NEW d \in Candidates(t, f, p, 0), d # n PROVE FALSE
    BY <1>2
  <2>1. d \in DOMAIN s.convs
    BY <1>2 DEF Candidates
  <2>2. d \in Candidates(s, f, p, 0)
    BY <1>2, <1>4, <2>1 DEF Candidates
  <2>3. 0 \in 0 .. 8
    OBVIOUS
  <2> QED  BY <2>2, <2>3
<1>8. 0 \in 0 .. 8 /\ \A i \in 0 .. 8 : ~(i < 0)
  OBVIOUS
<1> QED  BY <1>6, <1>7, <1>8 DEF Settled

\* A conversation of the last frame is added.
Recent(s, f) == Aged(s) /\ \A d \in DOMAIN s.convs : SetupFrame(s, d) <= f

\* A conversation of the current frame is set up by no later one.
LEMMA RecentAdded ==
    ASSUME NEW s, InOrder(s, {}), NEW t, NEW n, NEW v, Added(s, t, n, v),
           NEW f \in Nat, NEW g \in Nat, f <= g, v.setup_frame = g, Recent(s, f)
    PROVE  Recent(t, g)
<1>1. /\ \A d \in DOMAIN s.convs : SetupFrame(t, d) = SetupFrame(s, d)
      /\ DOMAIN t.convs = DOMAIN s.convs \cup {n} /\ SetupFrame(t, n) = g
  BY DEF Added, SetupFrame
<1>2. \A d \in DOMAIN s.convs : SetupFrame(t, d) \in Nat /\ SetupFrame(t, d) <= g
  BY <1>1 DEF InOrder, SetupFrame, Recent
<1>3. \A d \in DOMAIN s.convs : ~(n <= d)
  <2>1. Len(s.convs) \in Nat /\ DOMAIN s.convs = 1 .. Len(s.convs) /\ n = Len(s.convs) + 1
    BY ConvNumbers DEF InOrder, Added
  <2> QED  BY <2>1
<1>4. \A d \in DOMAIN t.convs : SetupFrame(t, d) <= g
  BY <1>1, <1>2
<1>5. ASSUME NEW c \in DOMAIN t.convs, NEW d \in DOMAIN t.convs, c <= d
      PROVE  SetupFrame(t, c) <= SetupFrame(t, d)
  <2>1. CASE d = n
    BY <1>1, <1>4, <2>1
  <2>2. CASE d # n
    <3>1. d \in DOMAIN s.convs /\ c \in DOMAIN s.convs
      BY <1>1, <1>3, <1>5, <2>2
    <3> QED  BY <1>1, <1>5, <3>1 DEF Recent, Aged
  <2> QED  BY <2>1, <2>2
<1> QED  BY <1>4, <1>5 DEF Recent, Aged

\* Lookups change no setup frame.
LEMMA RecentKept ==
    ASSUME NEW s, InOrder(s, {}), NEW t, KeepsConvs(s, t), NEW f \in Nat, NEW g \in Nat, f <= g, Recent(s, f)
    PROVE  Recent(t, g)
<1>1. /\ DOMAIN t.convs = DOMAIN s.convs
      /\ \A d \in DOMAIN s.convs : SetupFrame(t, d) = SetupFrame(s, d) /\ SetupFrame(s, d) \in Nat
  BY DEF KeepsConvs, SetupFrame, InOrder
<1> QED  BY <1>1 DEF Recent, Aged

\* As long as no wildcard is used every frame has its conversation.
PassInv ==
    ~filled => /\ found \in Seq(Nat) /\ Len(found) = Len(packets)
               /\ Recent(st, frame)
               /\ \A f \in 1 .. frame : Settled(st, f, packets[f], found[f])

\* A sequence that is longer by one.
LEMMA AppendedTo ==
    ASSUME NEW S, NEW q \in Seq(S), NEW n, n = Len(q), NEW x \in S, NEW r, r = Append(q, x)
    PROVE  r \in Seq(S) /\ Len(r) = n + 1 /\ r[n+1] = x /\ \A i \in 1 .. n : r[i] = q[i]
OBVIOUS

\* A frame more.
LEMMA FrameMore ==
    ASSUME NEW ps, ps \in Seq(Packets), NEW fs, fs \in Seq(Nat), NEW n \in Nat, n = Len(ps), n = Len(fs),
           NEW p \in Packets, NEW c \in Nat, NEW qs, qs = Append(ps, p), NEW gs, gs = Append(fs, c),
           NEW t, \A f \in 1 .. n : Settled(t, f, ps[f], fs[f]), Settled(t, n + 1, p, c)
    PROVE  /\ gs \in Seq(Nat) /\ Len(gs) = n + 1 /\ Len(qs) = n + 1
           /\ \A f \in 1 .. n + 1 : Settled(t, f, qs[f], gs[f])
<1>1. gs \in Seq(Nat) /\ Len(gs) = n + 1 /\ gs[n+1] = c /\ \A f \in 1 .. n : gs[f] = fs[f]
  BY AppendedTo
<1>2. Len(qs) = n + 1 /\ qs[n+1] = p /\ \A f \in 1 .. n : qs[f] = ps[f]
  <2>1. PICK S : S = Packets
    OBVIOUS
  <2>2. /\ ps \in Seq(S) /\ p \in S /\ n = Len(ps) /\ qs = Append(ps, p)
    BY <2>1
  <2>3. qs \in Seq(S) /\ Len(qs) = n + 1 /\ qs[n+1] = p /\ \A f \in 1 .. n : qs[f] = ps[f]
    BY ONLY <2>2, AppendedTo
  <2> QED  BY <2>3
<1>3. \A f \in 1 .. n + 1 : f \in 1 .. n \/ f = n + 1
  OBVIOUS
<1> QED  BY <1>1, <1>2, <1>3

\* Before the first frame.
LEMMA PassInit ==
    ASSUME Init
    PROVE  PassInv
<1>1. DOMAIN st.convs = {} /\ packets = << >> /\ found = << >>
  BY DEF Init, InitTables
<1>2. frame = 0 /\ 1 .. 0 = {}
  BY <1>1 DEF frame
<1>3. found \in Seq(Nat) /\ Len(found) = Len(packets)
  BY <1>1
<1> QED  BY <1>1, <1>2, <1>3 DEF PassInv, Recent, Aged

\* Every step leaves the conversations of the earlier frames where they are found.
LEMMA PassStep ==
    ASSUME TablesInv, PassInv, [Next]_vars
    PROVE  PassInv'
<1> SUFFICES ASSUME ~filled'
             PROVE  /\ found' \in Seq(Nat) /\ Len(found') = Len(packets')
                    /\ Recent(st', frame')
                    /\ \A f \in 1 .. frame' : Settled(st', f, packets'[f], found'[f])
  BY DEF PassInv
<1>1. PICK n \in Nat : n = Len(packets)
  BY DEF TablesInv
<1>2. frame = n /\ frame' = Len(packets') /\ packets \in Seq(Packets)
  BY <1>1 DEF frame, TablesInv
<1>3. ~filled
  BY DEF Next, FirstPass, SetUp, Search, LaterPass, Becomes, vars
<1>4. /\ InOrder(st, {}) /\ IsState(st) /\ found \in Seq(Nat) /\ Len(found) = n /\ Recent(st, n)
      /\ \A f \in 1 .. n : Settled(st, f, packets[f], found[f])
  BY <1>1, <1>2, <1>3 DEF TablesInv, PassInv, InOrder
<1>5. Aged(st)
  BY <1>4 DEF Recent
<1>6. ASSUME NEW t, KeepsConvs(st, t)
      PROVE  Recent(t, n) /\ Recent(t, n + 1) /\ \A f \in 1 .. n : Settled(t, f, packets[f], found[f])
  <2>1. n <= n /\ n <= n + 1 /\ n + 1 \in Nat
    OBVIOUS
  <2> QED  BY <1>4, <1>6, <2>1, RecentKept, SettledKept
<1>7. ASSUME NEW t, NEW m, NEW v, NEW g \in Nat, Added(st, t, m, v), v.setup_frame = g, n <= g
      PROVE  Recent(t, g) /\ \A f \in 1 .. n : Settled(t, f, packets[f], found[f])
  <2>1. \A f \in 1 .. n : f \in Nat /\ f <= v.setup_frame
    BY <1>7
  <2> QED  BY <1>4, <1>7, <2>1, RecentAdded, SettledAdded
<1>8. CASE packets' = packets /\ found' = found /\ KeepsConvs(st, st')
  BY <1>1, <1>2, <1>4, <1>6, <1>8
<1>9. CASE FirstPass
  <2>1. PICK p \in Packets : \E r \in {find_or_create_conversation(st, frame + 1, p)} :
           /\ Becomes(r.s) /\ packets' = Append(packets, p) /\ found' = Append(found, r.conv)
    BY <1>9 DEF FirstPass
  <2>2. PICK r : /\ r = find_or_create_conversation(st, n + 1, p) /\ Becomes(r.s)
                 /\ packets' = Append(packets, p) /\ found' = Append(found, r.conv)
    <3>1. frame + 1 = n + 1
      BY <1>2
    <3> QED  BY <2>1, <3>1
  <2>3. st' = r.s /\ ~Filled(st, r.s)
    BY <2>2 DEF Becomes
  <2>4. PICK g \in Nat : g = n + 1 /\ n <= g
    OBVIOUS
  <2>5. \/ KeepsConvs(st, r.s) /\ FoundBy(st, g, p, r.conv)
        \/ /\ SetUpFor(st, r.s, g, p, Len(st.convs) + 1) /\ r.conv = Len(st.convs) + 1
           /\ \A j \in 0 .. 8 : Candidates(st, g, p, j) = {}
    BY <1>4, <1>5, <2>2, <2>3, <2>4, FindOrCreateUnfilled
  <2>6. /\ r.conv \in Nat /\ Recent(st', g) /\ Settled(st', g, p, r.conv)
        /\ \A f \in 1 .. n : Settled(st', f, packets[f], found[f])
    <3>1. DOMAIN st.convs \subseteq Nat /\ Len(st.convs) + 1 \in Nat
      BY <1>4, ConvNumbers
    <3>2. CASE KeepsConvs(st, r.s) /\ FoundBy(st, g, p, r.conv)
      <4>1. Settled(r.s, g, p, r.conv)
        BY <3>2, SettledKept, FoundSettled
      <4>2. r.conv \in DOMAIN st.convs
        BY <3>2 DEF FoundBy, Candidates
      <4> QED  BY <1>6, <2>3, <2>4, <3>1, <3>2, <4>1, <4>2
    <3>3. CASE /\ SetUpFor(st, r.s, g, p, Len(st.convs) + 1) /\ r.conv = Len(st.convs) + 1
               /\ \A j \in 0 .. 8 : Candidates(st, g, p, j) = {}
      <4>1. Settled(r.s, g, p, r.conv)
        BY <1>4, <3>3, CreatedSettled
      <4>2. PICK v : Added(st, r.s, Len(st.convs) + 1, v) /\ v.setup_frame = g
        BY <3>3 DEF SetUpFor
      <4>3. Recent(r.s, g) /\ \A f \in 1 .. n : Settled(r.s, f, packets[f], found[f])
        BY <1>7, <2>4, <4>2
      <4> QED  BY <2>3, <3>1, <3>3, <4>1, <4>3
    <3> QED  BY <2>5, <3>2, <3>3
  <2>7. /\ found' \in Seq(Nat) /\ Len(found') = n + 1 /\ Len(packets') = n + 1
        /\ \A f \in 1 .. n + 1 : Settled(st', f, packets'[f], found'[f])
    BY <1>1, <1>2, <1>4, <2>2, <2>4, <2>6, FrameMore
  <2> QED  BY <1>2, <2>4, <2>6, <2>7
<1>10. CASE SetUp
  <2>1. PICK u \in SetUps : Becomes(conversation_new(st, frame, u.ends, u.options, NULL))
    BY <1>10 DEF SetUp
  <2>2. PICK t, none : none = NULL /\ t = conversation_new(st, n, u.ends, u.options, none)
    OBVIOUS
  <2>3. st' = t
    BY <1>2, <2>1, <2>2 DEF Becomes
  <2>4. PICK v : v = [setup_frame |-> n, options |-> u.options,
                      key |-> KeyOf(u.ends, u.options), template |-> none,
                      next |-> NULL, last |-> NULL, latest_found |-> NULL]
    OBVIOUS
  <2>5. Added(st, t, Len(st.convs) + 1, v) /\ v.setup_frame = n /\ n <= n
    BY <1>4, <2>2, <2>4, NewInOrder
  <2>6. Recent(t, n) /\ \A f \in 1 .. n : Settled(t, f, packets[f], found[f])
    BY <1>7, <2>5
  <2>7. packets' = packets /\ found' = found
    BY <1>10 DEF SetUp
  <2> QED  BY <1>1, <1>2, <1>4, <2>3, <2>6, <2>7
<1>11. CASE Search
  <2>1. PICK p \in Packets, options \in Searches :
           Becomes(find_conversation(st, frame, p, options).s)
    BY <1>11 DEF Search
  <2>2. PICK r : r = find_conversation(st, n, p, options)
    OBVIOUS
  <2>3. st' = r.s /\ ~Filled(st, r.s)
    BY <1>2, <2>1, <2>2 DEF Becomes
  <2>4. KeepsConvs(st, r.s)
    BY <1>4, <2>2, <2>3, FindUnfilled
  <2> QED  BY <1>8, <1>11, <2>3, <2>4 DEF Search
<1>12. CASE LaterPass
  <2>1. PICK f \in 1 .. n : Becomes(find_or_create_conversation(st, f, packets[f]).s)
    BY <1>2, <1>12 DEF LaterPass
  <2>2. PICK p, r : p = packets[f] /\ r = find_or_create_conversation(st, f, p)
    OBVIOUS
  <2>3. st' = r.s /\ ~Filled(st, r.s)
    BY <2>1, <2>2 DEF Becomes
  <2>7. f \in Nat
    OBVIOUS
  <2>4. \/ KeepsConvs(st, r.s)
        \/ \A j \in 0 .. 8 : Candidates(st, f, p, j) = {}
    BY <1>4, <1>5, <2>2, <2>3, <2>7, FindOrCreateUnfilled
  <2>5. Settled(st, f, p, found[f])
    BY <1>4, <2>2
  <2>6. KeepsConvs(st, st')
    BY <2>3, <2>4, <2>5 DEF Settled
  <2> QED  BY <1>8, <1>12, <2>6 DEF LaterPass
<1>13. CASE UNCHANGED vars
  <2>1. st' = st /\ packets' = packets /\ found' = found
    BY <1>13 DEF vars
  <2>2. KeepsConvs(st, st')
    BY <1>4, <2>1 DEF KeepsConvs
  <2> QED  BY <1>8, <2>1, <2>2
<1> QED  BY <1>9, <1>10, <1>11, <1>12, <1>13 DEF Next

\* A frame that has its conversation finds one as old as that again.
LEMMA PassMeans ==
    ASSUME TablesInv, PassInv
    PROVE  SecondPassSame
<1> SUFFICES ASSUME NEW f \in 1 .. frame, NEW r, r = find_conversation(st, f, packets[f], {}),
                    ~filled, ~Filled(st, r.s)
             PROVE  r.conv # NULL /\ SetupFrame(st, r.conv) \in {SetupFrame(st, found[f]), f}
  BY DEF SecondPassSame
<1>1. PICK o, p : o = {} /\ p = packets[f]
  OBVIOUS
<1>2. InOrder(st, {}) /\ Aged(st) /\ Settled(st, f, p, found[f])
  BY <1>1 DEF TablesInv, PassInv, Recent
<1>3. f \in Nat
  BY DEF TablesInv, frame
<1>4. r = find_conversation(st, f, p, o)
  BY <1>1
<1>5. FindUnfilledIs(st, f, p, o, r.conv)
  BY <1>2, <1>3, <1>4, FindUnfilled
<1>6. \/ r.conv = NULL /\ \A j \in 0 .. 8 : Candidates(st, f, p, j) = {}
      \/ r.conv # NULL /\ FoundBy(st, f, p, r.conv)
  BY <1>1, <1>2, <1>3, <1>5, FindFirst
<1> QED  BY <1>2, <1>3, <1>6, SettledFinds

\* find_conversation gives a frame that is visited again, in any order, a conversation
\* as old as the one find_or_create_conversation gave it in the first pass or one that
\* this frame set up, for as long as no wildcard is replaced and no template is used.
THEOREM SecondPassIsSame == Spec => []SecondPassSame
<1>1. Init => TablesInv /\ PassInv
  BY InitInOrder, PassInit
<1>2. TablesInv /\ PassInv /\ [Next]_vars => (TablesInv /\ PassInv)'
  BY TablesStep, PassStep
<1>3. TablesInv /\ PassInv => SecondPassSame
  BY PassMeans
<1> QED  BY <1>1, <1>2, <1>3, PTL DEF Spec

\* What a lookup gives.
Latest(s, k, h, f) == Lookup(s, HeadOf(s, k, h), f)

\* Lookups for a frame give in t what they give in s.
Repeats(s, t, f) == \A k \in Kinds : \A h : Latest(t, k, h, f) = Latest(s, k, h, f)

\* A conversation that is found at a place of a chain is found there again, from the
\* same start on or from that place on.
LEMMA SamePlace ==
    ASSUME NEW s, NEW t, NEW q, NEW n \in Nat, NEW f \in Nat, NEW b \in 1 .. n, NEW a \in 1 .. n,
           NEW i \in 1 .. n, NEW j \in 1 .. n, \A l \in 1 .. n : SetupFrame(s, q[l]) \in Nat,
           \A l \in 1 .. n : SetupFrame(t, q[l]) = SetupFrame(s, q[l]),
           FoundAt(s, q, b, n, f, i), FoundAt(t, q, a, n, f, j), a = b \/ a = i
    PROVE  i = j
<1>1. PICK F : F = [l \in 1 .. n |-> SetupFrame(s, q[l])]
  OBVIOUS
<1>2. \A l \in 1 .. n : F[l] \in Nat /\ SetupFrame(s, q[l]) = F[l] /\ SetupFrame(t, q[l]) = F[l]
  BY <1>1
<1>3. /\ i \in b .. n /\ j \in a .. n /\ b .. n \subseteq 1 .. n /\ a .. n \subseteq 1 .. n
      /\ j \in b .. n /\ (a = b \/ a = i)
  <2>1. i \in b .. n /\ j \in a .. n
    BY DEF FoundAt
  <2> QED  BY <2>1
<1>4. /\ F[i] <= f /\ F[j] <= f
      /\ \A l \in b .. n : (F[l] <= f => F[l] <= F[i]) /\ (F[l] = F[i] => i <= l)
      /\ \A l \in a .. n : (F[l] <= f => F[l] <= F[j]) /\ (F[l] = F[j] => j <= l)
  BY <1>2, <1>3 DEF FoundAt
<1>5. i \in a .. n
  BY <1>3
<1>6. F[i] <= F[j] /\ F[j] <= F[i] /\ F[i] \in Nat /\ F[j] \in Nat
  BY <1>2, <1>3, <1>4, <1>5
<1>7. F[i] = F[j]
  BY <1>6
<1>8. i <= j /\ j <= i
  BY <1>3, <1>4, <1>5, <1>7
<1> QED  BY <1>8

\* A chain is the same when a head remembers another conversation.
LEMMA ChainKept ==
    ASSUME NEW s, NEW t, NEW c, NEW m, FoundIs(s, t, c, m), NEW q, IsChain(s, q)
    PROVE  From(t, q[1]) = q
<1>1. IsState(t) /\ DOMAIN t.convs = DOMAIN s.convs
  BY DEF FoundIs, SameBut, KeepsConvs
<1>2. \A d \in DOMAIN s.convs : t.convs[d].next = s.convs[d].next
  BY DEF FoundIs, SameBut
<1>3. /\ q \in Seq(DOMAIN s.convs) /\ Len(q) \in Nat /\ Len(q) > 0
      /\ Len(q) \in 1 .. Len(q) /\ \A i \in 1 .. Len(q) - 1 : i \in 1 .. Len(q)
  BY DEF IsChain
<1>4. \A i \in 1 .. Len(q) : q[i] \in DOMAIN s.convs
  BY <1>3
<1>5. q[Len(q)] \in DOMAIN s.convs /\ \A i \in 1 .. Len(q) - 1 : q[i] \in DOMAIN s.convs
  BY <1>3, <1>4
<1>6. IsChain(t, q)
  BY <1>1, <1>2, <1>5 DEF IsChain
<1> QED  BY <1>1, <1>6, ChainIsFrom

\* Then a lookup gives the same: in another chain, and in this one if what its head
\* remembers is what a lookup found.
LEMMA LookupSame ==
    ASSUME NEW s, NEW t, InOrder(s, {}), InOrder(t, {}), NEW c, NEW m, FoundIs(s, t, c, m),
           NEW k \in Kinds, NEW e \in s.tables[k], NEW f \in Nat,
           \/ e.head # c
           \/ /\ m = Lookup(s, e.head, f) /\ m # NULL
              /\ ~Early(s, s.convs[e.head].last, f)
    PROVE  Lookup(t, e.head, f) = Lookup(s, e.head, f)
<1>1. PICK q, n, x, y : /\ q = From(s, e.head) /\ n = Len(q)
                        /\ x = Lookup(s, e.head, f) /\ y = Lookup(t, e.head, f)
  OBVIOUS
<1>2. /\ IsState(s) /\ ChainOf(s, e, q, n) /\ IsChain(s, q)
      /\ Early(s, e.head, f) =>
            \E i \in 1 .. n : StartsAt(s, e.head, f, q[i]) /\ SetupFrame(s, q[i]) <= f
  BY <1>1, EntryChain DEF InOrder
<1>3. /\ n \in Nat /\ q[1] = e.head /\ 1 \in 1 .. n /\ n \in 1 .. n /\ s.convs[e.head].last = q[n]
      /\ \A j \in 1 .. n : q[j] \in DOMAIN s.convs /\ q[j] # NULL /\ SetupFrame(s, q[j]) \in Nat
  BY <1>2 DEF ChainOf
<1>4. e \in t.tables[k] /\ q = From(t, e.head)
  <2>1. t.tables = s.tables
    BY DEF FoundIs, SameBut
  <2>2. From(t, q[1]) = q
    BY <1>2, ChainKept
  <2> QED  BY <1>3, <2>1, <2>2
<1>5. /\ IsState(t) /\ ChainOf(t, e, q, n) /\ IsChain(t, q)
      /\ Early(t, e.head, f) =>
            \E i \in 1 .. n : StartsAt(t, e.head, f, q[i]) /\ SetupFrame(t, q[i]) <= f
  BY <1>1, <1>4, EntryChain DEF InOrder
<1>6. \A d \in DOMAIN s.convs : SetupFrame(t, d) = SetupFrame(s, d)
  BY DEF FoundIs, SameBut, KeepsConvs, SetupFrame
<1>7. \A j \in 1 .. n : /\ SetupFrame(t, q[j]) = SetupFrame(s, q[j])
                        /\ Early(t, q[j], f) <=> Early(s, q[j], f)
  BY <1>3, <1>6 DEF Early
<1>8. t.convs[e.head].last = q[n] /\ s.convs[e.head].last = q[n]
  BY <1>2, <1>5 DEF ChainOf
<1>9. /\ Early(t, e.head, f) <=> Early(s, e.head, f)
      /\ Early(t, q[n], f) <=> Early(s, q[n], f)
  BY <1>3, <1>7
<1>10. CASE ~Early(s, e.head, f)
  <2>1. x = NULL /\ y = NULL
    BY <1>1, <1>9, <1>10 DEF Lookup
  <2> QED  BY <1>1, <2>1
<1>11. CASE Early(s, e.head, f) /\ Early(s, q[n], f)
  <2>1. x = q[n] /\ y = q[n]
    BY <1>1, <1>8, <1>9, <1>11 DEF Lookup
  <2> QED  BY <1>1, <2>1
<1>12. CASE Early(s, e.head, f) /\ ~Early(s, q[n], f)
  <2>1. PICK b \in 1 .. n : StartsAt(s, e.head, f, q[b]) /\ SetupFrame(s, q[b]) <= f
    BY <1>2, <1>12
  <2>2. PICK i \in 1 .. n : x = q[i] /\ FoundAt(s, q, b, n, f, i)
    BY <1>1, <1>2, <1>12, <2>1, LookupWalk
  <2>3. PICK a \in 1 .. n : StartsAt(t, e.head, f, q[a]) /\ SetupFrame(t, q[a]) <= f
    BY <1>5, <1>9, <1>12
  <2>4. PICK j \in 1 .. n : y = q[j] /\ FoundAt(t, q, a, n, f, j)
    BY <1>1, <1>5, <1>9, <1>12, <2>3, LookupWalk
  <2>5. \A l, o \in 1 .. n : q[l] = q[o] => l = o
    BY <1>1, <1>2 DEF IsChain
  <2>6. CASE e.head # c
    <3>1. t.convs[e.head].latest_found = s.convs[e.head].latest_found
      BY <1>3, <2>6 DEF FoundIs, SameBut
    <3>2. \/ s.convs[e.head].latest_found = NULL
          \/ \E l \in 1 .. n : s.convs[e.head].latest_found = q[l]
      BY <1>1, <1>3 DEF InOrder, IsEntry
    <3>3. Early(t, s.convs[e.head].latest_found, f) <=> Early(s, s.convs[e.head].latest_found, f)
      BY <1>7, <3>2 DEF Early
    <3>4. q[a] = q[b]
      BY <2>1, <2>3, <3>1, <3>3 DEF StartsAt
    <3>5. a = b
      BY <2>5, <3>4
    <3>6. i = j
      BY <1>3, <1>7, <2>2, <2>4, <3>5, SamePlace
    <3> QED  BY <1>1, <2>2, <2>4, <3>6
  <2>7. CASE e.head = c /\ m = x
    <3>1. t.convs[e.head].latest_found = q[i]
      BY <2>2, <2>7 DEF FoundIs
    <3>2. Early(t, q[i], f)
      BY <1>3, <1>7, <2>2 DEF FoundAt, Early
    <3>3. q[a] = q[i]
      BY <2>3, <3>1, <3>2 DEF StartsAt
    <3>4. a = i
      BY <2>5, <3>3
    <3>5. i = j
      BY <1>3, <1>7, <2>2, <2>4, <3>4, SamePlace
    <3> QED  BY <1>1, <2>2, <2>4, <3>5
  <2> QED  BY <1>1, <2>6, <2>7
<1> QED  BY <1>10, <1>11, <1>12

\* Lookups for a frame repeat after one of them.
LEMMA LookupRepeats ==
    ASSUME NEW s, InOrder(s, {}), NEW k \in Kinds, NEW h, NEW f \in Nat,
           NEW r, r = conversation_lookup_hashtable(s, k, h, f)
    PROVE  Repeats(s, r.s, f) /\ r.conv = Latest(s, k, h, f)
<1>1. PICK head : head = HeadOf(s, k, h)
  OBVIOUS
<1>2. PICK m : m = Lookup(s, head, f)
  OBVIOUS
<1>3. PICK t : t = r.s
  OBVIOUS
<1>4. /\ r.conv = m
      /\ t = IF m = NULL \/ SetupFrame(s, s.convs[head].last) <= f THEN s
             ELSE [s EXCEPT !.convs[head].latest_found = m]
  BY <1>1, <1>2, <1>3 DEF conversation_lookup_hashtable, LookupAt, Remember
<1>5. r.conv = Latest(s, k, h, f)
  BY <1>1, <1>2, <1>4 DEF Latest
<1>6. InOrder(t, {})
  BY <1>3, LookupInOrder
<1>7. CASE t = s
  BY <1>3, <1>5, <1>7 DEF Repeats
<1>8. CASE /\ m # NULL /\ ~(SetupFrame(s, s.convs[head].last) <= f)
           /\ t = [s EXCEPT !.convs[head].latest_found = m]
  <2>1. head \in DOMAIN s.convs
    <3>1. head # NULL
      BY <1>2, <1>8 DEF Lookup, Early
    <3>2. PICK e \in s.tables[k] : e.hash = h
      BY <1>1, <3>1, NoEntryOfKey
    <3> QED  BY <1>1, <3>2, EntryOfKey
  <2>2. FoundIs(s, t, head, m)
    BY <1>8, <2>1, FoundSet DEF InOrder
  <2>3. ~Early(s, s.convs[head].last, f)
    BY <1>8 DEF Early
  <2>4. t.tables = s.tables
    BY <2>2 DEF FoundIs, SameBut
  <2>5. ASSUME NEW l \in Kinds, NEW g
        PROVE  Latest(t, l, g, f) = Latest(s, l, g, f)
    <3>1. CASE \A e \in s.tables[l] : e.hash # g
      <4>1. HeadOf(s, l, g) = NULL /\ HeadOf(t, l, g) = NULL
        BY <2>4, <3>1, NoEntryOfKey
      <4> QED  BY <4>1 DEF Latest, Lookup, Early
    <3>2. ASSUME NEW e \in s.tables[l], e.hash = g
          PROVE  Latest(t, l, g, f) = Latest(s, l, g, f)
      <4>1. e \in t.tables[l]
        BY <2>4
      <4>2. HeadOf(s, l, g) = e.head /\ HeadOf(t, l, g) = e.head
        BY <1>6, <3>2, <4>1, EntryOfKey
      <4>3. Lookup(t, e.head, f) = Lookup(s, e.head, f)
        BY <1>2, <1>6, <1>8, <2>2, <2>3, LookupSame
      <4> QED  BY <4>2, <4>3 DEF Latest
    <3> QED  BY <3>1, <3>2
  <2> QED  BY <1>3, <1>5, <2>5 DEF Repeats
<1> QED  BY <1>4, <1>7, <1>8

\* Options that a dissector may set up a conversation with, or that are left of them.
OptionsFit(o) ==
    /\ ~({"NO_ADDR2", "NO_PORT2_FORCE"} \subseteq o)
    /\ ~({"NO_PORT2", "NO_PORT2_FORCE"} \subseteq o)
    /\ "NO_PORTS" \in o => o = {"NO_PORTS"}

\* All conversations have such options.
OptionsOK(s) == \A c \in DOMAIN s.convs : OptionsFit(s.convs[c].options)

\* A match of which no wildcard is replaced and no template used.
NotUsed(conv, try) ==
    \/ ctype = "UDP"
    \/ try.replace = "never"
    \/ try.replace = "template" /\ "CONVERSATION_TEMPLATE" \notin conv.options
    \/ /\ "CONVERSATION_TEMPLATE" \in conv.options
       /\ conv.options \cap {"NO_ADDR2", "NO_PORT2"} = {}
    \/ /\ "CONVERSATION_TEMPLATE" \notin conv.options
       /\ ~GivenAddr(conv, try.addr2) /\ ~GivenPort(conv, try.port2)

\* A wildcard lookup that may replace the wildcards of a key by those of T.
Completes(try, T) ==
    /\ T = Key(T.addr1, T.port1, T.addr2, T.port2) /\ T.addr2 # Any /\ T.port2 # Any
    /\ \/ /\ try.kind = "no_addr2" /\ try.key = Key(T.addr1, T.port1, Any, T.port2)
          /\ try.addr2 = T.addr2 /\ try.port2 = Any
       \/ /\ try.kind = "no_port2" /\ try.key = Key(T.addr1, T.port1, T.addr2, Any)
          /\ try.addr2 = Any /\ try.port2 = T.port2
       \/ /\ try.kind = "no_addr2_or_port2" /\ try.key = Key(T.addr1, T.port1, Any, Any)
          /\ try.addr2 = T.addr2 /\ try.port2 = T.port2

\* What a wildcard stands for in a lookup for a packet is what the packet has there.
LEMMA TryCompletes ==
    ASSUME NEW p \in Packets, NEW tries, tries = WildcardTries(p, {}), NEW i \in 1 .. 8,
           tries[i].replace # "never"
    PROVE  /\ tries[i].replace \in {"always", "template"}
           /\ Completes(tries[i], KeyThere(p)) \/ Completes(tries[i], KeyBack(p))
<1>1. p.addr_a # Any /\ p.port_a # Any /\ p.addr_b # Any /\ p.port_b # Any
  BY PacketsAssumption
<1>2. PICK T, B : T = KeyThere(p) /\ B = KeyBack(p)
  OBVIOUS
<1>3. /\ T = Key(T.addr1, T.port1, T.addr2, T.port2) /\ T.addr2 # Any /\ T.port2 # Any
      /\ T.addr1 = p.addr_a /\ T.port1 = p.port_a /\ T.addr2 = p.addr_b /\ T.port2 = p.port_b
  BY <1>1, <1>2 DEF KeyThere, Key
<1>4. /\ B = Key(B.addr1, B.port1, B.addr2, B.port2) /\ B.addr2 # Any /\ B.port2 # Any
      /\ B.addr1 = p.addr_b /\ B.port1 = p.port_b /\ B.addr2 = p.addr_a /\ B.port2 = p.port_a
  BY <1>1, <1>2 DEF KeyBack, Key
<1>5. i \in {1, 2, 3, 4, 5, 6, 7, 8}
  OBVIOUS
<1>6. /\ tries[1].replace = "never" /\ tries[3].replace = "never"
      /\ tries[7].replace = "never" /\ tries[8].replace = "never"
      /\ tries[2].replace = "always" /\ tries[4].replace = "always"
      /\ tries[5].replace = "template" /\ tries[6].replace = "always"
  BY DEF WildcardTries, Try
<1>7. Completes(tries[2], B)
  <2>1. /\ tries[2].kind = "no_addr2" /\ tries[2].key = Key(p.addr_b, p.port_b, Any, p.port_a)
        /\ tries[2].addr2 = p.addr_a /\ tries[2].port2 = Any
    BY DEF WildcardTries, Try
  <2> QED  BY <1>4, <2>1 DEF Completes
<1>8. Completes(tries[4], B)
  <2>1. /\ tries[4].kind = "no_port2" /\ tries[4].key = Key(p.addr_b, p.port_b, p.addr_a, Any)
        /\ tries[4].addr2 = Any /\ tries[4].port2 = p.port_a
    BY DEF WildcardTries, Try
  <2> QED  BY <1>4, <2>1 DEF Completes
<1>9. Completes(tries[5], T)
  <2>1. /\ tries[5].kind = "no_addr2_or_port2" /\ tries[5].key = Key(p.addr_a, p.port_a, Any, Any)
        /\ tries[5].addr2 = p.addr_b /\ tries[5].port2 = p.port_b
    BY DEF WildcardTries, Try
  <2> QED  BY <1>3, <2>1 DEF Completes
<1>10. Completes(tries[6], B)
  <2>1. /\ tries[6].kind = "no_addr2_or_port2" /\ tries[6].key = Key(p.addr_b, p.port_b, Any, Any)
        /\ tries[6].addr2 = p.addr_a /\ tries[6].port2 = p.port_a
    BY DEF WildcardTries, Try
  <2> QED  BY <1>4, <2>1 DEF Completes
<1> QED  BY <1>2, <1>5, <1>6, <1>7, <1>8, <1>9, <1>10

\* The wildcards of such options.
LEMMA WildcardOptions ==
    ASSUME NEW o, OptionsFit(o)
    PROVE  /\ KindOf(o) = "no_addr2" =>
                 /\ "NO_ADDR2" \in o /\ "NO_PORT2" \notin o /\ "NO_PORT2_FORCE" \notin o /\ "NO_PORTS" \notin o
           /\ KindOf(o) = "no_port2" =>
                 /\ "NO_ADDR2" \notin o /\ "NO_PORTS" \notin o
                 /\ "NO_PORT2" \in o => "NO_PORT2_FORCE" \notin o
           /\ KindOf(o) = "no_addr2_or_port2" =>
                 /\ "NO_ADDR2" \in o /\ "NO_PORT2" \in o /\ "NO_PORT2_FORCE" \notin o /\ "NO_PORTS" \notin o
<1>1. "NO_PORTS" \in o => /\ "NO_ADDR2" \notin o /\ "NO_PORT2" \notin o /\ "NO_PORT2_FORCE" \notin o
  BY DEF OptionsFit
<1>2. ("NO_ADDR2" \in o \/ "NO_PORT2" \in o) => "NO_PORT2_FORCE" \notin o
  BY DEF OptionsFit
<1> QED  BY <1>1, <1>2 DEF KindOf

\* A conversation without wildcards.
LEMMA ExactKind ==
    ASSUME NEW o, "NO_ADDR2" \notin o, "NO_PORT2" \notin o, "NO_PORT2_FORCE" \notin o, "NO_PORTS" \notin o
    PROVE  KindOf(o) = "exact_addr_port"
BY DEF KindOf

\* Options stay fit when wildcards and the mark of a template are taken from them.
LEMMA FewerOptions ==
    ASSUME NEW o, OptionsFit(o), NEW x, x \subseteq o,
           o \ x \subseteq {"CONVERSATION_TEMPLATE", "NO_ADDR2", "NO_PORT2"}
    PROVE  OptionsFit(x)
<1>1. "NO_PORTS" \in x => o = {"NO_PORTS"} /\ x = {"NO_PORTS"}
  BY DEF OptionsFit
<1> QED  BY <1>1 DEF OptionsFit

\* The ends and the options of a conversation that is made from a template.
EndsFrom(key, try) ==
    [addr_a |-> key.addr1, port_a |-> key.port1,
     addr_b |-> IF key.addr2 = Any THEN try.addr2 ELSE key.addr2,
     port_b |-> IF key.port2 = Any THEN try.port2 ELSE key.port2]
OptionsFrom(options) == options \ {"CONVERSATION_TEMPLATE", "NO_ADDR2", "NO_PORT2"}

\* A template that is used gives a conversation of the ends of the packet.
LEMMA TemplateCompleted ==
    ASSUME NEW conv, OptionsFit(conv.options), NEW try, NEW T, Completes(try, T),
           KindOf(conv.options) = try.kind, conv.key = try.key,
           conv.options \cap {"NO_ADDR2", "NO_PORT2"} # {},
           NEW key, key = conv.key, NEW ends, ends = EndsFrom(key, try),
           NEW o, o = OptionsFrom(conv.options)
    PROVE  KindOf(o) = "exact_addr_port" /\ KeyOf(ends, o) = T
<1>1. PICK O : O = conv.options
  OBVIOUS
<1>2. "NO_PORT2_FORCE" \notin O /\ "NO_PORTS" \notin O
  <2>1. "NO_ADDR2" \in O \/ "NO_PORT2" \in O
    BY <1>1
  <2> QED  BY <1>1, <2>1 DEF OptionsFit
<1>3. KindOf(o) = "exact_addr_port"
  BY <1>1, <1>2, ExactKind DEF OptionsFrom
<1>4. /\ key.addr1 = T.addr1 /\ key.port1 = T.port1
      /\ (key.addr2 = T.addr2 \/ (key.addr2 = Any /\ try.addr2 = T.addr2))
      /\ (key.port2 = T.port2 \/ (key.port2 = Any /\ try.port2 = T.port2))
      /\ T.addr2 # Any /\ T.port2 # Any
  BY DEF Completes, Key
<1>5. ends.addr_a = T.addr1 /\ ends.port_a = T.port1 /\ ends.addr_b = T.addr2 /\ ends.port_b = T.port2
  BY <1>4 DEF EndsFrom
<1>6. KeyOf(ends, o) = Key(ends.addr_a, ends.port_a, ends.addr_b, ends.port_b)
  BY <1>3 DEF KeyOf
<1>7. T = Key(T.addr1, T.port1, T.addr2, T.port2)
  BY DEF Completes
<1> QED  BY <1>3, <1>5, <1>6, <1>7

\* So does a wildcard that is replaced.
LEMMA WildcardCompleted ==
    ASSUME NEW conv, OptionsFit(conv.options), NEW try, NEW T, Completes(try, T),
           KindOf(conv.options) = try.kind, conv.key = try.key,
           GivenAddr(conv, try.addr2) \/ GivenPort(conv, try.port2)
    PROVE  /\ KindOf(OptionsGiven(conv, try.addr2, try.port2)) = "exact_addr_port"
           /\ KeyGiven(conv, try.addr2, try.port2) = T
<1>1. PICK O, o, key : O = conv.options /\ o = OptionsGiven(conv, try.addr2, try.port2) /\ key = conv.key
  OBVIOUS
<1>2. T = Key(T.addr1, T.port1, T.addr2, T.port2) /\ T.addr2 # Any /\ T.port2 # Any
  BY DEF Completes
<1>3. \A x : x \in o <=> x \in O /\ (x = "NO_ADDR2" => ~GivenAddr(conv, try.addr2))
                                 /\ (x = "NO_PORT2" => ~GivenPort(conv, try.port2))
  BY <1>1 DEF OptionsGiven
<1>4. CASE try.kind = "no_addr2"
  <2>1. /\ key = Key(T.addr1, T.port1, Any, T.port2) /\ try.addr2 = T.addr2 /\ try.port2 = Any
    BY <1>1, <1>4 DEF Completes
  <2>2. "NO_ADDR2" \in O /\ "NO_PORT2" \notin O /\ "NO_PORT2_FORCE" \notin O /\ "NO_PORTS" \notin O
    BY <1>1, <1>4, WildcardOptions
  <2>3. GivenAddr(conv, try.addr2) /\ ~GivenPort(conv, try.port2)
    BY <1>1, <1>2, <2>1, <2>2 DEF GivenAddr, GivenPort
  <2>4. KeyGiven(conv, try.addr2, try.port2) = T
    BY <1>1, <1>2, <2>1, <2>3 DEF KeyGiven, Key
  <2>5. KindOf(o) = "exact_addr_port"
    BY <1>3, <2>2, <2>3, ExactKind
  <2> QED  BY <1>1, <2>4, <2>5
<1>5. CASE try.kind = "no_port2"
  <2>1. /\ key = Key(T.addr1, T.port1, T.addr2, Any) /\ try.addr2 = Any /\ try.port2 = T.port2
    BY <1>1, <1>5 DEF Completes
  <2>2. GivenPort(conv, try.port2) /\ ~GivenAddr(conv, try.addr2) /\ "NO_PORT2" \in O
    BY <1>1, <2>1 DEF GivenAddr, GivenPort
  <2>3. "NO_ADDR2" \notin O /\ "NO_PORT2_FORCE" \notin O /\ "NO_PORTS" \notin O
    BY <1>1, <1>5, <2>2, WildcardOptions
  <2>4. KeyGiven(conv, try.addr2, try.port2) = T
    BY <1>1, <1>2, <2>1, <2>2 DEF KeyGiven, Key
  <2>5. KindOf(o) = "exact_addr_port"
    BY <1>3, <2>2, <2>3, ExactKind
  <2> QED  BY <1>1, <2>4, <2>5
<1>6. CASE try.kind = "no_addr2_or_port2"
  <2>1. /\ key = Key(T.addr1, T.port1, Any, Any) /\ try.addr2 = T.addr2 /\ try.port2 = T.port2
    BY <1>1, <1>6 DEF Completes
  <2>2. "NO_ADDR2" \in O /\ "NO_PORT2" \in O /\ "NO_PORT2_FORCE" \notin O /\ "NO_PORTS" \notin O
    BY <1>1, <1>6, WildcardOptions
  <2>3. GivenAddr(conv, try.addr2) /\ GivenPort(conv, try.port2)
    BY <1>1, <1>2, <2>1, <2>2 DEF GivenAddr, GivenPort
  <2>4. KeyGiven(conv, try.addr2, try.port2) = T
    BY <1>1, <1>2, <2>1, <2>3 DEF KeyGiven, Key
  <2>5. KindOf(o) = "exact_addr_port"
    BY <1>3, <2>2, <2>3, ExactKind
  <2> QED  BY <1>1, <2>4, <2>5
<1> QED  BY <1>4, <1>5, <1>6 DEF Completes

\* A match that is not used stays as it is.
LEMMA MatchedNotUsed ==
    ASSUME NEW s, NEW c, NEW try, NotUsed(s.convs[c], try), NEW r, r = Matched(s, c, try)
    PROVE  r.s = s /\ r.conv = c
<1>1. PICK conv : conv = s.convs[c]
  OBVIOUS
<1>2. CASE \/ ctype = "UDP" \/ try.replace = "never"
           \/ (try.replace = "template" /\ "CONVERSATION_TEMPLATE" \notin conv.options)
  <2>1. r = [s |-> s, conv |-> c]
    BY <1>1, <1>2 DEF Matched
  <2> QED  BY <2>1
<1>3. CASE /\ "CONVERSATION_TEMPLATE" \in conv.options
           /\ conv.options \cap {"NO_ADDR2", "NO_PORT2"} = {}
  <2>1. conversation_create_from_template(s, c, try.addr2, try.port2) = [s |-> s, conv |-> c]
    BY <1>1, <1>3 DEF conversation_create_from_template
  <2>2. r = [s |-> s, conv |-> c]
    BY <1>1, <1>3, <2>1 DEF Matched
  <2> QED  BY <2>2
<1>4. CASE /\ "CONVERSATION_TEMPLATE" \notin conv.options
           /\ ~GivenAddr(conv, try.addr2) /\ ~GivenPort(conv, try.port2)
  <2>1. conversation_set_addr2(s, c, try.addr2) = s
    BY <1>1, <1>4 DEF conversation_set_addr2, GivenAddr
  <2>2. conversation_set_port2(s, c, try.port2) = s
    BY <1>1, <1>4 DEF conversation_set_port2, GivenPort
  <2>3. conversation_set_port2(conversation_set_addr2(s, c, try.addr2), c, try.port2) = s
    BY <2>1, <2>2
  <2>4. r = [s |-> s, conv |-> c]
    BY <1>1, <1>4, <2>3 DEF Matched
  <2> QED  BY <2>4
<1> QED  BY <1>1, <1>2, <1>3, <1>4 DEF NotUsed

\* Does a conversation have the ends of a packet?
Exact(conv, p) ==
    KindOf(conv.options) = "exact_addr_port" /\ conv.key \in {KeyThere(p), KeyBack(p)}

\* The candidates of the exact lookups.
LEMMA ExactCandidates ==
    ASSUME NEW s, NEW f, NEW p, NEW d
    PROVE  d \in Candidates(s, f, p, 0) <=>
              d \in DOMAIN s.convs /\ Exact(s.convs[d], p) /\ SetupFrame(s, d) <= f
<1>1. LooksFor(s, d, p, 0) <=> Exact(s.convs[d], p)
  BY DEF LooksFor, OfKey, Exact
<1> QED  BY <1>1 DEF Candidates

\* A new conversation with the ends of the packet is the only one.
LEMMA OnlyNew ==
    ASSUME NEW s, NEW t, NEW n, NEW v, Added(s, t, n, v), NEW f, NEW p,
           Candidates(s, f, p, 0) = {}, Exact(v, p), v.setup_frame <= f
    PROVE  Candidates(t, f, p, 0) = {n}
<1>1. /\ DOMAIN t.convs = DOMAIN s.convs \cup {n} /\ t.convs[n].key = v.key
      /\ t.convs[n].options = v.options /\ t.convs[n].setup_frame = v.setup_frame
  BY DEF Added
<1>2. \A d \in DOMAIN s.convs : /\ t.convs[d].key = s.convs[d].key
                                /\ t.convs[d].options = s.convs[d].options
                                /\ t.convs[d].setup_frame = s.convs[d].setup_frame
  BY DEF Added
<1>3. n \in Candidates(t, f, p, 0)
  BY <1>1, ExactCandidates DEF Exact, SetupFrame
<1>4. ASSUME NEW d \in Candidates(t, f, p, 0), d # n
      PROVE  FALSE
  <2>1. d \in DOMAIN s.convs /\ Exact(t.convs[d], p) /\ SetupFrame(t, d) <= f
    BY <1>1, <1>4, ExactCandidates
  <2>2. Exact(s.convs[d], p) /\ SetupFrame(s, d) <= f
    BY <1>2, <2>1 DEF Exact, SetupFrame
  <2>3. d \in Candidates(s, f, p, 0)
    BY <2>1, <2>2, ExactCandidates
  <2> QED  BY <2>3
<1> QED  BY <1>3, <1>4

\* So is one that gets the ends of the packet.
LEMMA OnlyCompleted ==
    ASSUME NEW s, NEW t, NEW c \in DOMAIN s.convs, NEW key, NEW o, KeyIs(s, t, c, key, o), NEW f, NEW p,
           Candidates(s, f, p, 0) = {}, KindOf(o) = "exact_addr_port",
           key = KeyThere(p) \/ key = KeyBack(p), SetupFrame(s, c) <= f
    PROVE  Candidates(t, f, p, 0) = {c}
<1>1. /\ DOMAIN t.convs = DOMAIN s.convs /\ t.convs[c].key = key /\ t.convs[c].options = o
      /\ \A d \in DOMAIN s.convs : SetupFrame(t, d) = SetupFrame(s, d)
  BY DEF KeyIs, SetupFrame
<1>2. \A d \in DOMAIN s.convs : d # c => /\ t.convs[d].key = s.convs[d].key
                                         /\ t.convs[d].options = s.convs[d].options
  BY DEF KeyIs
<1>3. c \in Candidates(t, f, p, 0)
  BY <1>1, ExactCandidates DEF Exact
<1>4. ASSUME NEW d \in Candidates(t, f, p, 0), d # c
      PROVE  FALSE
  <2>1. d \in DOMAIN s.convs /\ Exact(t.convs[d], p) /\ SetupFrame(t, d) <= f
    BY <1>1, <1>4, ExactCandidates
  <2>2. Exact(s.convs[d], p) /\ SetupFrame(s, d) <= f
    BY <1>1, <1>2, <1>4, <2>1 DEF Exact
  <2>3. d \in Candidates(s, f, p, 0)
    BY <2>1, <2>2, ExactCandidates
  <2> QED  BY <2>3
<1> QED  BY <1>3, <1>4

\* A conversation with these options, key and setup frame is added.
AddedWith(s, t, n, o, key, f) ==
    \E v : Added(s, t, n, v) /\ v.options = o /\ v.key = key /\ v.setup_frame = f

\* Has a conversation a wildcard that is replaced?
HasWildcard(conv) == conv.options \cap {"NO_ADDR2", "NO_PORT2"} # {}

\* What a template that is used gives.
TemplateGives(s, c, r, ends, o) ==
    /\ InOrder(r.s, {}) /\ r.conv = Len(s.convs) + 1
    /\ AddedWith(s, r.s, r.conv, o, KeyOf(ends, o), SetupFrame(s, c))

\* The conversation that is made of a template has the ends and the options that the
\* template and the packet give it, and the setup frame of the template.
LEMMA MadeFromTemplate ==
    ASSUME NEW s, InOrder(s, {}), NEW c \in DOMAIN s.convs, NEW try,
           NEW conv, conv = s.convs[c], HasWildcard(conv),
           NEW r, r = conversation_create_from_template(s, c, try.addr2, try.port2),
           NEW key, key = conv.key, NEW ends, ends = EndsFrom(key, try),
           NEW o, o = OptionsFrom(conv.options)
    PROVE  TemplateGives(s, c, r, ends, o)
<1>1. PICK f : f = SetupFrame(s, c)
  OBVIOUS
<1>2. f \in Nat
  BY <1>1 DEF InOrder, IsState, IsConv, SetupFrame
<1>3. PICK t : t = conversation_new(s, f, ends, o, c)
  OBVIOUS
<1>4. r.s = t /\ r.conv = Len(s.convs) + 1
  BY <1>1, <1>3 DEF conversation_create_from_template, EndsFrom, OptionsFrom, HasWildcard, SetupFrame
<1>5. PICK v : v = [setup_frame |-> f, options |-> o, key |-> KeyOf(ends, o), template |-> c,
                    next |-> NULL, last |-> NULL, latest_found |-> NULL]
  OBVIOUS
<1>6. InOrder(t, {}) /\ Added(s, t, Len(s.convs) + 1, v)
  BY <1>2, <1>3, <1>5, NewInOrder
<1>7. v.options = o /\ v.key = KeyOf(ends, o) /\ v.setup_frame = SetupFrame(s, c)
  BY <1>1, <1>5
<1>8. AddedWith(s, t, Len(s.convs) + 1, o, KeyOf(ends, o), SetupFrame(s, c))
  BY <1>6, <1>7 DEF AddedWith
<1> QED  BY <1>4, <1>6, <1>8 DEF TemplateGives

\* A match that is used becomes the only conversation of the packet.
LEMMA MatchedUsed ==
    ASSUME NEW s, InOrder(s, {}), OptionsOK(s), NEW c \in DOMAIN s.convs, NEW f \in Nat, NEW p,
           NEW try, OfKey(s, c, try.kind, try.key), SetupFrame(s, c) <= f, Candidates(s, f, p, 0) = {},
           NEW T, T = KeyThere(p) \/ T = KeyBack(p), Completes(try, T),
           try.replace \in {"always", "template"}, ~NotUsed(s.convs[c], try),
           NEW r, r = Matched(s, c, try), KeysGuarded(s, r.s)
    PROVE  InOrder(r.s, {}) /\ Candidates(r.s, f, p, 0) = {r.conv}
<1>1. PICK conv : conv = s.convs[c]
  OBVIOUS
<1>2. OptionsFit(conv.options) /\ KindOf(conv.options) = try.kind /\ conv.key = try.key
  BY <1>1 DEF OptionsOK, OfKey
<1>3. CASE "CONVERSATION_TEMPLATE" \in conv.options
  <2>1. conv.options \cap {"NO_ADDR2", "NO_PORT2"} # {} /\ ctype # "UDP"
    BY <1>1, <1>3 DEF NotUsed
  <2>2. r = conversation_create_from_template(s, c, try.addr2, try.port2)
    BY <1>1, <1>3, <2>1 DEF Matched
  <2>3. PICK key, ends, o : /\ key = conv.key /\ ends = EndsFrom(key, try)
                            /\ o = OptionsFrom(conv.options)
    OBVIOUS
  <2>4. KindOf(o) = "exact_addr_port" /\ KeyOf(ends, o) = T
    BY <1>2, <2>1, <2>3, TemplateCompleted
  <2>5. InOrder(r.s, {}) /\ AddedWith(s, r.s, r.conv, o, KeyOf(ends, o), SetupFrame(s, c))
    <3>1. HasWildcard(conv)
      BY <2>1 DEF HasWildcard
    <3>2. TemplateGives(s, c, r, ends, o)
      BY <1>1, <2>2, <2>3, <3>1, MadeFromTemplate
    <3> QED  BY <3>2 DEF TemplateGives
  <2>6. PICK v : /\ Added(s, r.s, r.conv, v) /\ v.options = o /\ v.key = T
                 /\ v.setup_frame = SetupFrame(s, c)
    BY <2>4, <2>5 DEF AddedWith
  <2>7. Candidates(r.s, f, p, 0) = {r.conv}
    <3>1. Exact(v, p) /\ v.setup_frame <= f
      BY <2>4, <2>6 DEF Exact
    <3> QED  BY <2>6, <3>1, OnlyNew
  <2> QED  BY <2>5, <2>7
<1>4. CASE "CONVERSATION_TEMPLATE" \notin conv.options
  <2>1. /\ GivenAddr(conv, try.addr2) \/ GivenPort(conv, try.port2)
        /\ ctype # "UDP" /\ try.replace = "always"
    BY <1>1, <1>4 DEF NotUsed
  <2>2. PICK addr, port : addr = try.addr2 /\ port = try.port2
    OBVIOUS
  <2>3. PICK a : a = conversation_set_addr2(s, c, addr)
    OBVIOUS
  <2>4. PICK t : t = conversation_set_port2(a, c, port)
    OBVIOUS
  <2>5. r.s = t /\ r.conv = c
    <3>1. r = [s |-> t, conv |-> c]
      BY <1>1, <1>4, <2>1, <2>2, <2>3, <2>4 DEF Matched
    <3> QED  BY <3>1
  <2>6. t.convs[c].key # s.convs[c].key => SameKey(s, c) = {c}
    BY <2>5 DEF KeysGuarded
  <2>7. PICK o : o = OptionsGiven(conv, addr, port)
    OBVIOUS
  <2>8. KindOf(o) = "exact_addr_port" /\ KeyGiven(conv, addr, port) = T
    BY <1>2, <2>1, <2>2, <2>7, WildcardCompleted
  <2>9. InOrder(t, {}) /\ KeyIs(s, t, c, T, o)
    BY <1>1, <2>3, <2>4, <2>6, <2>7, <2>8, EndsSet
  <2>10. Candidates(t, f, p, 0) = {c}
    BY <2>8, <2>9, OnlyCompleted
  <2> QED  BY <2>5, <2>9, <2>10
<1> QED  BY <1>3, <1>4

\* Whatever a match is used for, the options stay fit.
LEMMA MatchedOptions ==
    ASSUME NEW s, InOrder(s, {}), OptionsOK(s), NEW c \in DOMAIN s.convs, NEW try,
           NEW r, r = Matched(s, c, try), KeysGuarded(s, r.s)
    PROVE  OptionsOK(r.s)
<1>1. PICK conv : conv = s.convs[c]
  OBVIOUS
<1>2. OptionsFit(conv.options)
  BY <1>1 DEF OptionsOK
<1>3. CASE r.s = s
  BY <1>3
<1>4. CASE /\ conv.options \cap {"NO_ADDR2", "NO_PORT2"} # {}
           /\ r = conversation_create_from_template(s, c, try.addr2, try.port2)
  <2>1. PICK key, ends, o : /\ key = conv.key /\ ends = EndsFrom(key, try)
                            /\ o = OptionsFrom(conv.options)
    OBVIOUS
  <2>2. AddedWith(s, r.s, r.conv, o, KeyOf(ends, o), SetupFrame(s, c))
    <3>1. HasWildcard(conv)
      BY <1>4 DEF HasWildcard
    <3>2. TemplateGives(s, c, r, ends, o)
      BY <1>1, <1>4, <2>1, <3>1, MadeFromTemplate
    <3> QED  BY <3>2 DEF TemplateGives
  <2>3. PICK v : Added(s, r.s, r.conv, v) /\ v.options = o
    BY <2>2 DEF AddedWith
  <2>4. o \subseteq conv.options /\ conv.options \ o \subseteq {"CONVERSATION_TEMPLATE", "NO_ADDR2", "NO_PORT2"}
    BY <2>1 DEF OptionsFrom
  <2>5. OptionsFit(o)
    BY <1>2, <2>4, FewerOptions
  <2> QED  BY <2>3, <2>5 DEF OptionsOK, Added
<1>5. CASE r = [s |-> conversation_set_port2(conversation_set_addr2(s, c, try.addr2), c, try.port2),
                conv |-> c]
  <2>1. PICK addr, port : addr = try.addr2 /\ port = try.port2
    OBVIOUS
  <2>2. PICK a : a = conversation_set_addr2(s, c, addr)
    OBVIOUS
  <2>3. PICK t : t = conversation_set_port2(a, c, port)
    OBVIOUS
  <2>4. r.s = t
    BY <1>5, <2>1, <2>2, <2>3
  <2>5. t.convs[c].key # s.convs[c].key => SameKey(s, c) = {c}
    BY <2>4 DEF KeysGuarded
  <2>6. PICK o : o = OptionsGiven(conv, addr, port)
    OBVIOUS
  <2>7. KeyIs(s, t, c, KeyGiven(s.convs[c], addr, port), o)
    BY <1>1, <2>2, <2>3, <2>5, <2>6, EndsSet
  <2>8. o \subseteq conv.options /\ conv.options \ o \subseteq {"CONVERSATION_TEMPLATE", "NO_ADDR2", "NO_PORT2"}
    BY <2>6 DEF OptionsGiven
  <2>9. OptionsFit(o)
    BY <1>2, <2>8, FewerOptions
  <2> QED  BY <2>4, <2>7, <2>9 DEF OptionsOK, KeyIs
<1>6. \/ r.s = s
      \/ r = conversation_create_from_template(s, c, try.addr2, try.port2)
      \/ r = [s |-> conversation_set_port2(conversation_set_addr2(s, c, try.addr2), c, try.port2),
              conv |-> c]
  BY DEF Matched
<1>7. ASSUME conv.options \cap {"NO_ADDR2", "NO_PORT2"} = {},
             r = conversation_create_from_template(s, c, try.addr2, try.port2)
      PROVE  r.s = s
  BY <1>1, <1>7 DEF conversation_create_from_template
<1> QED  BY <1>3, <1>4, <1>5, <1>6, <1>7

\* What the exact lookup gives.
LatestExact(s, f, p) ==
    LET x == Latest(s, "exact_addr_port", KeyThere(p), f)
        y == Latest(s, "exact_addr_port", KeyBack(p), f)
    IN  IF y > x THEN y ELSE x

\* Repetition is transitive.
LEMMA RepeatsTransitive ==
    ASSUME NEW s, NEW t, NEW u, NEW f, Repeats(s, t, f), Repeats(t, u, f)
    PROVE  Repeats(s, u, f)
BY DEF Repeats

\* Lookups for a frame repeat after the exact lookup.
LEMMA FindExactRepeats ==
    ASSUME NEW s, InOrder(s, {}), NEW f \in Nat, NEW p, NEW r, r = FindExact(s, f, p)
    PROVE  Repeats(s, r.s, f) /\ r.conv = LatestExact(s, f, p)
<1>1. PICK k : k = "exact_addr_port"
  OBVIOUS
<1>2. k \in Kinds
  BY <1>1 DEF Kinds
<1>3. PICK h, g : h = KeyThere(p) /\ g = KeyBack(p)
  OBVIOUS
<1>4. PICK there : there = conversation_lookup_hashtable(s, k, h, f)
  OBVIOUS
<1>5. InOrder(there.s, {}) /\ Repeats(s, there.s, f) /\ there.conv = Latest(s, k, h, f)
  BY <1>2, <1>4, LookupInOrder, LookupRepeats
<1>6. PICK back : back = conversation_lookup_hashtable(there.s, k, g, f)
  OBVIOUS
<1>7. Repeats(there.s, back.s, f) /\ back.conv = Latest(there.s, k, g, f)
  BY <1>2, <1>5, <1>6, LookupRepeats
<1>8. back.conv = Latest(s, k, g, f)
  BY <1>2, <1>5, <1>7 DEF Repeats
<1>9. r.s = back.s /\ r.conv = IF back.conv > there.conv THEN back.conv ELSE there.conv
  BY <1>1, <1>3, <1>4, <1>6 DEF FindExact, LookupBack, LookupThere, Younger, KeyThere, KeyBack
<1>10. r.conv = LatestExact(s, f, p)
  BY <1>1, <1>3, <1>5, <1>8, <1>9 DEF LatestExact
<1>11. Repeats(s, back.s, f)
  BY <1>5, <1>7, RepeatsTransitive
<1> QED  BY <1>9, <1>10, <1>11

\* Then so does the exact lookup.
LEMMA ExactRepeats ==
    ASSUME NEW s, NEW t, NEW f, NEW p, Repeats(s, t, f)
    PROVE  LatestExact(t, f, p) = LatestExact(s, f, p)
<1>1. PICK k : k = "exact_addr_port"
  OBVIOUS
<1>2. k \in Kinds
  BY <1>1 DEF Kinds
<1>3. /\ Latest(t, k, KeyThere(p), f) = Latest(s, k, KeyThere(p), f)
      /\ Latest(t, k, KeyBack(p), f) = Latest(s, k, KeyBack(p), f)
  BY <1>2 DEF Repeats
<1> QED  BY <1>1, <1>3 DEF LatestExact

\* The exact lookup finds nothing only if there is nothing to find, and the only
\* conversation that there is.
LEMMA ExactOnly ==
    ASSUME NEW s, InOrder(s, {}), NEW f, NEW p, NEW c, ExactOf(s, f, p, c)
    PROVE  /\ c = NULL => Candidates(s, f, p, 0) = {}
           /\ \A n : Candidates(s, f, p, 0) = {n} => c = n /\ c # NULL
<1>1. PICK x, y : /\ LatestOf(s, "exact_addr_port", KeyThere(p), f, x)
                  /\ LatestOf(s, "exact_addr_port", KeyBack(p), f, y)
                  /\ c = IF y > x THEN y ELSE x
  BY DEF ExactOf
<1>2. DOMAIN s.convs \subseteq Nat \ {0}
  BY ConvNumbers DEF InOrder
<1>3. x \in Nat /\ y \in Nat /\ (x # 0 => x \in DOMAIN s.convs) /\ (y # 0 => y \in DOMAIN s.convs)
  BY <1>1, <1>2 DEF LatestOf, NULL
<1>4. c \in Nat /\ x <= c /\ y <= c /\ (c = x \/ c = y)
  BY <1>1, <1>3
<1>5. \A d \in Candidates(s, f, p, 0) : x # NULL \/ y # NULL
  BY <1>1 DEF Candidates, LooksFor, LatestOf
<1>6. /\ x # NULL => x \in Candidates(s, f, p, 0)
      /\ y # NULL => y \in Candidates(s, f, p, 0)
  BY <1>1 DEF Candidates, LooksFor, LatestOf
<1>7. c = NULL => x = NULL /\ y = NULL
  BY <1>3, <1>4 DEF NULL
<1>8. ASSUME NEW n, Candidates(s, f, p, 0) = {n}
      PROVE  c = n /\ c # NULL
  <2>1. c # NULL
    BY <1>5, <1>7, <1>8
  <2>2. c \in Candidates(s, f, p, 0)
    BY <1>4, <1>6, <2>1
  <2> QED  BY <1>8, <2>1, <2>2
<1> QED  BY <1>5, <1>7, <1>8

\* A visit that finds a conversation of the ends of the packet.
LEMMA VisitExact ==
    ASSUME NEW s, NEW f, NEW p, NEW first, first = FindExact(s, f, p), first.conv # NULL,
           NEW r, r = find_or_create_conversation(s, f, p)
    PROVE  r = first
<1>1. {} \cap {"NO_ADDR_B", "NO_PORT_B", "NO_PORT_X", "EXACT_EXCLUDED"} = {}
  OBVIOUS
<1>2. find_conversation(s, f, p, {}) = first
  BY <1>1 DEF find_conversation, FindAfter
<1> QED  BY <1>2 DEF find_or_create_conversation, OrCreate

\* One that does not looks for a wildcard.
LEMMA VisitOther ==
    ASSUME NEW s, NEW f, NEW p, NEW first, first = FindExact(s, f, p), first.conv = NULL,
           NEW w, w = FindWildcard(first.s, f, WildcardTries(p, {})),
           NEW r, r = find_or_create_conversation(s, f, p)
    PROVE  w = find_conversation(s, f, p, {}) /\ (w.conv # NULL => r = w)
<1>1. {} \cap {"NO_ADDR_B", "NO_PORT_B", "NO_PORT_X", "EXACT_EXCLUDED"} = {}
  OBVIOUS
<1>2. find_conversation(s, f, p, {}) = w
  BY <1>1 DEF find_conversation, FindAfter
<1> QED  BY <1>2 DEF find_or_create_conversation, OrCreate

\* The first lookup that has a match is the one that is made.
LEMMA FirstHitMade ==
    ASSUME NEW s, NEW f, NEW tries, DOMAIN tries = 1 .. 8, NEW i, FirstHit(s, f, tries, i),
           NEW try, try = tries[i], NEW k, NEW h, k = try.kind, h = try.key,
           NEW looked, looked = conversation_lookup_hashtable(s, k, h, f),
           NEW m, m = Matched(looked.s, looked.conv, try),
           NEW w, w = FindWildcard(s, f, tries)
    PROVE  w = m
<1>1. i \in 1 .. 8
  BY DEF FirstHit
<1>2. ~NoHit(s, f, tries)
  BY DEF FirstHit, NoHit
<1>3. PICK j : /\ FirstHit(s, f, tries, j)
               /\ w = MatchedBy(conversation_lookup_hashtable(s, tries[j].kind, tries[j].key, f), tries[j])
  BY <1>2, FindWildcardIs
<1>4. j \in 1 .. 8
  BY <1>3 DEF FirstHit
<1>5. ~(j < i) /\ ~(i < j)
  BY <1>1, <1>3, <1>4 DEF FirstHit
<1>6. i = j
  BY <1>1, <1>4, <1>5
<1> QED  BY <1>3, <1>6 DEF MatchedBy

\* It stays the first through lookups.
LEMMA HitKept ==
    ASSUME NEW s, InOrder(s, {}), NEW t, InOrder(t, {}), KeepsConvs(s, t), NEW f \in Nat,
           NEW tries, DOMAIN tries = 1 .. 8, \A j \in 1 .. 8 : tries[j].kind \in Kinds,
           NEW i, FirstHit(s, f, tries, i)
    PROVE  FirstHit(t, f, tries, i)
<1>1. ASSUME NEW j \in 1 .. 8
      PROVE  /\ Early(s, HeadOf(s, tries[j].kind, tries[j].key), f)
                   <=> Early(t, HeadOf(t, tries[j].kind, tries[j].key), f)
  <2>1. PICK k, h : k = tries[j].kind /\ h = tries[j].key
    OBVIOUS
  <2>2. k \in Kinds
    BY <2>1
  <2>3. Early(s, HeadOf(s, k, h), f) <=>
           \E d \in DOMAIN s.convs : OfKey(s, d, k, h) /\ SetupFrame(s, d) <= f
    BY <2>2, HeadEarly
  <2>4. Early(t, HeadOf(t, k, h), f) <=>
           \E d \in DOMAIN t.convs : OfKey(t, d, k, h) /\ SetupFrame(t, d) <= f
    BY <2>2, HeadEarly
  <2>5. DOMAIN t.convs = DOMAIN s.convs
    BY DEF KeepsConvs
  <2>6. \A d \in DOMAIN s.convs : /\ OfKey(t, d, k, h) <=> OfKey(s, d, k, h)
                                  /\ SetupFrame(t, d) = SetupFrame(s, d)
    BY DEF KeepsConvs, OfKey, SetupFrame
  <2> QED  BY <2>1, <2>3, <2>4, <2>5, <2>6
<1> QED  BY <1>1 DEF FirstHit

\* One conversation has the ends of a packet.
OnlyOne(s, f, p, n) == Candidates(s, f, p, 0) = {n}

\* It is found again.
LEMMA FoundAgain ==
    ASSUME NEW s, InOrder(s, {}), NEW f \in Nat, NEW p, NEW n, OnlyOne(s, f, p, n),
           NEW r, r = find_or_create_conversation(s, f, p)
    PROVE  r.conv = n /\ Len(r.s.convs) = Len(s.convs)
<1>1. PICK first : first = FindExact(s, f, p)
  OBVIOUS
<1>2. KeepsConvs(s, first.s) /\ ExactOf(s, f, p, first.conv)
  BY <1>1, FindExactInOrder
<1>3. first.conv = n /\ first.conv # NULL
  BY <1>2, ExactOnly DEF OnlyOne
<1>4. r = first
  BY <1>1, <1>3, VisitExact
<1>5. IsState(s)
  BY DEF InOrder
<1>6. Len(first.s.convs) = Len(s.convs)
  BY <1>2, <1>5, KeptNotFilled
<1> QED  BY <1>3, <1>4, <1>6

\* A match that is not used is not used after lookups either.
LEMMA NotUsedKept ==
    ASSUME NEW s, NEW t, KeepsConvs(s, t), NEW c \in DOMAIN s.convs, NEW try,
           NotUsed(s.convs[c], try)
    PROVE  NotUsed(t.convs[c], try)
<1>1. t.convs[c].options = s.convs[c].options
  BY DEF KeepsConvs
<1> QED  BY <1>1 DEF NotUsed, GivenAddr, GivenPort

\* No candidates appear through lookups.
LEMMA NoCandidatesKept ==
    ASSUME NEW s, NEW t, KeepsConvs(s, t), NEW f, NEW p, Candidates(s, f, p, 0) = {}
    PROVE  Candidates(t, f, p, 0) = {}
<1>1. ASSUME NEW d \in Candidates(t, f, p, 0)
      PROVE  FALSE
  <2>1. d \in DOMAIN s.convs /\ Exact(t.convs[d], p) /\ SetupFrame(t, d) <= f
    BY <1>1, ExactCandidates DEF KeepsConvs
  <2>2. Exact(s.convs[d], p) /\ SetupFrame(s, d) <= f
    BY <2>1 DEF KeepsConvs, Exact, SetupFrame
  <2>3. d \in Candidates(s, f, p, 0)
    BY <2>1, <2>2, ExactCandidates
  <2> QED  BY <2>3
<1> QED  BY <1>1

\* A lookup that matches, of a wildcard.
Hit(s, f, tries, i, try, looked) ==
    /\ FirstHit(s, f, tries, i) /\ try = tries[i] /\ try.kind \in Kinds
    /\ looked = conversation_lookup_hashtable(s, try.kind, try.key, f)

\* It finds a conversation of the key it looks for, that the frame may see.
LEMMA HitFinds ==
    ASSUME NEW s, InOrder(s, {}), NEW f \in Nat, NEW tries, NEW i, NEW try, NEW looked,
           Hit(s, f, tries, i, try, looked)
    PROVE  /\ InOrder(looked.s, {}) /\ KeepsConvs(s, looked.s) /\ Repeats(s, looked.s, f)
           /\ looked.conv = Latest(s, try.kind, try.key, f)
           /\ looked.conv \in DOMAIN looked.s.convs
           /\ OfKey(looked.s, looked.conv, try.kind, try.key)
           /\ SetupFrame(looked.s, looked.conv) <= f
<1>1. PICK k, h : k = try.kind /\ h = try.key
  OBVIOUS
<1>2. /\ k \in Kinds /\ Early(s, HeadOf(s, k, h), f)
      /\ looked = conversation_lookup_hashtable(s, k, h, f)
  BY <1>1 DEF Hit, FirstHit
<1>3. /\ InOrder(looked.s, {}) /\ KeepsConvs(s, looked.s) /\ LatestOf(s, k, h, f, looked.conv)
      /\ Repeats(s, looked.s, f) /\ looked.conv = Latest(s, k, h, f)
  BY <1>2, LookupInOrder, LookupRepeats
<1>4. \E d \in DOMAIN s.convs : OfKey(s, d, k, h) /\ SetupFrame(s, d) <= f
  BY <1>2, HeadEarly
<1>5. /\ looked.conv \in DOMAIN s.convs /\ OfKey(s, looked.conv, k, h)
      /\ SetupFrame(s, looked.conv) <= f
  BY <1>3, <1>4 DEF LatestOf
<1>6. /\ looked.conv \in DOMAIN looked.s.convs /\ OfKey(looked.s, looked.conv, k, h)
      /\ SetupFrame(looked.s, looked.conv) <= f
  BY <1>3, <1>5 DEF KeepsConvs, OfKey, SetupFrame
<1> QED  BY <1>1, <1>3, <1>6

\* The exact lookup finds nothing, and the wildcard lookups follow.
Misses(s, f, p, first, tries) ==
    first = FindExact(s, f, p) /\ first.conv = NULL /\ tries = WildcardTries(p, {})

\* A visit that matches a wildcard.
LEMMA VisitHit ==
    ASSUME NEW s, InOrder(s, {}), NEW f \in Nat, NEW p, NEW tries,
           NEW first, Misses(s, f, p, first, tries), InOrder(first.s, {}),
           NEW i, NEW try, NEW looked, Hit(first.s, f, tries, i, try, looked),
           NEW m, m = Matched(looked.s, looked.conv, try),
           NEW r, r = find_or_create_conversation(s, f, p)
    PROVE  r = m
<1>1. PICK o : o = {}
  OBVIOUS
<1>2. tries = WildcardTries(p, o) /\ first = FindExact(s, f, p) /\ first.conv = NULL
  BY <1>1 DEF Misses
<1>3. DOMAIN tries = 1 .. 8
  BY <1>2, TryKinds
<1>4. PICK w : w = FindWildcard(first.s, f, tries)
  OBVIOUS
<1>5. PICK k, h : k = try.kind /\ h = try.key
  OBVIOUS
<1>6. /\ FirstHit(first.s, f, tries, i) /\ try = tries[i]
      /\ looked = conversation_lookup_hashtable(first.s, k, h, f)
  BY <1>5 DEF Hit
<1>7. w = m
  BY <1>3, <1>4, <1>5, <1>6, FirstHitMade
<1>8. InOrder(looked.s, {}) /\ looked.conv \in DOMAIN looked.s.convs
  BY HitFinds
<1>9. m.conv # NULL
  BY <1>8, MatchedInOrder
<1>10. w.conv # NULL => r = w
  BY <1>1, <1>2, <1>4, VisitOther
<1> QED  BY <1>7, <1>9, <1>10

\* Where the match is not used, the next visit matches it too.
LEMMA NotUsedAgain ==
    ASSUME NEW s, InOrder(s, {}), NEW f \in Nat, NEW p, NEW tries,
           NEW first, Misses(s, f, p, first, tries),
           NEW i, NEW try, NEW looked, Hit(first.s, f, tries, i, try, looked),
           NEW a, NEW c, a = looked.s, c = looked.conv, NotUsed(a.convs[c], try),
           NEW r, r = find_or_create_conversation(a, f, p)
    PROVE  r.conv = c /\ Len(r.s.convs) = Len(a.convs)
<1>1. first = FindExact(s, f, p) /\ first.conv = NULL /\ tries = WildcardTries(p, {})
  BY DEF Misses
<1>2. InOrder(first.s, {}) /\ Repeats(s, first.s, f) /\ first.conv = LatestExact(s, f, p)
  BY <1>1, FindExactInOrder, FindExactRepeats
<1>3. /\ InOrder(a, {}) /\ KeepsConvs(first.s, a) /\ Repeats(first.s, a, f)
      /\ c = Latest(first.s, try.kind, try.key, f) /\ c \in DOMAIN a.convs
  BY <1>2, HitFinds
<1>4. PICK second : second = FindExact(a, f, p)
  OBVIOUS
<1>5. /\ InOrder(second.s, {}) /\ KeepsConvs(a, second.s) /\ Repeats(a, second.s, f)
      /\ second.conv = LatestExact(a, f, p)
  BY <1>3, <1>4, FindExactInOrder, FindExactRepeats
<1>6. second.conv = NULL
  <2>1. Repeats(s, a, f)
    BY <1>2, <1>3, RepeatsTransitive
  <2>2. LatestExact(a, f, p) = LatestExact(s, f, p)
    BY <2>1, ExactRepeats
  <2> QED  BY <1>1, <1>2, <1>5, <2>2
<1>7. KeepsConvs(first.s, second.s) /\ Repeats(first.s, second.s, f)
  BY <1>3, <1>5, KeepsConvsTransitive, RepeatsTransitive
<1>8. PICK again : again = conversation_lookup_hashtable(second.s, try.kind, try.key, f)
  OBVIOUS
<1>9. Hit(second.s, f, tries, i, try, again)
  <2>1. PICK o : o = {}
    OBVIOUS
  <2>2. tries = WildcardTries(p, o)
    BY <1>1, <2>1
  <2>3. DOMAIN tries = 1 .. 8 /\ \A j \in 1 .. 8 : tries[j].kind \in Kinds
    BY <2>2, TryKinds
  <2>4. FirstHit(first.s, f, tries, i) /\ try = tries[i] /\ try.kind \in Kinds
    BY DEF Hit
  <2>5. FirstHit(second.s, f, tries, i)
    BY <1>2, <1>5, <1>7, <2>3, <2>4, HitKept
  <2> QED  BY <1>8, <2>4, <2>5 DEF Hit
<1>10. /\ InOrder(again.s, {}) /\ KeepsConvs(second.s, again.s)
       /\ again.conv = Latest(second.s, try.kind, try.key, f)
  BY <1>5, <1>9, HitFinds
<1>11. again.conv = c
  <2>1. try.kind \in Kinds
    BY DEF Hit
  <2>2. Latest(second.s, try.kind, try.key, f) = Latest(first.s, try.kind, try.key, f)
    BY <1>7, <2>1 DEF Repeats
  <2> QED  BY <1>3, <1>10, <2>2
<1>12. KeepsConvs(a, again.s)
  BY <1>5, <1>10, KeepsConvsTransitive
<1>13. NotUsed(again.s.convs[again.conv], try)
  <2>1. NotUsed(again.s.convs[c], try)
    BY <1>3, <1>12, NotUsedKept
  <2> QED  BY <1>11, <2>1
<1>14. PICK m : m = Matched(again.s, again.conv, try)
  OBVIOUS
<1>15. m.s = again.s /\ m.conv = again.conv
  BY <1>13, <1>14, MatchedNotUsed
<1>16. Misses(a, f, p, second, tries)
  BY <1>1, <1>4, <1>6 DEF Misses
<1>17. r = m
  BY <1>3, <1>5, <1>9, <1>14, <1>16, VisitHit
<1>18. IsState(a)
  BY <1>3 DEF InOrder
<1>19. Len(again.s.convs) = Len(a.convs)
  BY <1>12, <1>18, KeptNotFilled
<1> QED  BY <1>11, <1>15, <1>17, <1>19

\* Where it is used, the conversation that results is found.
LEMMA UsedAgain ==
    ASSUME NEW s, InOrder(s, {}), OptionsOK(s), NEW f \in Nat, NEW p \in Packets,
           NEW tries, tries = WildcardTries(p, {}), Candidates(s, f, p, 0) = {},
           NEW i, NEW try, NEW looked, Hit(s, f, tries, i, try, looked),
           ~NotUsed(looked.s.convs[looked.conv], try),
           NEW m, m = Matched(looked.s, looked.conv, try), KeysGuarded(s, m.s),
           NEW r, r = find_or_create_conversation(m.s, f, p)
    PROVE  r.conv = m.conv /\ Len(r.s.convs) = Len(m.s.convs)
<1>1. PICK a, c : a = looked.s /\ c = looked.conv
  OBVIOUS
<1>2. /\ InOrder(a, {}) /\ KeepsConvs(s, a) /\ c \in DOMAIN a.convs
      /\ OfKey(a, c, try.kind, try.key) /\ SetupFrame(a, c) <= f
  BY <1>1, HitFinds
<1>3. OptionsOK(a)
  BY <1>2 DEF OptionsOK, KeepsConvs
<1>4. Candidates(a, f, p, 0) = {}
  BY <1>2, NoCandidatesKept
<1>5. KeysGuarded(a, m.s)
  BY <1>2, GuardedAfter
<1>6. ~NotUsed(a.convs[c], try) /\ m = Matched(a, c, try)
  BY <1>1
<1>7. /\ try.replace \in {"always", "template"}
      /\ Completes(try, KeyThere(p)) \/ Completes(try, KeyBack(p))
  <2>1. try.replace # "never"
    BY <1>6 DEF NotUsed
  <2>2. PICK o : o = {}
    OBVIOUS
  <2>3. tries = WildcardTries(p, o)
    BY <2>2
  <2>4. DOMAIN tries = 1 .. 8
    BY <2>3, TryKinds
  <2>5. try = tries[i] /\ i \in 1 .. 8
    BY <2>4 DEF Hit, FirstHit
  <2>6. tries[i].replace # "never"
    BY <2>1, <2>5
  <2>7. /\ tries[i].replace \in {"always", "template"}
        /\ Completes(tries[i], KeyThere(p)) \/ Completes(tries[i], KeyBack(p))
    BY <2>5, <2>6, TryCompletes
  <2> QED  BY <2>5, <2>7
<1>8. PICK T : (T = KeyThere(p) \/ T = KeyBack(p)) /\ Completes(try, T)
  BY <1>7
<1>9. InOrder(m.s, {}) /\ Candidates(m.s, f, p, 0) = {m.conv}
  BY <1>2, <1>3, <1>4, <1>5, <1>6, <1>7, <1>8, MatchedUsed
<1>10. PICK t, n : t = m.s /\ n = m.conv
  OBVIOUS
<1>11. InOrder(t, {}) /\ OnlyOne(t, f, p, n) /\ r = find_or_create_conversation(t, f, p)
  BY <1>9, <1>10 DEF OnlyOne
<1>12. r.conv = n /\ Len(r.s.convs) = Len(t.convs)
  BY <1>11, FoundAgain
<1> QED  BY <1>10, <1>12

\* A visit that matches nothing sets up a conversation that is found.
LEMMA CreatedAgain ==
    ASSUME NEW s, InOrder(s, {}), NEW f \in Nat, NEW p, Candidates(s, f, p, 0) = {},
           NEW x, x = find_conversation(s, f, p, {}), x.conv = NULL,
           NEW once, once = find_or_create_conversation(s, f, p),
           NEW r, r = find_or_create_conversation(once.s, f, p)
    PROVE  r.conv = once.conv /\ Len(r.s.convs) = Len(once.s.convs)
<1>1. PICK t, n : t = once.s /\ n = once.conv
  OBVIOUS
<1>2. InOrder(t, {}) /\ n = Len(s.convs) + 1 /\ SetUpFor(s, t, f, p, n)
  BY <1>1, CreatedFor
<1>3. PICK v : Added(s, t, n, v) /\ v.setup_frame = f /\ v.key = KeyThere(p) /\ v.options = {}
  BY <1>2 DEF SetUpFor
<1>4. Exact(v, p) /\ v.setup_frame <= f
  <2>1. KindOf(v.options) = "exact_addr_port"
    BY <1>3, ExactKind
  <2> QED  BY <1>3, <2>1 DEF Exact
<1>5. OnlyOne(t, f, p, n)
  BY <1>3, <1>4, OnlyNew DEF OnlyOne
<1>6. r.conv = n /\ Len(r.s.convs) = Len(t.convs)
  BY <1>1, <1>2, <1>5, FoundAgain
<1> QED  BY <1>1, <1>6

\* A second visit agrees with the first.
LEMMA SecondVisit ==
    ASSUME NEW s, InOrder(s, {}), OptionsOK(s), NEW f \in Nat, NEW p \in Packets,
           NEW once, once = find_or_create_conversation(s, f, p), KeysGuarded(s, once.s),
           NEW r, r = find_or_create_conversation(once.s, f, p)
    PROVE  r.conv = once.conv /\ Len(r.s.convs) = Len(once.s.convs)
<1>1. PICK first : first = FindExact(s, f, p)
  OBVIOUS
<1>2. /\ InOrder(first.s, {}) /\ KeepsConvs(s, first.s) /\ ExactOf(s, f, p, first.conv)
      /\ Repeats(s, first.s, f) /\ first.conv = LatestExact(s, f, p)
  BY <1>1, FindExactInOrder, FindExactRepeats
<1>3. CASE first.conv # NULL
  <2>1. once = first
    BY <1>1, <1>3, VisitExact
  <2>2. PICK a, second : a = first.s /\ second = FindExact(a, f, p)
    OBVIOUS
  <2>3. KeepsConvs(a, second.s) /\ second.conv = LatestExact(a, f, p)
    BY <1>2, <2>2, FindExactInOrder, FindExactRepeats
  <2>4. LatestExact(a, f, p) = LatestExact(s, f, p)
    BY <1>2, <2>2, ExactRepeats
  <2>5. second.conv = first.conv
    BY <1>2, <2>3, <2>4
  <2>6. r = find_or_create_conversation(a, f, p) /\ second.conv # NULL
    BY <1>3, <2>1, <2>2, <2>5
  <2>7. r = second
    BY <2>2, <2>6, VisitExact
  <2>8. IsState(a)
    BY <1>2, <2>2 DEF InOrder
  <2>9. Len(second.s.convs) = Len(a.convs)
    BY <2>3, <2>8, KeptNotFilled
  <2> QED  BY <2>1, <2>2, <2>5, <2>7, <2>9
<1>4. CASE first.conv = NULL
  <2>1. Candidates(s, f, p, 0) = {} /\ Candidates(first.s, f, p, 0) = {}
    BY <1>2, <1>4, ExactOnly, NoCandidatesKept
  <2>2. OptionsOK(first.s) /\ KeysGuarded(first.s, once.s)
    <3>1. OptionsOK(first.s)
      BY <1>2 DEF OptionsOK, KeepsConvs
    <3> QED  BY <1>2, <3>1, GuardedAfter
  <2>3. PICK tries, o : tries = WildcardTries(p, o) /\ o = {}
    OBVIOUS
  <2>4. DOMAIN tries = 1 .. 8 /\ \A j \in 1 .. 8 : tries[j].kind \in Kinds
    BY <2>3, TryKinds
  <2>5. PICK w : w = FindWildcard(first.s, f, tries)
    OBVIOUS
  <2>6. w = find_conversation(s, f, p, {}) /\ tries = WildcardTries(p, {})
    BY <1>1, <1>4, <2>3, <2>5, VisitOther
  <2>7. CASE w = [s |-> first.s, conv |-> NULL]
    <3>1. w.conv = NULL
      BY <2>7
    <3> QED  BY <2>1, <2>6, <3>1, CreatedAgain
  <2>8. ASSUME NEW i, FirstHit(first.s, f, tries, i)
        PROVE  r.conv = once.conv /\ Len(r.s.convs) = Len(once.s.convs)
    <3>1. PICK try : try = tries[i]
      OBVIOUS
    <3>2. PICK looked : looked = conversation_lookup_hashtable(first.s, try.kind, try.key, f)
      OBVIOUS
    <3>3. Hit(first.s, f, tries, i, try, looked)
      BY <2>4, <2>8, <3>1, <3>2 DEF Hit, FirstHit
    <3>4. PICK m : m = Matched(looked.s, looked.conv, try)
      OBVIOUS
    <3>5. Misses(s, f, p, first, tries) /\ once = m
      <4>1. Misses(s, f, p, first, tries)
        BY <1>1, <1>4, <2>6 DEF Misses
      <4> QED  BY <1>2, <3>3, <3>4, <4>1, VisitHit
    <3>6. CASE NotUsed(looked.s.convs[looked.conv], try)
      <4>1. m.s = looked.s /\ m.conv = looked.conv
        BY <3>4, <3>6, MatchedNotUsed
      <4>2. PICK a, c : a = looked.s /\ c = looked.conv
        OBVIOUS
      <4>3. r = find_or_create_conversation(a, f, p) /\ NotUsed(a.convs[c], try)
        BY <3>5, <3>6, <4>1, <4>2
      <4>4. r.conv = c /\ Len(r.s.convs) = Len(a.convs)
        BY <3>3, <3>5, <4>2, <4>3, NotUsedAgain
      <4> QED  BY <3>5, <4>1, <4>2, <4>4
    <3>7. CASE ~NotUsed(looked.s.convs[looked.conv], try)
      <4>1. KeysGuarded(first.s, m.s) /\ r = find_or_create_conversation(m.s, f, p)
        BY <2>2, <3>5
      <4>2. r.conv = m.conv /\ Len(r.s.convs) = Len(m.s.convs)
        BY <1>2, <2>1, <2>2, <2>6, <3>3, <3>4, <3>7, <4>1, UsedAgain
      <4> QED  BY <3>5, <4>2
    <3> QED  BY <3>6, <3>7
  <2> QED  BY <2>4, <2>5, <2>7, <2>8, FindWildcardIs
<1> QED  BY <1>3, <1>4

\* The wildcard lookups keep the options fit.
LEMMA FindWildcardOptions ==
    ASSUME NEW s, InOrder(s, {}), OptionsOK(s), NEW f \in Nat, NEW p, NEW options,
           NEW r, r = FindWildcard(s, f, WildcardTries(p, options)), KeysGuarded(s, r.s)
    PROVE  OptionsOK(r.s)
<1>1. PICK tries : tries = WildcardTries(p, options)
  OBVIOUS
<1>2. DOMAIN tries = 1 .. 8 /\ \A i \in 1 .. 8 : tries[i].kind \in Kinds
  BY <1>1, TryKinds
<1>3. CASE r = [s |-> s, conv |-> NULL]
  BY <1>3
<1>4. ASSUME NEW i, FirstHit(s, f, tries, i)
      PROVE  OptionsOK(r.s)
  <2>1. PICK try, k, h : try = tries[i] /\ k = try.kind /\ h = try.key
    OBVIOUS
  <2>2. PICK looked : looked = conversation_lookup_hashtable(s, k, h, f)
    OBVIOUS
  <2>3. Hit(s, f, tries, i, try, looked)
    BY <1>2, <1>4, <2>1, <2>2 DEF Hit, FirstHit
  <2>4. PICK m : m = Matched(looked.s, looked.conv, try)
    OBVIOUS
  <2>5. r = m
    BY <1>1, <1>2, <1>4, <2>1, <2>2, <2>4, FirstHitMade
  <2>6. PICK a, c : a = looked.s /\ c = looked.conv
    OBVIOUS
  <2>7. InOrder(a, {}) /\ KeepsConvs(s, a) /\ c \in DOMAIN a.convs
    BY <2>3, <2>6, HitFinds
  <2>8. OptionsOK(a)
    BY <2>7 DEF OptionsOK, KeepsConvs
  <2>9. KeysGuarded(a, m.s)
    BY <2>5, <2>7, GuardedAfter
  <2>10. m = Matched(a, c, try)
    BY <2>4, <2>6
  <2>11. OptionsOK(m.s)
    BY <2>7, <2>8, <2>9, <2>10, MatchedOptions
  <2> QED  BY <2>5, <2>11
<1> QED  BY <1>1, <1>2, <1>3, <1>4, FindWildcardIs

\* So does find_conversation.
LEMMA FindOptions ==
    ASSUME NEW s, InOrder(s, {}), OptionsOK(s), NEW f \in Nat, NEW p, NEW options,
           NEW r, r = find_conversation(s, f, p, options), KeysGuarded(s, r.s)
    PROVE  OptionsOK(r.s)
<1>1. PICK exact : exact = (options \cap {"NO_ADDR_B", "NO_PORT_B", "NO_PORT_X", "EXACT_EXCLUDED"} = {})
  OBVIOUS
<1>2. PICK first : first = IF exact THEN FindExact(s, f, p) ELSE [s |-> s, conv |-> NULL]
  OBVIOUS
<1>3. InOrder(first.s, {}) /\ KeepsConvs(s, first.s)
  <2>1. CASE first = FindExact(s, f, p)
    BY <2>1, FindExactInOrder
  <2>2. CASE first = [s |-> s, conv |-> NULL]
    BY <2>2 DEF KeepsConvs, InOrder
  <2> QED  BY <1>2, <2>1, <2>2
<1>4. PICK a : a = first.s
  OBVIOUS
<1>5. PICK w : w = FindWildcard(a, f, WildcardTries(p, options))
  OBVIOUS
<1>6. InOrder(a, {}) /\ KeepsConvs(s, a) /\ OptionsOK(a)
  BY <1>3, <1>4 DEF OptionsOK, KeepsConvs
<1>7. r = first \/ r = w
  BY <1>1, <1>2, <1>4, <1>5 DEF find_conversation, FindAfter
<1>8. CASE r = first
  BY <1>4, <1>6, <1>8
<1>9. CASE r = w
  <2>1. KeysGuarded(a, w.s)
    BY <1>6, <1>9, GuardedAfter
  <2>2. OptionsOK(w.s)
    BY <1>5, <1>6, <2>1, FindWildcardOptions
  <2> QED  BY <1>9, <2>2
<1> QED  BY <1>7, <1>8, <1>9

\* So does adding a conversation that has fit options.
LEMMA AddedOptions ==
    ASSUME NEW s, OptionsOK(s), NEW t, NEW n, NEW v, Added(s, t, n, v), OptionsFit(v.options)
    PROVE  OptionsOK(t)
BY DEF OptionsOK, Added

\* So does find_or_create_conversation.
LEMMA FindOrCreateOptions ==
    ASSUME NEW s, InOrder(s, {}), OptionsOK(s), NEW f \in Nat, NEW p,
           NEW r, r = find_or_create_conversation(s, f, p), KeysGuarded(s, r.s)
    PROVE  OptionsOK(r.s)
<1>1. PICK x, o : x = find_conversation(s, f, p, o) /\ o = {}
  OBVIOUS
<1>2. CASE x.conv # NULL
  <2>1. r = x
    BY <1>1, <1>2 DEF find_or_create_conversation, OrCreate
  <2> QED  BY <1>1, <2>1, FindOptions
<1>3. CASE x.conv = NULL
  <2>1. x = find_conversation(s, f, p, {})
    BY <1>1
  <2>2. PICK n : n = Len(s.convs) + 1
    OBVIOUS
  <2>3. SetUpFor(s, r.s, f, p, n)
    BY <1>3, <2>1, <2>2, CreatedFor
  <2>4. PICK v : Added(s, r.s, n, v) /\ v.options = {}
    BY <2>3 DEF SetUpFor
  <2>5. OptionsFit(v.options)
    BY <2>4 DEF OptionsFit
  <2> QED  BY <2>4, <2>5, AddedOptions
<1> QED  BY <1>2, <1>3

-----------------------------------------------------------------------------
\* The options are fit where the tables are in order.
OptionsInv == (SharedWildcards /\ filled) \/ OptionsOK(st)

\* Every step keeps the options fit.
LEMMA OptionsStep ==
    ASSUME TablesInv, OptionsInv, [Next]_vars
    PROVE  OptionsInv'
<1>1. Len(packets) \in Nat /\ frame \in Nat /\ frame + 1 \in Nat
  BY DEF TablesInv, frame
<1>2. ~(SharedWildcards /\ filled) => InOrder(st, {}) /\ OptionsOK(st)
  BY DEF TablesInv, OptionsInv
<1>3. ASSUME ~(SharedWildcards /\ filled')
      PROVE  OptionsOK(st')
  <2>1. CASE FirstPass
    <3>1. PICK p \in Packets : \E r \in {find_or_create_conversation(st, frame + 1, p)} : Becomes(r.s)
      BY <2>1 DEF FirstPass
    <3>2. PICK r : r = find_or_create_conversation(st, frame + 1, p) /\ Becomes(r.s)
      BY <3>1
    <3>3. KeysGuarded(st, r.s) /\ st' = r.s /\ InOrder(st, {}) /\ OptionsOK(st)
      BY <1>2, <1>3, <3>2, BecomesGuarded
    <3>4. OptionsOK(r.s)
      BY <1>1, <3>2, <3>3, FindOrCreateOptions
    <3> QED  BY <3>3, <3>4
  <2>2. CASE SetUp
    <3>1. PICK u \in SetUps : Becomes(conversation_new(st, frame, u.ends, u.options, NULL))
      BY <2>2 DEF SetUp
    <3>2. PICK t, none, o, ends : /\ none = NULL /\ o = u.options /\ ends = u.ends
                                  /\ t = conversation_new(st, frame, ends, o, none)
      OBVIOUS
    <3>3. st' = t /\ InOrder(st, {}) /\ OptionsOK(st)
      BY <1>2, <1>3, <3>1, <3>2, BecomesGuarded
    <3>4. PICK v : v = [setup_frame |-> frame, options |-> o, key |-> KeyOf(ends, o),
                        template |-> none, next |-> NULL, last |-> NULL, latest_found |-> NULL]
      OBVIOUS
    <3>5. Added(st, t, Len(st.convs) + 1, v) /\ v.options = o
      BY <1>1, <3>2, <3>3, <3>4, NewInOrder
    <3>6. OptionsFit(v.options)
      BY <3>2, <3>5, OptionsAssumption DEF OptionsFit
    <3>7. OptionsOK(t)
      BY <3>3, <3>5, <3>6, AddedOptions
    <3> QED  BY <3>3, <3>7
  <2>3. CASE Search
    <3>1. PICK p \in Packets, options \in Searches :
             Becomes(find_conversation(st, frame, p, options).s)
      BY <2>3 DEF Search
    <3>2. PICK r : r = find_conversation(st, frame, p, options)
      OBVIOUS
    <3>3. KeysGuarded(st, r.s) /\ st' = r.s /\ InOrder(st, {}) /\ OptionsOK(st)
      BY <1>2, <1>3, <3>1, <3>2, BecomesGuarded
    <3>4. OptionsOK(r.s)
      BY <1>1, <3>2, <3>3, FindOptions
    <3> QED  BY <3>3, <3>4
  <2>4. CASE LaterPass
    <3>1. PICK f \in 1 .. frame : Becomes(find_or_create_conversation(st, f, packets[f]).s)
      BY <2>4 DEF LaterPass
    <3>2. PICK r : r = find_or_create_conversation(st, f, packets[f])
      OBVIOUS
    <3>3. KeysGuarded(st, r.s) /\ st' = r.s /\ InOrder(st, {}) /\ OptionsOK(st)
      BY <1>2, <1>3, <3>1, <3>2, BecomesGuarded
    <3>4. f \in Nat
      BY <1>1
    <3>5. OptionsOK(r.s)
      BY <3>2, <3>3, <3>4, FindOrCreateOptions
    <3> QED  BY <3>3, <3>5
  <2>5. CASE UNCHANGED vars
    <3>1. st' = st /\ filled' = filled
      BY <2>5 DEF vars
    <3> QED  BY <1>2, <1>3, <3>1
  <2> QED  BY <2>1, <2>2, <2>3, <2>4, <2>5 DEF Next
<1> QED  BY <1>3 DEF OptionsInv

\* There are none at first.
LEMMA OptionsInit ==
    ASSUME Init
    PROVE  OptionsInv
<1>1. DOMAIN st.convs = {}
  BY DEF Init, InitTables
<1> QED  BY <1>1 DEF OptionsInv, OptionsOK

\* Where no shared wildcard is replaced, a second visit agrees with the first.
LEMMA VisitsMean ==
    ASSUME TablesInv, OptionsInv, ~SharedWildcards
    PROVE  VisitsAgree
<1>1. InOrder(st, {}) /\ OptionsOK(st) /\ packets \in Seq(Packets)
  BY DEF TablesInv, OptionsInv
<1>2. ASSUME NEW f \in 1 .. frame, NEW once, once = find_or_create_conversation(st, f, packets[f]),
             Allowed(once.s), NEW twice, twice = find_or_create_conversation(once.s, f, packets[f])
      PROVE  twice.conv = once.conv /\ Len(twice.s.convs) = Len(once.s.convs)
  <2>1. PICK p : p = packets[f]
    OBVIOUS
  <2>2. f \in Nat /\ p \in Packets
    BY <1>1, <2>1 DEF frame
  <2>3. KeysGuarded(st, once.s)
    BY <1>2 DEF Allowed, KeysGuarded
  <2> QED  BY <1>1, <1>2, <2>1, <2>2, <2>3, SecondVisit
<1> QED  BY <1>2 DEF VisitsAgree

\* A frame that find_or_create_conversation is called for twice gets the same
\* conversation, and the second call makes none: what a wildcard or a template of the
\* first one was turned into is found again, in either direction; where no wildcard is
\* replaced that another conversation has too.
THEOREM VisitsStayEqual ==
    ASSUME ~SharedWildcards
    PROVE  Spec => []VisitsAgree
<1>1. Init => TablesInv /\ OptionsInv
  BY InitInOrder, OptionsInit
<1>2. TablesInv /\ OptionsInv /\ [Next]_vars => TablesInv' /\ OptionsInv'
  BY TablesStep, OptionsStep
<1>3. TablesInv /\ OptionsInv => VisitsAgree
  BY VisitsMean
<1> QED  BY <1>1, <1>2, <1>3, PTL DEF Spec
=============================================================================
