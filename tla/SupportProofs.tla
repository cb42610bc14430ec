---------------------------- MODULE SupportProofs ----------------------------
(* LinesShowOwnAttrs of the log handlers for any number of handlers and any *)
(* attributes, ShowsEndOfLog of the log buffer for rings of any size,       *)
(* OneDiscoveryClient of the client getter for any number of goroutines,    *)
(* calls and failures, and OwnCRDsServed, CreateLeavesOlderCRDs and         *)
(* SuccessMeansComplete for any runs of actions that share CRDs.            *)
EXTENDS LogHandlers, LogBuffer, RESTClientGetter, ActionRun, TLAPS

(* ~~~~ log handlers ~~~~~~~~~~~~~~~~~~~~~~~~~~~~~~~~~~~~~~~~~~~~~~~~~~~~ *)

Array(T) == [cap : Nat, cells : Seq(T)]
Memory(T) == Seq(Array(T))
Slices == [at : Nat, len : Nat]

\* The elements of one sequence after another.
LEMMA Joined ==
  ASSUME NEW T, NEW s \in Seq(T), NEW t \in Seq(T), NEW i \in 1..(Len(s) + Len(t))
  PROVE  (s \o t)[i] = IF i <= Len(s) THEN s[i] ELSE t[i - Len(s)]
OBVIOUS

LEMMA JoinedLength ==
  ASSUME NEW T, NEW s \in Seq(T), NEW t \in Seq(T)
  PROVE  s \o t \in Seq(T) /\ Len(s \o t) = Len(s) + Len(t)
OBVIOUS

LEMMA ByIndex ==
  ASSUME NEW T, NEW s \in Seq(T)
  PROVE  s = [i \in 1..Len(s) |-> s[i]]
OBVIOUS

LEMMA Listed ==
  ASSUME NEW T, NEW n \in Nat, NEW s, s = [i \in 1..n |-> s[i]], \A i \in 1..n : s[i] \in T
  PROVE  s \in Seq(T) /\ Len(s) = n
OBVIOUS

\* The slice is Nil, or a whole array.
Whole(mem, s) ==
  \/ s = Nil
  \/ s.at \in DOMAIN mem /\ s.len = Len(mem[s.at].cells)

LEMMA WholeElements ==
  ASSUME NEW T, NEW mem \in Memory(T), NEW s \in Slices, Whole(mem, s)
  PROVE  /\ Elements(mem, s) \in Seq(T) /\ Len(Elements(mem, s)) = s.len
         /\ s.at # 0 => Elements(mem, s) = mem[s.at].cells
<1>1. CASE s = Nil
  BY <1>1 DEF Elements, Nil
<1>2. CASE s # Nil
  <2>1. s.at \in DOMAIN mem /\ s.len = Len(mem[s.at].cells)
    BY <1>2, Zenon DEF Whole
  <2>2. s.at \in 1..Len(mem) /\ mem[s.at] \in Array(T)
    BY <2>1 DEF Memory
  <2>3. s.at # 0 /\ mem[s.at].cells \in Seq(T)
    BY <2>2 DEF Array
  <2>4. SubSeq(mem[s.at].cells, 1, s.len) = mem[s.at].cells
    BY <2>1, <2>3
  <2> QED BY <2>1, <2>3, <2>4, Zenon DEF Elements
<1> QED BY <1>1, <1>2, Zenon

\* The memory and the slice in new: an array of its own for the elements of s
\* and more, and the other arrays as they were.
Copied(T, mem, s, more, new) ==
  /\ new.mem \in Memory(T) /\ new.slice \in Slices /\ Whole(new.mem, new.slice)
  /\ Elements(new.mem, new.slice) = Elements(mem, s) \o more
  /\ new.slice.len = s.len + Len(more)
  /\ SubSeq(new.mem, 1, Len(mem)) = mem
  /\ Len(new.mem) = Len(mem) + 1 /\ new.mem[Len(mem) + 1].cells = Elements(mem, s) \o more
  /\ \A i \in DOMAIN mem : new.mem[i] = mem[i]
  /\ \A t \in Slices : Whole(mem, t) =>
       Whole(new.mem, t) /\ Elements(new.mem, t) = Elements(mem, t)

\* Extended copies: it writes to no array there is.
LEMMA ExtendedCopies ==
  ASSUME NEW T, NEW mem \in Memory(T), NEW s \in Slices, Whole(mem, s), NEW more \in Seq(T)
  PROVE  Copied(T, mem, s, more, Extended(mem, s, more))
<1> DEFINE cells == Elements(mem, s) \o more
           array == [cap |-> Len(cells), cells |-> cells]
           longer == Append(mem, array)
           slice == [at |-> Len(mem) + 1, len |-> Len(cells)]
<1>1. Extended(mem, s, more) = [mem |-> longer, slice |-> slice]
  BY Zenon DEF Extended
<1>2. cells \in Seq(T) /\ Len(cells) = s.len + Len(more)
  BY WholeElements
<1> HIDE DEF cells
<1>3. array \in Array(T) /\ Len(mem) \in Nat
  BY <1>2 DEF Memory, Array
<1> HIDE DEF array
<1>4. /\ longer \in Memory(T) /\ Len(longer) = Len(mem) + 1
      /\ longer[Len(mem) + 1] = array
      /\ \A i \in DOMAIN mem : longer[i] = mem[i] /\ i \in DOMAIN longer
      /\ Len(mem) + 1 \in DOMAIN longer
      /\ SubSeq(longer, 1, Len(mem)) = mem
  <2>1. /\ longer \in Memory(T) /\ Len(longer) = Len(mem) + 1
        /\ longer[Len(mem) + 1] = array /\ Len(mem) + 1 \in DOMAIN longer
    BY <1>3 DEF Memory
  <2>2. \A i \in 1..Len(mem) : longer[i] = mem[i] /\ i \in DOMAIN longer
    BY <1>3 DEF Memory
  <2>3. /\ SubSeq(longer, 1, Len(mem)) \in Seq(Array(T))
        /\ Len(SubSeq(longer, 1, Len(mem))) = Len(mem)
        /\ \A i \in 1..Len(mem) : SubSeq(longer, 1, Len(mem))[i] = mem[i]
    BY <1>3, <2>1, <2>2 DEF Memory
  <2>4. SubSeq(longer, 1, Len(mem)) = mem
    BY <2>3 DEF Memory
  <2> QED BY <2>1, <2>2, <2>4 DEF Memory
<1> HIDE DEF longer
<1>5. slice \in Slices /\ Whole(longer, slice)
  BY <1>2, <1>3, <1>4 DEF Slices, Whole, array
<1>6. Elements(longer, slice) = cells
  <2>1. slice.at # 0 /\ longer[slice.at].cells = cells
    BY <1>3, <1>4 DEF array
  <2> QED BY <2>1, <1>4, <1>5, WholeElements, Zenon
<1>7. ASSUME NEW t \in Slices, Whole(mem, t)
      PROVE  Whole(longer, t) /\ Elements(longer, t) = Elements(mem, t)
  <2>1. CASE t = Nil
    BY <2>1, Zenon DEF Whole, Elements, Nil
  <2>2. CASE t # Nil
    <3>1. t.at \in DOMAIN mem /\ t.len = Len(mem[t.at].cells)
      BY <1>7, <2>2, Zenon DEF Whole
    <3>2. longer[t.at] = mem[t.at] /\ t.at \in DOMAIN longer
      BY <1>4, <3>1, Zenon
    <3> QED BY <3>1, <3>2, Zenon DEF Whole, Elements
  <2> QED BY <2>1, <2>2, Zenon
<1>8. Extended(mem, s, more).mem = longer /\ Extended(mem, s, more).slice = slice
  BY <1>1
<1>9. array.cells = cells /\ slice.len = Len(cells)
  BY Zenon DEF array
<1> QED BY <1>2, <1>4, <1>5, <1>6, <1>7, <1>8, <1>9, Zenon DEF Copied, cells

(* ------------------------ handlers and their slices --------------------- *)

Attributes == [group : Slices, key : AttrNames, value : Nat]
Paths == [path : Seq(AttrNames), value : Nat]
Handlers == [attrs : Slices, group : Slices]
Meanings == [attrs : Seq(Paths), group : Seq(AttrNames)]

\* Carried, with any group names.
CarriedIn(gs, mem, s) == [i \in 1..s.len |-> Path(gs, Elements(mem, s)[i])]

Rooted(gs, mem) ==
  \A i \in DOMAIN mem : \A j \in DOMAIN mem[i].cells : Whole(gs, mem[i].cells[j].group)

\* The handler h carries what it was made to carry.
Carries(gs, mem, h, m) ==
  /\ Whole(mem, h.attrs) /\ Whole(gs, h.group)
  /\ Elements(gs, h.group) = m.group
  /\ CarriedIn(gs, mem, h.attrs) = m.attrs

\* The attributes added by withAttrs, mem they are shown.
AddedAttrs(m, names, v) == [i \in DOMAIN names |-> [path |-> Append(m.group, names[i]), value |-> v]]

\* The elements of a slice that names groups in gs.
LEMMA RootedElements ==
  ASSUME NEW gs, NEW mem \in Memory(Attributes), Rooted(gs, mem), NEW s \in Slices, Whole(mem, s),
         NEW i \in 1..s.len
  PROVE  Elements(mem, s)[i] \in Attributes /\ Whole(gs, Elements(mem, s)[i].group)
<1>1. /\ Elements(mem, s) \in Seq(Attributes) /\ Len(Elements(mem, s)) = s.len
      /\ s.at # 0 => Elements(mem, s) = mem[s.at].cells
  BY WholeElements, Zenon
<1>2. s # Nil
  BY DEF Nil, Slices
<1>3. s.at \in DOMAIN mem
  BY <1>2, Zenon DEF Whole
<1>4. s.at # 0
  BY <1>3 DEF Memory
<1>5. Elements(mem, s) = mem[s.at].cells
  BY <1>1, <1>4, Zenon
<1>6. i \in DOMAIN Elements(mem, s)
  BY <1>1
<1>7. Whole(gs, mem[s.at].cells[i].group)
  BY <1>3, <1>5, <1>6, Zenon DEF Rooted
<1>8. Elements(mem, s)[i] \in Attributes
  BY <1>1
<1> QED BY <1>5, <1>7, <1>8, Zenon

\* More group names take nothing from the handlers there are.
LEMMA GroupsGrow ==
  ASSUME NEW gs, NEW more, NEW mem \in Memory(Attributes), Rooted(gs, mem),
         \A t \in Slices : Whole(gs, t) => Whole(more, t) /\ Elements(more, t) = Elements(gs, t)
  PROVE  /\ Rooted(more, mem)
         /\ \A h \in Handlers, m \in Meanings : Carries(gs, mem, h, m) => Carries(more, mem, h, m)
<1>1. Rooted(more, mem)
  <2> SUFFICES ASSUME NEW i \in DOMAIN mem, NEW j \in DOMAIN mem[i].cells
               PROVE  Whole(more, mem[i].cells[j].group)
    BY Zenon DEF Rooted
  <2>1. mem[i] \in Array(Attributes)
    BY DEF Memory
  <2>2. mem[i].cells \in Seq(Attributes)
    BY <2>1, Zenon DEF Array
  <2>3. mem[i].cells[j] \in Attributes
    BY <2>2
  <2>4. mem[i].cells[j].group \in Slices
    BY <2>3, Zenon DEF Attributes
  <2> QED BY <2>4, Zenon DEF Rooted
<1>2. ASSUME NEW h \in Handlers, NEW m \in Meanings, Carries(gs, mem, h, m)
      PROVE  Carries(more, mem, h, m)
  <2>1. h.attrs \in Slices /\ h.group \in Slices
    BY Zenon DEF Handlers
  <2>2. ASSUME NEW i \in 1..h.attrs.len
        PROVE  Path(more, Elements(mem, h.attrs)[i]) = Path(gs, Elements(mem, h.attrs)[i])
    <3>1. Elements(mem, h.attrs)[i] \in Attributes /\ Whole(gs, Elements(mem, h.attrs)[i].group)
      BY <1>2, <2>1, RootedElements, Zenon DEF Carries
    <3>2. Elements(mem, h.attrs)[i].group \in Slices
      BY <3>1, Zenon DEF Attributes
    <3> QED BY <3>1, <3>2, Zenon DEF Path
  <2>3. CarriedIn(more, mem, h.attrs) = CarriedIn(gs, mem, h.attrs)
    BY <2>2, Zenon DEF CarriedIn
  <2> QED BY <1>2, <2>1, <2>3, Zenon DEF Carries
<1> QED BY <1>1, <1>2, Zenon

\* The memory and the slice in new: the slice has the attributes of the handler
\* and then those added, and every handler carries what it did.
AttrsCopied(gs, mem, m, names, v, new) ==
  /\ new.mem \in Memory(Attributes) /\ new.slice \in Slices
  /\ SubSeq(new.mem, 1, Len(mem)) = mem
  /\ Rooted(gs, new.mem) /\ Whole(new.mem, new.slice)
  /\ CarriedIn(gs, new.mem, new.slice) = m.attrs \o AddedAttrs(m, names, v)
  /\ AddedAttrs(m, names, v) \in Seq(Paths)
  /\ \A k \in Handlers, n \in Meanings : Carries(gs, mem, k, n) => Carries(gs, new.mem, k, n)

\* What withAttrs does, for a handler that carries what it was made to carry.
LEMMA AttrsAdded ==
  ASSUME NEW gs \in Memory(AttrNames), NEW mem \in Memory(Attributes), Rooted(gs, mem),
         NEW h \in Handlers, NEW m \in Meanings, Carries(gs, mem, h, m),
         NEW names \in Seq(AttrNames), NEW v \in Nat
  PROVE  AttrsCopied(gs, mem, m, names, v, Extended(mem, h.attrs, Grouped(h, names, v)))
<1> DEFINE more == Grouped(h, names, v)
           new == Extended(mem, h.attrs, more)
           had == Elements(mem, h.attrs)
<1>1. h.attrs \in Slices /\ h.group \in Slices /\ m.attrs \in Seq(Paths) /\ m.group \in Seq(AttrNames)
  BY Zenon DEF Handlers, Meanings
<1>2. /\ more \in Seq(Attributes) /\ Len(more) = Len(names)
      /\ \A i \in 1..Len(names) : more[i] = [group |-> h.group, key |-> names[i], value |-> v]
  <2>1. \A i \in 1..Len(names) : [group |-> h.group, key |-> names[i], value |-> v] \in Attributes
    BY <1>1 DEF Attributes
  <2>2. more = [i \in 1..Len(names) |-> [group |-> h.group, key |-> names[i], value |-> v]]
    BY DEF Grouped
  <2> HIDE DEF more
  <2>3. \A i \in 1..Len(names) : more[i] = [group |-> h.group, key |-> names[i], value |-> v]
    BY <2>2, Zenon
  <2>4. /\ \A i \in 1..Len(names) : more[i] \in Attributes
        /\ more = [i \in 1..Len(names) |-> more[i]] /\ Len(names) \in Nat
    BY <2>1, <2>2, <2>3
  <2> QED BY <2>3, <2>4, Listed, Zenon
<1> HIDE DEF more
<1>3. /\ new.mem \in Memory(Attributes) /\ new.slice \in Slices /\ Whole(new.mem, new.slice)
      /\ Elements(new.mem, new.slice) = had \o more
      /\ new.slice.len = h.attrs.len + Len(more)
      /\ SubSeq(new.mem, 1, Len(mem)) = mem
      /\ Len(new.mem) = Len(mem) + 1 /\ new.mem[Len(mem) + 1].cells = had \o more
      /\ \A i \in DOMAIN mem : new.mem[i] = mem[i]
      /\ \A t \in Slices : Whole(mem, t) =>
           Whole(new.mem, t) /\ Elements(new.mem, t) = Elements(mem, t)
  <2>1. Whole(mem, h.attrs)
    BY Zenon DEF Carries
  <2>2. Copied(Attributes, mem, h.attrs, more, new)
    BY <1>1, <1>2, <2>1, ExtendedCopies, Zenon
  <2> QED BY <2>2, Zenon DEF Copied
<1>4. had \in Seq(Attributes) /\ Len(had) = h.attrs.len
  BY <1>1, WholeElements, Zenon DEF Carries
<1> HIDE DEF new, had
<1>5. \A i \in 1..(Len(had) + Len(more)) :
        (had \o more)[i] = IF i <= Len(had) THEN had[i] ELSE more[i - Len(had)]
  BY <1>2, <1>4, Joined, Zenon
<1>6. Rooted(gs, new.mem)
  <2> SUFFICES ASSUME NEW i \in DOMAIN new.mem, NEW j \in DOMAIN new.mem[i].cells
               PROVE  Whole(gs, new.mem[i].cells[j].group)
    BY Zenon DEF Rooted
  <2>1. CASE i \in DOMAIN mem
    BY <2>1, <1>3, Zenon DEF Rooted
  <2>2. CASE i = Len(mem) + 1
    <3>1. new.mem[i].cells[j] = (had \o more)[j] /\ j \in 1..(Len(had) + Len(more))
      BY <2>2, <1>2, <1>3, <1>4
    <3>2. CASE j <= Len(had)
      <4>1. new.mem[i].cells[j] = had[j] /\ j \in 1..h.attrs.len
        BY <3>1, <3>2, <1>4, <1>5
      <4> QED BY <4>1, <1>1, RootedElements, Zenon DEF Carries, had
    <3>3. CASE j > Len(had)
      <4>1. PICK k \in 1..Len(names) : k = j - Len(had)
        BY <3>1, <3>3, <1>2, <1>4
      <4>2. new.mem[i].cells[j] = more[k]
        BY <3>1, <3>3, <4>1, <1>2, <1>4, <1>5
      <4>3. new.mem[i].cells[j].group = h.group
        <5>1. more[k] = [group |-> h.group, key |-> names[k], value |-> v]
          BY <1>2, Zenon
        <5> QED BY <4>2, <5>1
      <4> QED BY <4>3, Zenon DEF Carries
    <3> QED BY <3>1, <3>2, <3>3, <1>4
  <2> QED BY <2>1, <2>2, <1>3 DEF Memory
<1>7. AddedAttrs(m, names, v) \in Seq(Paths) /\ Len(AddedAttrs(m, names, v)) = Len(names)
      /\ \A i \in 1..Len(names) :
           AddedAttrs(m, names, v)[i] = [path |-> Append(m.group, names[i]), value |-> v]
  <2>1. \A i \in 1..Len(names) : [path |-> Append(m.group, names[i]), value |-> v] \in Paths
    BY <1>1 DEF Paths
  <2>2. AddedAttrs(m, names, v) =
          [i \in 1..Len(names) |-> [path |-> Append(m.group, names[i]), value |-> v]]
    BY DEF AddedAttrs
  <2>3. \A i \in 1..Len(names) :
          AddedAttrs(m, names, v)[i] = [path |-> Append(m.group, names[i]), value |-> v]
    BY <2>2, Zenon
  <2>4. /\ \A i \in 1..Len(names) : AddedAttrs(m, names, v)[i] \in Paths
        /\ AddedAttrs(m, names, v) = [i \in 1..Len(names) |-> AddedAttrs(m, names, v)[i]]
        /\ Len(names) \in Nat
    BY <2>1, <2>2, <2>3
  <2> QED BY <2>3, <2>4, Listed, Zenon
<1>8. CarriedIn(gs, new.mem, new.slice) = m.attrs \o AddedAttrs(m, names, v)
  <2>1. CarriedIn(gs, new.mem, new.slice) =
          [i \in 1..(Len(had) + Len(names)) |-> Path(gs, (had \o more)[i])]
    BY <1>2, <1>3, <1>4, Zenon DEF CarriedIn
  <2>2. m.attrs = [i \in 1..Len(had) |-> Path(gs, had[i])] /\ Len(m.attrs) = Len(had)
    <3>1. m.attrs = [i \in 1..Len(had) |-> Path(gs, had[i])]
      BY <1>4, Zenon DEF Carries, CarriedIn, had
    <3> QED BY <3>1, <1>1, <1>4
  <2>3. ASSUME NEW i \in 1..(Len(had) + Len(names))
        PROVE  Path(gs, (had \o more)[i]) = (m.attrs \o AddedAttrs(m, names, v))[i]
    <3>1. CASE i <= Len(had)
      <4>1. (m.attrs \o AddedAttrs(m, names, v))[i] = m.attrs[i] /\ i \in 1..Len(had)
        BY <3>1, <1>1, <1>4, <1>7, <2>2
      <4>2. m.attrs[i] = Path(gs, had[i])
        BY <4>1, <2>2, Zenon
      <4> QED BY <3>1, <4>1, <4>2, <1>2, <1>5, Zenon
    <3>2. CASE i > Len(had)
      <4>1. PICK k \in 1..Len(names) : k = i - Len(had)
        BY <3>2, <1>2, <1>4
      <4>2. (m.attrs \o AddedAttrs(m, names, v))[i] = AddedAttrs(m, names, v)[k]
        <5>1. i \in 1..(Len(m.attrs) + Len(AddedAttrs(m, names, v))) /\ ~(i <= Len(m.attrs))
          BY <3>2, <1>4, <1>7, <2>2
        <5>2. k = i - Len(m.attrs)
          BY <4>1, <2>2, Zenon
        <5>3. m.attrs \in Seq(Paths) /\ AddedAttrs(m, names, v) \in Seq(Paths)
          BY <1>1, <1>7, Zenon
        <5> QED BY <5>1, <5>2, <5>3, Joined, Zenon
      <4>3. (had \o more)[i] = more[k]
        <5>1. ~(i <= Len(had)) /\ i \in 1..(Len(had) + Len(more))
          BY <3>2, <1>2, <1>4
        <5> QED BY <5>1, <4>1, <1>5, Zenon
      <4>4. Path(gs, more[k]) = [path |-> Append(m.group, names[k]), value |-> v]
        <5>1. more[k] = [group |-> h.group, key |-> names[k], value |-> v]
          BY <1>2, Zenon
        <5>2. more[k].group = h.group /\ more[k].key = names[k] /\ more[k].value = v
          BY <5>1
        <5>3. Elements(gs, h.group) = m.group
          BY Zenon DEF Carries
        <5> QED BY <5>2, <5>3, Zenon DEF Path
      <4>5. AddedAttrs(m, names, v)[k] = [path |-> Append(m.group, names[k]), value |-> v]
        BY <1>7, Zenon
      <4> QED BY <4>2, <4>3, <4>4, <4>5, Zenon
    <3>3. i <= Len(had) \/ i > Len(had)
      BY <1>2, <1>4
    <3> QED BY <3>1, <3>2, <3>3, Zenon
  <2>4. /\ m.attrs \o AddedAttrs(m, names, v) \in Seq(Paths)
        /\ Len(m.attrs \o AddedAttrs(m, names, v)) = Len(had) + Len(names)
    <3>1. /\ m.attrs \o AddedAttrs(m, names, v) \in Seq(Paths)
          /\ Len(m.attrs \o AddedAttrs(m, names, v)) = Len(m.attrs) + Len(AddedAttrs(m, names, v))
      BY <1>1, <1>7, JoinedLength, Zenon
    <3> QED BY <3>1, <1>7, <2>2, Zenon
  <2>5. m.attrs \o AddedAttrs(m, names, v) =
          [i \in 1..(Len(had) + Len(names)) |-> (m.attrs \o AddedAttrs(m, names, v))[i]]
    BY <2>4, ByIndex, Zenon
  <2> QED BY <2>1, <2>3, <2>5, Zenon
<1>9. ASSUME NEW k \in Handlers, NEW n \in Meanings, Carries(gs, mem, k, n)
      PROVE  Carries(gs, new.mem, k, n)
  <2>1. k.attrs \in Slices
    BY Zenon DEF Handlers
  <2>2. Whole(new.mem, k.attrs) /\ Elements(new.mem, k.attrs) = Elements(mem, k.attrs)
    BY <2>1, <1>3, <1>9, Zenon DEF Carries
  <2> QED BY <2>2, <1>9, Zenon DEF Carries, CarriedIn
<1> QED BY <1>3, <1>6, <1>7, <1>8, <1>9, Zenon DEF AttrsCopied, new, more


(* ------------------------------ the invariant --------------------------- *)

\* Every handler carries what it was made to carry, and every attribute of an
\* array names groups that are there.
HInv ==
  /\ groups \in Memory(AttrNames) /\ arrays \in Memory(Attributes)
  /\ handlers \in Seq(Handlers) /\ meant \in Seq(Meanings)
  /\ Len(meant) = Len(handlers)
  /\ Rooted(groups, arrays)
  /\ \A h \in 1..Len(handlers) : Carries(groups, arrays, handlers[h], meant[h])
  /\ LinesShowOwnAttrs

\* One more handler, with what it is made to carry.
LEMMA HandlerAdded ==
  ASSUME NEW gs, NEW mem, NEW hs \in Seq(Handlers), NEW ms \in Seq(Meanings),
         Len(ms) = Len(hs), \A h \in 1..Len(hs) : Carries(gs, mem, hs[h], ms[h]),
         NEW k \in Handlers, NEW n \in Meanings, Carries(gs, mem, k, n)
  PROVE  /\ Append(hs, k) \in Seq(Handlers) /\ Append(ms, n) \in Seq(Meanings)
         /\ Len(Append(ms, n)) = Len(Append(hs, k))
         /\ \A h \in 1..Len(Append(hs, k)) : Carries(gs, mem, Append(hs, k)[h], Append(ms, n)[h])
<1>1. /\ Append(hs, k) \in Seq(Handlers) /\ Append(ms, n) \in Seq(Meanings)
      /\ Len(Append(ms, n)) = Len(Append(hs, k)) /\ Len(Append(hs, k)) = Len(hs) + 1
  OBVIOUS
<1>2. ASSUME NEW h \in 1..Len(Append(hs, k))
      PROVE  Carries(gs, mem, Append(hs, k)[h], Append(ms, n)[h])
  <2>1. CASE h \in 1..Len(hs)
    <3>1. Append(hs, k)[h] = hs[h] /\ Append(ms, n)[h] = ms[h]
      BY <2>1
    <3> QED BY <2>1, <3>1, Zenon
  <2>2. CASE h = Len(hs) + 1
    <3>1. Append(hs, k)[h] = k /\ Append(ms, n)[h] = n
      BY <2>2
    <3> QED BY <3>1, Zenon
  <2>3. h \in 1..Len(hs) \/ h = Len(hs) + 1
    BY <1>1
  <2> QED BY <2>1, <2>2, <2>3, Zenon
<1> QED BY <1>1, <1>2, Zenon

\* A handler derived with attributes of its own.
LEMMA WithAttrsStep ==
  ASSUME HInv, NEW h \in DOMAIN handlers, NEW names \in Seq(AttrNames), WithAttrs(h, names)
  PROVE  HInv'
<1> DEFINE new == withAttrs(handlers[h], names, Value)
           k == [handlers[h] EXCEPT !.attrs = new.slice]
           n == [meant[h] EXCEPT !.attrs = @ \o AddedAttrs(meant[h], names, Value)]
<1>1. /\ h \in 1..Len(handlers) /\ handlers[h] \in Handlers /\ meant[h] \in Meanings
      /\ Value \in Nat
  BY DEF HInv, Value
<1>2. Carries(groups, arrays, handlers[h], meant[h])
  BY <1>1, Zenon DEF HInv
<1>3. /\ new.mem \in Memory(Attributes) /\ new.slice \in Slices
      /\ SubSeq(new.mem, 1, Len(arrays)) = arrays
      /\ Rooted(groups, new.mem) /\ Whole(new.mem, new.slice)
      /\ CarriedIn(groups, new.mem, new.slice) = meant[h].attrs \o AddedAttrs(meant[h], names, Value)
      /\ AddedAttrs(meant[h], names, Value) \in Seq(Paths)
      /\ \A g \in Handlers, m \in Meanings :
           Carries(groups, arrays, g, m) => Carries(groups, new.mem, g, m)
  <2>1. AttrsCopied(groups, arrays, meant[h], names, Value, new)
    BY <1>1, <1>2, AttrsAdded, Zenon DEF HInv, withAttrs
  <2> QED BY <2>1, Zenon DEF AttrsCopied
<1>4. /\ arrays' = new.mem /\ handlers' = Append(handlers, k) /\ meant' = Append(meant, n)
      /\ groups' = groups /\ line' = line
  BY Zenon DEF WithAttrs, AddedAttrs
<1> HIDE DEF new
<1>5. /\ k \in Handlers /\ k.attrs = new.slice /\ k.group = handlers[h].group
      /\ n.attrs = meant[h].attrs \o AddedAttrs(meant[h], names, Value) /\ n.group = meant[h].group
  BY <1>1, <1>3, Zenon DEF Handlers, Meanings
<1>6. n \in Meanings
  <2>1. /\ meant[h].attrs \in Seq(Paths)
    BY <1>1, Zenon DEF Meanings
  <2>2. meant[h].attrs \o AddedAttrs(meant[h], names, Value) \in Seq(Paths)
    BY <2>1, <1>3, JoinedLength, Zenon
  <2> QED BY <1>1, <2>2, Zenon DEF Meanings
<1> HIDE DEF k, n
<1>7. Carries(groups, new.mem, k, n)
  BY <1>2, <1>3, <1>5, Zenon DEF Carries
<1>8. \A g \in 1..Len(handlers) : Carries(groups, new.mem, handlers[g], meant[g])
  <2> SUFFICES ASSUME NEW g \in 1..Len(handlers)
               PROVE  Carries(groups, new.mem, handlers[g], meant[g])
    OBVIOUS
  <2>1. handlers[g] \in Handlers /\ meant[g] \in Meanings
    BY DEF HInv
  <2>2. Carries(groups, arrays, handlers[g], meant[g])
    BY Zenon DEF HInv
  <2> QED BY <2>1, <2>2, <1>3, Zenon
<1>9. /\ handlers \in Seq(Handlers) /\ meant \in Seq(Meanings) /\ Len(meant) = Len(handlers)
      /\ groups \in Memory(AttrNames) /\ LinesShowOwnAttrs
  BY Zenon DEF HInv
<1>10. /\ Append(handlers, k) \in Seq(Handlers) /\ Append(meant, n) \in Seq(Meanings)
       /\ Len(Append(meant, n)) = Len(Append(handlers, k))
       /\ \A g \in 1..Len(Append(handlers, k)) :
            Carries(groups, new.mem, Append(handlers, k)[g], Append(meant, n)[g])
  BY <1>5, <1>6, <1>7, <1>8, <1>9, HandlerAdded, Zenon
<1> QED BY <1>3, <1>4, <1>9, <1>10, Zenon DEF HInv, LinesShowOwnAttrs


\* A handler derived with a group.
LEMMA WithGroupStep ==
  ASSUME HInv, NEW h \in DOMAIN handlers, NEW name \in AttrNames, WithGroup(h, name)
  PROVE  HInv'
<1> DEFINE new == Extended(groups, handlers[h].group, <<name>>)
           k == [handlers[h] EXCEPT !.group = new.slice]
           n == [meant[h] EXCEPT !.group = Append(@, name)]
<1>1. h \in 1..Len(handlers) /\ handlers[h] \in Handlers /\ meant[h] \in Meanings
  BY DEF HInv
<1>2. Carries(groups, arrays, handlers[h], meant[h])
  BY <1>1, Zenon DEF HInv
<1>3. handlers[h].group \in Slices /\ meant[h].group \in Seq(AttrNames)
  BY <1>1, Zenon DEF Handlers, Meanings
<1>4. Copied(AttrNames, groups, handlers[h].group, <<name>>, new)
  <2>1. <<name>> \in Seq(AttrNames) /\ Whole(groups, handlers[h].group)
    BY <1>2 DEF Carries
  <2> QED BY <1>3, <2>1, ExtendedCopies, Zenon DEF HInv
<1>5. /\ groups' = new.mem /\ handlers' = Append(handlers, k) /\ meant' = Append(meant, n)
      /\ arrays' = arrays /\ line' = line
  BY Zenon DEF WithGroup
<1> HIDE DEF new
<1>6. /\ new.mem \in Memory(AttrNames) /\ new.slice \in Slices /\ Whole(new.mem, new.slice)
      /\ Elements(new.mem, new.slice) = Elements(groups, handlers[h].group) \o <<name>>
      /\ \A t \in Slices : Whole(groups, t) =>
           Whole(new.mem, t) /\ Elements(new.mem, t) = Elements(groups, t)
  BY <1>4, Zenon DEF Copied
<1>7. /\ k \in Handlers /\ k.attrs = handlers[h].attrs /\ k.group = new.slice
      /\ n \in Meanings /\ n.attrs = meant[h].attrs /\ n.group = Append(meant[h].group, name)
  <2>1. k \in Handlers /\ k.attrs = handlers[h].attrs /\ k.group = new.slice
    BY <1>1, <1>6, Zenon DEF Handlers
  <2>2. PICK longer \in Seq(AttrNames) : longer = Append(meant[h].group, name)
    <3>1. Append(meant[h].group, name) \in Seq(AttrNames)
      BY <1>3
    <3> QED BY <3>1, Zenon
  <2>3. n = [meant[h] EXCEPT !.group = longer]
    BY <2>2, Zenon
  <2>4. /\ [meant[h] EXCEPT !.group = longer] \in Meanings
        /\ [meant[h] EXCEPT !.group = longer].attrs = meant[h].attrs
        /\ [meant[h] EXCEPT !.group = longer].group = longer
    BY <1>1, Zenon DEF Meanings
  <2> QED BY <2>1, <2>2, <2>3, <2>4, Zenon
<1> HIDE DEF k, n
<1>8. /\ handlers \in Seq(Handlers) /\ meant \in Seq(Meanings) /\ Len(meant) = Len(handlers)
      /\ arrays \in Memory(Attributes) /\ Rooted(groups, arrays) /\ LinesShowOwnAttrs
  BY Zenon DEF HInv
<1>9. /\ Rooted(new.mem, arrays)
      /\ \A g \in Handlers, m \in Meanings :
           Carries(groups, arrays, g, m) => Carries(new.mem, arrays, g, m)
  BY <1>6, <1>8, GroupsGrow, Zenon
<1>10. Carries(new.mem, arrays, k, n)
  <2>1. Carries(new.mem, arrays, handlers[h], meant[h])
    BY <1>1, <1>2, <1>9, Zenon
  <2>2. Elements(new.mem, new.slice) = Append(meant[h].group, name)
    <3>1. Elements(groups, handlers[h].group) = meant[h].group
      BY <1>2, Zenon DEF Carries
    <3> QED BY <3>1, <1>3, <1>6
  <2> QED BY <2>1, <2>2, <1>6, <1>7, Zenon DEF Carries
<1>11. \A g \in 1..Len(handlers) : Carries(new.mem, arrays, handlers[g], meant[g])
  <2> SUFFICES ASSUME NEW g \in 1..Len(handlers)
               PROVE  Carries(new.mem, arrays, handlers[g], meant[g])
    OBVIOUS
  <2>1. handlers[g] \in Handlers /\ meant[g] \in Meanings
    BY DEF HInv
  <2>2. Carries(groups, arrays, handlers[g], meant[g])
    BY Zenon DEF HInv
  <2> QED BY <2>1, <2>2, <1>9, Zenon
<1>12. /\ Append(handlers, k) \in Seq(Handlers) /\ Append(meant, n) \in Seq(Meanings)
       /\ Len(Append(meant, n)) = Len(Append(handlers, k))
       /\ \A g \in 1..Len(Append(handlers, k)) :
            Carries(new.mem, arrays, Append(handlers, k)[g], Append(meant, n)[g])
  BY <1>7, <1>8, <1>10, <1>11, HandlerAdded, Zenon
<1> QED BY <1>5, <1>6, <1>8, <1>9, <1>12, Zenon DEF HInv, LinesShowOwnAttrs

\* A line is written: the copy of the attributes does not outlive it.
LEMMA HandleStep ==
  ASSUME HInv, NEW h \in DOMAIN handlers, NEW names \in Seq(AttrNames), Handle(h, names)
  PROVE  HInv'
<1> DEFINE new == withAttrs(handlers[h], names, 0)
<1>1. h \in 1..Len(handlers) /\ handlers[h] \in Handlers /\ meant[h] \in Meanings
  BY DEF HInv
<1>2. Carries(groups, arrays, handlers[h], meant[h])
  BY <1>1, Zenon DEF HInv
<1>3. /\ SubSeq(new.mem, 1, Len(arrays)) = arrays
      /\ CarriedIn(groups, new.mem, new.slice) = meant[h].attrs \o AddedAttrs(meant[h], names, 0)
  <2>1. PICK v \in Nat : v = 0
    OBVIOUS
  <2>2. AttrsCopied(groups, arrays, meant[h], names, v, withAttrs(handlers[h], names, v))
    BY <1>1, <1>2, AttrsAdded, Zenon DEF HInv, withAttrs
  <2>3. AttrsCopied(groups, arrays, meant[h], names, 0, new)
    BY <2>1, <2>2, Zenon
  <2> QED BY <2>3, Zenon DEF AttrsCopied
<1>4. Carried(new.mem, new.slice) = CarriedIn(groups, new.mem, new.slice)
  BY Zenon DEF Carried, CarriedIn
<1>5. /\ arrays' = SubSeq(new.mem, 1, Len(arrays))
      /\ line' = [shown |-> NestedMap(Carried(new.mem, new.slice)),
                  wanted |-> NestedMap(meant[h].attrs \o AddedAttrs(meant[h], names, 0))]
      /\ groups' = groups /\ handlers' = handlers /\ meant' = meant
  BY Zenon DEF Handle, AddedAttrs
<1> HIDE DEF new
<1>6. LinesShowOwnAttrs'
  BY <1>3, <1>4, <1>5, Zenon DEF LinesShowOwnAttrs
<1> QED BY <1>3, <1>5, <1>6, Zenon DEF HInv

LEMMA HandlersStart ==
  ASSUME HandlersInit
  PROVE  HInv
<1>1. /\ Nil \in Slices
      /\ [attrs |-> Nil, group |-> Nil] \in Handlers
      /\ [attrs |-> << >>, group |-> << >>] \in Meanings
  BY DEF Nil, Slices, Handlers, Meanings
<1>2. /\ groups \in Memory(AttrNames) /\ arrays \in Memory(Attributes) /\ DOMAIN arrays = {}
      /\ handlers \in Seq(Handlers) /\ meant \in Seq(Meanings)
      /\ Len(meant) = Len(handlers) /\ Len(handlers) = 1
  BY <1>1 DEF HandlersInit, Memory
<1>3. Rooted(groups, arrays)
  BY <1>2, Zenon DEF Rooted
<1>4. ASSUME NEW h \in 1..Len(handlers)
      PROVE  Carries(groups, arrays, handlers[h], meant[h])
  <2>1. /\ handlers[h].attrs = Nil /\ handlers[h].group = Nil
        /\ meant[h].attrs = << >> /\ meant[h].group = << >>
    BY <1>2 DEF HandlersInit
  <2>2. Elements(groups, Nil) = << >>
    BY Zenon DEF Elements, Nil
  <2>3. CarriedIn(groups, arrays, Nil) = << >>
    BY DEF CarriedIn, Nil
  <2> QED BY <2>1, <2>2, <2>3, Zenon DEF Carries, Whole
<1>5. LinesShowOwnAttrs
  BY Zenon DEF HandlersInit, LinesShowOwnAttrs
<1> QED BY <1>2, <1>3, <1>4, <1>5, Zenon DEF HInv

\* A line shows the attributes of its handler and of its record, however many
\* handlers were derived from one another and in whatever order they log.
THEOREM LinesAlwaysShowOwnAttrs ==
  HandlersInit /\ [][HandlersNext]_handlerVars => []LinesShowOwnAttrs
<1>1. HandlersInit => HInv
  BY HandlersStart, Zenon
<1>2. ASSUME HInv, [HandlersNext]_handlerVars
      PROVE  HInv'
  <2>1. CASE UNCHANGED handlerVars
    BY <1>2, <2>1, Zenon DEF HInv, LinesShowOwnAttrs, handlerVars
  <2>2. ASSUME NEW h \in DOMAIN handlers, NEW name \in AttrNames, WithGroup(h, name)
        PROVE  HInv'
    BY <1>2, <2>2, WithGroupStep, Zenon
  <2>3. ASSUME NEW h \in DOMAIN handlers,
               NEW names \in [1..1 -> AttrNames] \cup [1..2 -> AttrNames], WithAttrs(h, names)
        PROVE  HInv'
    <3>1. \A n \in Nat : \A f \in [1..n -> AttrNames] : f \in Seq(AttrNames)
      OBVIOUS
    <3>2. names \in Seq(AttrNames)
      BY <3>1, Zenon
    <3> QED BY <1>2, <2>3, <3>2, WithAttrsStep, Zenon
  <2>4. ASSUME NEW h \in DOMAIN handlers, NEW name \in AttrNames, Handle(h, <<name>>)
        PROVE  HInv'
    <3>1. <<name>> \in Seq(AttrNames)
      OBVIOUS
    <3> QED BY <1>2, <2>4, <3>1, HandleStep, Zenon
  <2> QED BY <1>2, <2>1, <2>2, <2>3, <2>4, Zenon DEF HandlersNext
<1>3. HInv => LinesShowOwnAttrs
  BY Zenon DEF HInv
<1> QED BY <1>1, <1>2, <1>3, PTL

(* ~~~~ the log buffer ~~~~~~~~~~~~~~~~~~~~~~~~~~~~~~~~~~~~~~~~~~~~~~~~~~ *)

LogLine == [shown : BOOLEAN, msg : Messages \cup {NoLine.msg}, first : Nat, last : Nat, count : Nat]

LogTypes ==
  /\ ring \in [Positions -> LogLine]
  /\ buf \in Positions
  /\ log \in Seq(Messages)

\* The position of the k-th line back from position b.
BackFrom(b, k) == IF b >= k THEN b - k ELSE b - k + Size

\* The lines back from a position are all the others, and then itself.
LEMMA BackIsPosition ==
  ASSUME NEW b \in Positions, NEW k \in 1..Size
  PROVE  /\ BackFrom(b, k) \in Positions
         /\ BackFrom(b, k) = b <=> k = Size
         /\ \A j \in 1..Size : BackFrom(b, j) = BackFrom(b, k) => j = k
  BY LogAssumption DEF BackFrom, Positions

\* From the next position, everything is one further back.
LEMMA BackFromNext ==
  ASSUME NEW b \in Positions
  PROVE  /\ NextPos(b) \in Positions
         /\ BackFrom(NextPos(b), 1) = b
         /\ \A k \in 1..Size - 1 : BackFrom(NextPos(b), k + 1) = BackFrom(b, k)
  BY LogAssumption DEF BackFrom, NextPos, Positions

\* StandsForLog, of any log.
Stands(l, s) ==
  /\ l.first \in 1..Len(s) /\ l.last \in l.first..Len(s)
  /\ l.count = l.last - l.first
  /\ \A t \in l.first..l.last : s[t] = l.msg

\* What a line stands for is not changed by a message that follows.
LEMMA StandsForLonger ==
  ASSUME NEW l \in LogLine, NEW s \in Seq(Messages), NEW m \in Messages, Stands(l, s)
  PROVE  Stands(l, Append(s, m))
  BY DEF Stands, LogLine

\* A repetition of the last message makes the line stand for one more.
LEMMA StandsForRepeated ==
  ASSUME NEW l \in LogLine, NEW s \in Seq(Messages), Stands(l, s), l.last = Len(s),
         l.msg \in Messages
  PROVE  /\ Stands(Repeated(l, Len(s) + 1), Append(s, l.msg))
         /\ Repeated(l, Len(s) + 1) \in LogLine
         /\ Repeated(l, Len(s) + 1).last = Len(s) + 1
         /\ Repeated(l, Len(s) + 1).shown = l.shown
         /\ Repeated(l, Len(s) + 1).first = l.first
         /\ Repeated(l, Len(s) + 1).msg = l.msg
<1> DEFINE n == Len(s) + 1
           r == Repeated(l, n)
<1>1. n \in Nat /\ l.count + 1 \in Nat
  BY DEF LogLine
<1>2. /\ r.last = n /\ r.shown = l.shown /\ r.first = l.first /\ r.msg = l.msg
      /\ r.count = l.count + 1
  BY Zenon DEF LogLine, Repeated
<1>3. r \in LogLine
  BY <1>1, Zenon DEF LogLine, Repeated
<1> HIDE DEF r
<1>4. Stands(r, Append(s, l.msg))
  BY <1>2 DEF Stands, LogLine
<1> QED BY <1>2, <1>3, <1>4, Zenon DEF r

\* A new line stands for the message just appended.
LEMMA StandsForNew ==
  ASSUME NEW s \in Seq(Messages), NEW m \in Messages
  PROVE  /\ Stands(Line(m, Len(s) + 1), Append(s, m))
         /\ Line(m, Len(s) + 1) \in LogLine
  BY DEF Stands, Line, LogLine

\* The lines of a ring are lines.
LEMMA RecentIsLine ==
  ASSUME LogTypes, NEW k \in 1..Size
  PROVE  Recent(k) \in LogLine /\ Back(k) = BackFrom(buf, k) /\ Back(k) \in Positions
<1>1. Back(k) = BackFrom(buf, k)
  BY Zenon DEF Back, BackFrom
<1> QED BY <1>1, BackIsPosition DEF LogTypes, Recent

\* Of adjacent lines: the older one, k + 1, ends where the newer one begins.
Adjacent(older, newer) ==
  IF older.shown
  THEN newer.shown /\ older.last + 1 = newer.first /\ older.msg # newer.msg
  ELSE newer.shown => newer.first = 1

LEMMA ShownInParts ==
  ShowsEndOfLog <=>
    /\ Recent(1).shown <=> log # << >>
    /\ Recent(1).shown => Recent(1).last = Len(log)
    /\ \A k \in 1..Size : Recent(k).shown => Stands(Recent(k), log)
    /\ \A k \in 1..Size - 1 : Adjacent(Recent(k + 1), Recent(k))
  BY Zenon DEF ShowsEndOfLog, StandsForLog, Stands, Adjacent

\* A repeated message: the latest line changes, the others stay.
LEMMA RepetitionKeeps ==
  ASSUME LogTypes, ShowsEndOfLog, NEW m \in Messages, Appendf(m),
         Recent(1).shown /\ Recent(1).msg = m
  PROVE  LogTypes' /\ ShowsEndOfLog'
<1> DEFINE l == Repeated(Recent(1), Len(log) + 1)
<1>1. /\ Recent(1) \in LogLine /\ Back(1) = BackFrom(buf, 1) /\ Back(1) \in Positions
      /\ 1 \in 1..Size
  BY LogAssumption, RecentIsLine
<1>2. log' = Append(log, m) /\ buf' = buf
  BY Zenon DEF Appendf
<1>3. Stands(Recent(1), log) /\ Recent(1).last = Len(log)
  BY <1>1, ShownInParts, Zenon
<1>4. /\ l \in LogLine /\ l.shown /\ l.first = Recent(1).first /\ l.msg = Recent(1).msg
      /\ l.last = Len(log') /\ Stands(l, log')
  BY <1>1, <1>2, <1>3, StandsForRepeated DEF LogTypes
<1> HIDE DEF l
<1>4a. ring' = [ring EXCEPT ![Back(1)] = l]
  BY Zenon DEF Appendf, Now, l
<1>5. LogTypes'
  BY <1>1, <1>2, <1>4, <1>4a DEF LogTypes
<1>6. Recent(1)' = l
  BY <1>1, <1>2, <1>4a, Zenon DEF LogTypes, Recent, Back
<1>7. \A k \in 2..Size : Recent(k)' = Recent(k)
  <2> SUFFICES ASSUME NEW k \in 2..Size PROVE Recent(k)' = Recent(k)
    OBVIOUS
  <2>1. Back(k) # Back(1) /\ Back(k)' = Back(k) /\ Back(k) \in Positions
    BY <1>1, <1>2, RecentIsLine, BackIsPosition DEF Back, BackFrom, LogTypes
  <2> QED BY <2>1, <1>1, <1>4a, Zenon DEF LogTypes, Recent
<1>9. \A k \in 1..Size : Recent(k)'.shown => Stands(Recent(k)', log')
  <2> SUFFICES ASSUME NEW k \in 2..Size, Recent(k).shown PROVE Stands(Recent(k), log')
    BY <1>4, <1>6, <1>7
  <2> QED BY <1>2, RecentIsLine, ShownInParts, StandsForLonger DEF LogTypes
<1>10. \A k \in 1..Size - 1 : Adjacent(Recent(k + 1)', Recent(k)')
  <2> SUFFICES ASSUME NEW k \in 1..Size - 1 PROVE Adjacent(Recent(k + 1)', Recent(k)')
    OBVIOUS
  <2>1. Recent(k + 1)' = Recent(k + 1) /\ Adjacent(Recent(k + 1), Recent(k))
    BY <1>7, ShownInParts, LogAssumption
  <2>2. CASE k = 1
    BY <2>1, <2>2, <1>4, <1>6, Zenon DEF Adjacent
  <2>3. CASE k # 1
    BY <2>1, <2>3, <1>7, LogAssumption
  <2> QED BY <2>2, <2>3, Zenon
<1>11. log' # << >>
  BY <1>2 DEF LogTypes
<1>12. Recent(1)'.shown /\ Recent(1)'.last = Len(log')
  BY <1>4, <1>6, Zenon
<1> QED BY <1>5, <1>9, <1>10, <1>11, <1>12, Zenon DEF ShowsEndOfLog, StandsForLog, Stands, Adjacent

\* A new message: a line takes the place of the oldest one.
LEMMA NewLineKeeps ==
  ASSUME LogTypes, ShowsEndOfLog, NEW m \in Messages, Appendf(m),
         ~(Recent(1).shown /\ Recent(1).msg = m)
  PROVE  LogTypes' /\ ShowsEndOfLog'
<1> DEFINE l == Line(m, Len(log) + 1)
<1>1. /\ log' = Append(log, m) /\ buf' = NextPos(buf) /\ ring' = [ring EXCEPT ![buf] = l]
  BY Zenon DEF Appendf, Now
<1>2. /\ l \in LogLine /\ l.shown /\ l.first = Len(log) + 1 /\ l.last = Len(log')
      /\ l.msg = m /\ Stands(l, log')
  BY <1>1, StandsForNew DEF LogTypes, Line
<1> HIDE DEF l
<1>3. LogTypes'
  BY <1>1, <1>2, BackFromNext DEF LogTypes
<1>4. Recent(1)' = l
  BY <1>1, BackFromNext DEF LogTypes, Recent, Back, BackFrom
<1>5. \A k \in 1..Size - 1 : Recent(k + 1)' = Recent(k)
  <2> SUFFICES ASSUME NEW k \in 1..Size - 1 PROVE Recent(k + 1)' = Recent(k)
    OBVIOUS
  <2>1. Back(k + 1)' = Back(k)
    BY <1>1, BackFromNext, LogAssumption, Zenon DEF LogTypes, Back, BackFrom
  <2>2. Back(k) # buf /\ Back(k) \in Positions
    BY BackIsPosition, LogAssumption DEF LogTypes, Back, BackFrom
  <2> QED BY <1>1, <2>1, <2>2, Zenon DEF LogTypes, Recent
<1>6. \A k \in 1..Size : Recent(k)'.shown => Stands(Recent(k)', log')
  <2>1. \A k \in 1..Size - 1 : Recent(k).shown => Stands(Recent(k), log')
    <3> SUFFICES ASSUME NEW k \in 1..Size - 1, Recent(k).shown PROVE Stands(Recent(k), log')
      OBVIOUS
    <3>1. k \in 1..Size
      BY LogAssumption
    <3> QED BY <1>1, <3>1, RecentIsLine, ShownInParts, StandsForLonger, Zenon DEF LogTypes
  <2> SUFFICES ASSUME NEW k \in 2..Size, Recent(k)'.shown PROVE Stands(Recent(k)', log')
    BY <1>2, <1>4
  <2>2. k - 1 \in 1..Size - 1 /\ (k - 1) + 1 = k
    BY LogAssumption
  <2>3. Recent(k)' = Recent(k - 1)
    BY <1>5, <2>2, Zenon
  <2> QED BY <2>1, <2>2, <2>3, Zenon
<1>7. \A k \in 1..Size - 1 : Adjacent(Recent(k + 1)', Recent(k)')
  <2> SUFFICES ASSUME NEW k \in 1..Size - 1 PROVE Adjacent(Recent(k + 1)', Recent(k)')
    OBVIOUS
  <2>1. Recent(k + 1)' = Recent(k)
    BY <1>5, Zenon
  <2>2. CASE k = 1
    <3>1. Recent(1).shown => Recent(1).last = Len(log) /\ Recent(1).msg # m
      BY ShownInParts, Zenon
    <3>2. ~Recent(1).shown => Len(log) = 0
      BY ShownInParts DEF LogTypes
    <3> QED BY <2>1, <2>2, <3>1, <3>2, <1>2, <1>4 DEF Adjacent
  <2>3. CASE k # 1
    <3>1. k - 1 \in 1..Size - 1 /\ (k - 1) + 1 = k
      BY <2>3, LogAssumption
    <3>2. Recent(k)' = Recent(k - 1)
      BY <1>5, <3>1, Zenon
    <3> QED BY <2>1, <3>1, <3>2, ShownInParts, Zenon
  <2> QED BY <2>2, <2>3, Zenon
<1>8. log' # << >> /\ Recent(1)'.shown /\ Recent(1)'.last = Len(log')
  BY <1>1, <1>2, <1>4 DEF LogTypes
<1> QED BY <1>3, <1>6, <1>7, <1>8, Zenon DEF ShowsEndOfLog, StandsForLog, Stands, Adjacent

\* The buffer shows the end of the log, each line for a stretch of equal
\* messages (ring Appendf), whatever its size and however often it wrapped.
THEOREM BufferShowsEndOfLog == LogSpec => []ShowsEndOfLog
<1>1. LogInit => LogTypes /\ ShowsEndOfLog
  <2> SUFFICES ASSUME LogInit PROVE LogTypes /\ ShowsEndOfLog
    OBVIOUS
  <2>1. NoLine \in LogLine /\ ~NoLine.shown
    BY Zenon DEF NoLine, LogLine
  <2>2. LogTypes
    BY <2>1, LogAssumption DEF LogInit, LogTypes, Positions
  <2>3. \A k \in 1..Size : Recent(k) = NoLine
    BY <2>2, RecentIsLine, Zenon DEF LogInit, Recent
  <2> QED BY <2>1, <2>2, <2>3, LogAssumption DEF LogInit, ShowsEndOfLog
<1>2. (LogTypes /\ ShowsEndOfLog) /\ [LogNext]_logVars => (LogTypes /\ ShowsEndOfLog)'
  <2> SUFFICES ASSUME LogTypes, ShowsEndOfLog, [LogNext]_logVars
               PROVE  (LogTypes /\ ShowsEndOfLog)'
    OBVIOUS
  <2>1. CASE LogNext
    BY <2>1, RepetitionKeeps, NewLineKeeps, Zenon DEF LogNext
  <2>2. CASE UNCHANGED logVars
    <3>1. UNCHANGED <<ring, buf, log>>
      BY <2>2, Zenon DEF logVars
    <3>2. LogTypes'
      BY <3>1, Zenon DEF LogTypes
    <3>3. \A k : Recent(k)' = Recent(k)
      BY <3>1, Zenon DEF Recent, Back
    <3> QED BY <3>1, <3>2, <3>3, Zenon DEF ShowsEndOfLog, StandsForLog
  <2> QED BY <2>1, <2>2, Zenon
<1> QED BY <1>1, <1>2, PTL DEF LogSpec

(* ~~~~ the client getter ~~~~~~~~~~~~~~~~~~~~~~~~~~~~~~~~~~~~~~~~~~~~~~~ *)

Pcs == {"idle", "mapper", "discovery", "make", "got", "return"}

GetterTypes ==
  /\ restMapper \in Nat /\ discoveryClient \in Nat /\ made \in Nat
  /\ call \in [Goroutines -> [pc : Pcs, for : {"caller", "mapper"}, got : Nat]]

\* Whoever makes the discovery client, or has just taken it, holds the mutex.
MakersHoldMutex ==
  \A g \in Goroutines : call[g].pc \in {"make", "got"} => discoveryMu = {g}

\* The client is made when there is none, and what a call got is the client.
ClientIsKept ==
  \A g \in Goroutines :
    /\ call[g].pc = "make" => discoveryClient = 0
    /\ call[g].pc \in {"got", "return"} =>
         discoveryClient # 0 /\ call[g].got = discoveryClient

\* Before there is a client, nothing uses one.
NoneBefore == discoveryClient = 0 => used = {} /\ restMapper = 0

GetterInv ==
  GetterTypes /\ (Persistent => /\ MakersHoldMutex /\ ClientIsKept
                                /\ NoneBefore /\ OneDiscoveryClient)

\* Initially nobody is in the getter.
LEMMA GetterInitially == GetterInit => GetterInv
  BY DEF GetterInit, GetterInv, GetterTypes, MakersHoldMutex, ClientIsKept, NoneBefore,
         OneDiscoveryClient, NoCall, Pcs

\* A step keeps the types.
LEMMA GetterTypesKept ==
  ASSUME GetterTypes, GetterNext
  PROVE  GetterTypes'
<1>1. PICK g \in Goroutines :
        ToDiscoveryClient(g) \/ ToRESTMapper(g) \/ GetterStep(g) \/ MakeFails(g)
  BY Zenon DEF GetterNext
<1>2. call' \in [Goroutines -> [pc : Pcs, for : {"caller", "mapper"}, got : Nat]]
  <2>1. CASE ToDiscoveryClient(g) \/ ToRESTMapper(g) \/ MakeFails(g) \/ Return(g)
    BY <2>1 DEF ToDiscoveryClient, ToRESTMapper, MakeFails, Return, Goes, NoCall, GetterTypes, Pcs
  <2>2. CASE LockMapper(g)
    BY <2>2, Zenon DEF LockMapper, Goes, GetterTypes, Pcs
  <2>3. CASE LockDiscovery(g)
    <3>1. CASE Persistent /\ discoveryClient # 0
      <4>1. call' = [call EXCEPT ![g] = [@ EXCEPT !.pc = "got", !.got = discoveryClient]]
        BY <2>3, <3>1, Zenon DEF LockDiscovery, Goes
      <4> QED BY <4>1, Zenon DEF GetterTypes, Pcs
    <3>2. CASE ~(Persistent /\ discoveryClient # 0)
      <4>1. call' = [call EXCEPT ![g] = [@ EXCEPT !.pc = "make"]]
        BY <2>3, <3>2, Zenon DEF LockDiscovery, Goes
      <4> QED BY <4>1 DEF GetterTypes, Pcs
    <3> QED BY <3>1, <3>2, Zenon
  <2>4. CASE MakeDiscovery(g)
    <3> DEFINE c == made + 1
    <3>1. c \in Nat
      BY DEF GetterTypes
    <3>2. call' = [call EXCEPT ![g] = [@ EXCEPT !.pc = "got", !.got = c]]
      BY <2>4, Zenon DEF MakeDiscovery, Goes
    <3> HIDE DEF c
    <3> QED BY <3>1, <3>2, Zenon DEF GetterTypes, Pcs
  <2>5. CASE ReturnDiscovery(g)
    BY <2>5 DEF ReturnDiscovery, Goes, GetterTypes, Pcs
  <2> QED BY <1>1, <2>1, <2>2, <2>3, <2>4, <2>5, Zenon DEF GetterStep
<1>3. restMapper' \in Nat /\ discoveryClient' \in Nat /\ made' \in Nat
  BY <1>1 DEF GetterTypes, GetterStep, ToDiscoveryClient, ToRESTMapper, MakeFails, Return,
              LockMapper, LockDiscovery, MakeDiscovery, ReturnDiscovery
<1> QED BY <1>2, <1>3, Zenon DEF GetterTypes

\* A step of a persistent getter keeps the client one.
LEMMA GetterKept ==
  ASSUME GetterInv, GetterNext, Persistent
  PROVE  (MakersHoldMutex /\ ClientIsKept /\ NoneBefore /\ OneDiscoveryClient)'
<1> USE DEF GetterInv, GetterTypes, MakersHoldMutex, ClientIsKept, NoneBefore,
            OneDiscoveryClient, Goes, AtPc
<1>1. PICK g \in Goroutines :
        ToDiscoveryClient(g) \/ ToRESTMapper(g) \/ GetterStep(g) \/ MakeFails(g)
  BY Zenon DEF GetterNext
<1>2. CASE ToDiscoveryClient(g)
  BY <1>2, Zenon DEF ToDiscoveryClient
<1>3. CASE ToRESTMapper(g)
  BY <1>3, Zenon DEF ToRESTMapper
<1>4. CASE LockMapper(g)
  BY <1>4, Zenon DEF LockMapper
<1>5. CASE LockDiscovery(g)
  BY <1>5 DEF LockDiscovery
<1>6. CASE MakeDiscovery(g)
  <2>1. discoveryClient = 0 /\ discoveryMu = {g} /\ discoveryClient' = made + 1
    BY <1>6, Zenon DEF MakeDiscovery
  <2>2. \A h \in Goroutines : h # g => call[h].pc \notin {"make", "got", "return"}
    BY <2>1
  <2> QED BY <1>6, <2>1, <2>2 DEF MakeDiscovery
<1>7. CASE MakeFails(g)
  BY <1>7, Zenon DEF MakeFails, NoCall
<1>8. CASE ReturnDiscovery(g)
  BY <1>8 DEF ReturnDiscovery
<1>9. CASE Return(g)
  BY <1>9, Zenon DEF Return, NoCall
<1> QED BY <1>1, <1>2, <1>3, <1>4, <1>5, <1>6, <1>7, <1>8, <1>9, Zenon DEF GetterStep

\* A persistent getter hands out one discovery client, which its mapper uses
\* (toPersistentDiscoveryClient, toPersistentRESTMapper), however many
\* goroutines call it and however often a client could not be made.
THEOREM OneClientForAll == GetterSpec => []OneDiscoveryClient
<1>1. GetterInv /\ [GetterNext]_getterVars => GetterInv'
  <2> SUFFICES ASSUME GetterInv, [GetterNext]_getterVars PROVE GetterInv'
    OBVIOUS
  <2>1. CASE GetterNext
    BY <2>1, GetterTypesKept, GetterKept, Zenon DEF GetterInv
  <2>2. CASE UNCHANGED getterVars
    BY <2>2, Zenon DEF getterVars, GetterInv, GetterTypes, MakersHoldMutex, ClientIsKept,
                NoneBefore, OneDiscoveryClient
  <2> QED BY <2>1, <2>2, Zenon
<1>2. GetterInv => OneDiscoveryClient
  BY Zenon DEF GetterInv, OneDiscoveryClient
<1> QED BY <1>1, <1>2, GetterInitially, PTL DEF GetterSpec

(* ~~~~ action runs ~~~~~~~~~~~~~~~~~~~~~~~~~~~~~~~~~~~~~~~~~~~~~~~~~~~~~ *)

(* ------------------------------ the invariant ---------------------------- *)

Places == {"begin", "look", "create", "get", "update", "await", "helm", "hook", "load", "done"}
Outcomes == {"none", "error", "timeout", "interrupted", "stopped", "ok"}
RunStates ==
  [pc : Places, left : SUBSET Nat, seen : SUBSET CRDs, items : SUBSET CRDs,
   polled : SUBSET (CRDs \cup {"hook", "load"}), known : SUBSET CRDs, there : SUBSET CRDs,
   result : Outcomes]
Resources == [by : Runs \cup {"none", "other"}, established : BOOLEAN]
Health == {"Absent", "InProgress", "Started", "Current", "Failed"}
Healths == [hook : Health, load : Health]

RunTypes ==
  /\ setup \in Setups
  /\ crd \in [CRDs -> Resources]
  /\ run \in [Runs -> RunStates]
  /\ health \in [Runs -> Healths]
  /\ gone \in SUBSET CRDs

\* The run works on the CRDs of its chart, and on none before it begins.
OnItsCRDs(r) ==
  /\ run[r].left \subseteq FilteredCRDs(r) /\ run[r].seen \subseteq CRDSet(r)
  /\ run[r].pc = "begin" => /\ run[r].items = {} /\ run[r].there = {}
                            /\ \A c \in CRDs : crd[c].by # r

\* What was polled as established, and what the mapper knows, stays so.
Served(r) ==
  /\ run[r].pc = "await" =>
       run[r].polled \subseteq run[r].items /\ run[r].polled \subseteq Established \cup gone
  /\ run[r].pc = "helm" /\ getWaitStrategy(r) # "hookOnly" =>
       run[r].items \subseteq run[r].known \cup gone /\ run[r].items \subseteq Established \cup gone

\* What was there stays, and under server-side apply what is created is not
\* among it: it was looked for.
LeftAlone(r) ==
  /\ \A c \in run[r].there \ gone : Present(c)
  /\ crdPolicyOrDefault(r) = "Create" =>
       /\ run[r].pc \notin {"get", "update"}
       /\ \A c \in run[r].there \ gone : crd[c].by # r
       /\ run[r].pc = "create" /\ ServerSideApply(r) =>
            \A i \in Here(r) : CRDAt(r, i) \notin run[r].there \ gone

HookCompleted(r) == setup[r].hook \in {"Job", "Pod"} => health[r].hook = "Current"
LoadCompleted(r) ==
  setup[r].load = "Job" /\ ~setup[r].disableWaitForJobs => health[r].load = "Current"

\* What was polled as complete stays so.
Completed(r) ==
  /\ run[r].pc = "hook" =>
       run[r].polled \subseteq {"hook"} /\ ("hook" \in run[r].polled => HookCompleted(r))
  /\ run[r].pc = "load" => HookCompleted(r) /\ ("load" \in run[r].polled => LoadCompleted(r))
  /\ run[r].result = "ok" =>
       /\ run[r].pc = "done" /\ HookCompleted(r)
       /\ getWaitStrategy(r) # "hookOnly" => LoadCompleted(r)

RunOK(r) == OnItsCRDs(r) /\ Served(r) /\ LeftAlone(r) /\ Completed(r)

RunInv ==
  RunTypes /\ \A r \in Runs : RunOK(r)

(* ------------------------- types and configuration ----------------------- *)

LEMMA Configured ==
  ASSUME RunTypes, NEW r \in Runs
  PROVE  /\ setup[r] \in Setup /\ FilteredCRDs(r) \in SUBSET Nat
         /\ \A i \in FilteredCRDs(r) : CRDAt(r, i) \in CRDs /\ CRDAt(r, i) \in CRDSet(r)
<1>1. setup[r] \in Setup
  BY SetupsAssumption, Zenon DEF RunTypes
<1>2. setup[r].dir \in Seq(CRDs \cup {NonCRD})
  BY <1>1 DEF Setup
<1>3. FilteredCRDs(r) \in SUBSET Nat
  BY <1>2 DEF FilteredCRDs
<1>4. \A i \in FilteredCRDs(r) : CRDAt(r, i) \in CRDs
  BY <1>2 DEF FilteredCRDs, CRDAt
<1>5. \A i \in FilteredCRDs(r) : CRDAt(r, i) \in CRDSet(r)
  BY Zenon DEF CRDSet
<1> QED BY <1>1, <1>3, <1>4, <1>5, Zenon

\* What a step of run r makes of its state, and of no other one.
Has(x, pc, left, seen, items, polled, known, there, result) ==
  /\ x \in RunStates /\ x.pc = pc /\ x.left = left /\ x.seen = seen /\ x.items = items
  /\ x.polled = polled /\ x.known = known /\ x.there = there /\ x.result = result

LEMMA ToProceed ==
  ASSUME NEW x \in RunStates, NEW pc \in Places, NEW left \in SUBSET Nat,
         NEW polled \in SUBSET (CRDs \cup {"hook", "load"})
  PROVE  Has([x EXCEPT !.pc = pc, !.left = left, !.polled = polled],
             pc, left, x.seen, x.items, polled, x.known, x.there, x.result)
BY DEF RunStates, Has

LEMMA ToEnd ==
  ASSUME NEW x \in RunStates, NEW pc \in Places,
         NEW polled \in SUBSET (CRDs \cup {"hook", "load"}), NEW result \in Outcomes
  PROVE  Has([x EXCEPT !.pc = pc, !.polled = polled, !.result = result],
             pc, x.left, x.seen, x.items, polled, x.known, x.there, result)
BY DEF RunStates, Has

LEMMA ToBegin ==
  ASSUME NEW x \in RunStates, NEW pc \in Places, NEW left \in SUBSET Nat,
         NEW known \in SUBSET CRDs, NEW there \in SUBSET CRDs
  PROVE  Has([x EXCEPT !.pc = pc, !.left = left, !.known = known, !.there = there],
             pc, left, x.seen, x.items, x.polled, known, there, x.result)
BY DEF RunStates, Has

LEMMA ToPass ==
  ASSUME NEW x \in RunStates, NEW left \in SUBSET Nat
  PROVE  Has([x EXCEPT !.left = left],
             x.pc, left, x.seen, x.items, x.polled, x.known, x.there, x.result)
BY DEF RunStates, Has

LEMMA ToMove ==
  ASSUME NEW x \in RunStates, NEW pc \in Places
  PROVE  Has([x EXCEPT !.pc = pc],
             pc, x.left, x.seen, x.items, x.polled, x.known, x.there, x.result)
BY DEF RunStates, Has

LEMMA ToMake ==
  ASSUME NEW x \in RunStates, NEW pc \in Places, NEW left \in SUBSET Nat, NEW items \in SUBSET CRDs
  PROVE  Has([x EXCEPT !.pc = pc, !.left = left, !.items = items],
             pc, left, x.seen, items, x.polled, x.known, x.there, x.result)
BY DEF RunStates, Has

LEMMA ToGet ==
  ASSUME NEW x \in RunStates, NEW left \in SUBSET Nat, NEW seen \in SUBSET CRDs
  PROVE  Has([x EXCEPT !.left = left, !.seen = seen],
             x.pc, left, seen, x.items, x.polled, x.known, x.there, x.result)
BY DEF RunStates, Has

LEMMA ToUpdate ==
  ASSUME NEW x \in RunStates, NEW left \in SUBSET Nat, NEW items \in SUBSET CRDs
  PROVE  Has([x EXCEPT !.left = left, !.items = items],
             x.pc, left, x.seen, items, x.polled, x.known, x.there, x.result)
BY DEF RunStates, Has

LEMMA ToSkip ==
  ASSUME NEW x \in RunStates, NEW pc \in Places, NEW known \in SUBSET CRDs
  PROVE  Has([x EXCEPT !.pc = pc, !.known = known],
             pc, x.left, x.seen, x.items, x.polled, known, x.there, x.result)
BY DEF RunStates, Has

LEMMA ToPoll ==
  ASSUME NEW x \in RunStates,
         NEW polled \in SUBSET (CRDs \cup {"hook", "load"})
  PROVE  Has([x EXCEPT !.polled = polled],
             x.pc, x.left, x.seen, x.items, polled, x.known, x.there, x.result)
BY DEF RunStates, Has

LEMMA ToApply ==
  ASSUME NEW x \in RunStates, NEW pc \in Places,
         NEW polled \in SUBSET (CRDs \cup {"hook", "load"}), NEW known \in SUBSET CRDs
  PROVE  Has([x EXCEPT !.pc = pc, !.polled = polled, !.known = known],
             pc, x.left, x.seen, x.items, polled, known, x.there, x.result)
BY DEF RunStates, Has

\* The other runs are as they were.
Only(r) == run' \in [Runs -> RunStates] /\ \A q \in Runs \ {r} : run'[q] = run[q]

LEMMA Alone ==
  ASSUME RunTypes, NEW r \in Runs, NEW new \in RunStates, Becomes(r, new)
  PROVE  Only(r) /\ run'[r] = new
BY Zenon DEF RunTypes, Becomes, Only


(* ------------------------ what others do to a run ------------------------ *)

\* CRDs that are served or there stay so, unless others delete them.
Gently ==
  /\ setup' = setup /\ gone \subseteq gone' /\ gone' \in SUBSET CRDs
  /\ crd' \in [CRDs -> Resources]
  /\ \A c \in CRDs : crd[c].established => crd'[c].established \/ c \in gone'
  /\ \A c \in CRDs : Present(c) => Present(c)' \/ c \in gone'

LEMMA SameSetup ==
  ASSUME setup' = setup, NEW q \in Runs
  PROVE  /\ getWaitStrategy(q)' = getWaitStrategy(q) /\ ServerSideApply(q)' = ServerSideApply(q)
         /\ crdPolicyOrDefault(q)' = crdPolicyOrDefault(q) /\ CRDSet(q)' = CRDSet(q)
         /\ FilteredCRDs(q)' = FilteredCRDs(q) /\ \A i : CRDAt(q, i)' = CRDAt(q, i)
BY Zenon DEF getWaitStrategy, ServerSideApply, crdPolicyOrDefault, CRDSet, FilteredCRDs, CRDAt

LEMMA GentlyServed ==
  ASSUME RunTypes, Gently, NEW S \in SUBSET CRDs, S \subseteq Established \cup gone
  PROVE  S \subseteq (Established \cup gone)'
BY Zenon DEF RunTypes, Gently, Established

LEMMA GentlyThere ==
  ASSUME RunTypes, Gently, NEW S \in SUBSET CRDs, \A c \in S \ gone : Present(c)
  PROVE  \A c \in S \ gone' : Present(c)'
BY Zenon DEF RunTypes, Gently

LEMMA OthersKept ==
  ASSUME RunTypes, Gently, NEW q \in Runs, RunOK(q), run'[q] = run[q],
         HookCompleted(q) => HookCompleted(q)', LoadCompleted(q) => LoadCompleted(q)',
         \A c \in CRDs : crd'[c].by = q => crd[c].by = q
  PROVE  RunOK(q)'
<1>1. setup' = setup /\ gone \subseteq gone'
  BY Zenon DEF Gently
<1>2. /\ getWaitStrategy(q)' = getWaitStrategy(q) /\ ServerSideApply(q)' = ServerSideApply(q)
      /\ crdPolicyOrDefault(q)' = crdPolicyOrDefault(q) /\ CRDSet(q)' = CRDSet(q)
      /\ FilteredCRDs(q)' = FilteredCRDs(q) /\ \A i : CRDAt(q, i)' = CRDAt(q, i)
  BY <1>1, SameSetup, Zenon
<1>3. /\ run[q] \in RunStates /\ run[q].items \in SUBSET CRDs /\ run[q].there \in SUBSET CRDs
  <2>1. run[q] \in RunStates
    BY Zenon DEF RunTypes
  <2> QED BY <2>1 DEF RunStates
<1>4. OnItsCRDs(q)'
  BY <1>2, Zenon DEF RunOK, OnItsCRDs
<1>5. Served(q)'
  <2>1. ASSUME run[q].pc = "await"
        PROVE  /\ run'[q].polled \subseteq run'[q].items
               /\ run'[q].polled \subseteq (Established \cup gone)'
    <3>1. run[q].polled \subseteq run[q].items /\ run[q].polled \subseteq Established \cup gone
      BY <2>1, Zenon DEF RunOK, Served
    <3>2. run[q].polled \in SUBSET CRDs
      BY <1>3, <3>1, Zenon
    <3> QED BY <3>1, <3>2, GentlyServed, Zenon
  <2>2. ASSUME run[q].pc = "helm", getWaitStrategy(q) # "hookOnly"
        PROVE  /\ run'[q].items \subseteq run'[q].known \cup gone'
               /\ run'[q].items \subseteq (Established \cup gone)'
    <3>1. /\ run[q].items \subseteq run[q].known \cup gone
          /\ run[q].items \subseteq Established \cup gone
      BY <2>2, Zenon DEF RunOK, Served
    <3>2. run[q].items \subseteq (Established \cup gone)'
      BY <1>3, <3>1, GentlyServed, Zenon
    <3> QED BY <1>1, <3>1, <3>2, Zenon
  <2> QED BY <1>2, <2>1, <2>2, Zenon DEF Served
<1>6. LeftAlone(q)'
  <2>1. \A c \in run'[q].there \ gone' : Present(c)'
    BY <1>3, GentlyThere, Zenon DEF RunOK, LeftAlone
  <2>2. Here(q)' = Here(q)
    BY Zenon DEF Here
  <2>3. ASSUME crdPolicyOrDefault(q) = "Create"
        PROVE  /\ run'[q].pc \notin {"get", "update"}
               /\ \A c \in run'[q].there \ gone' : crd'[c].by # q
               /\ run'[q].pc = "create" /\ ServerSideApply(q) =>
                    \A i \in Here(q) : CRDAt(q, i) \notin run'[q].there \ gone'
    <3>1. /\ run[q].pc \notin {"get", "update"}
          /\ \A c \in run[q].there \ gone : crd[c].by # q
          /\ run[q].pc = "create" /\ ServerSideApply(q) =>
               \A i \in Here(q) : CRDAt(q, i) \notin run[q].there \ gone
      BY <2>3, Zenon DEF RunOK, LeftAlone
    <3> QED BY <1>1, <1>3, <3>1, Zenon
  <2> QED BY <1>2, <2>1, <2>2, <2>3, Zenon DEF LeftAlone
<1>7. Completed(q)'
  BY <1>2, Zenon DEF RunOK, Completed
<1> QED BY <1>4, <1>5, <1>6, <1>7, Zenon DEF RunOK


(* ------------------------- what a run does itself ------------------------ *)

\* What the next state of run r has to satisfy.
Fit(r, pc, left, seen, items, polled, known, there, result) ==
  /\ left \subseteq FilteredCRDs(r) /\ seen \subseteq CRDSet(r) /\ pc # "begin"
  /\ pc = "await" => polled \subseteq items /\ polled \subseteq Established \cup gone
  /\ pc = "helm" /\ getWaitStrategy(r) # "hookOnly" =>
       items \subseteq known \cup gone /\ items \subseteq Established \cup gone
  /\ \A c \in there \ gone : Present(c)
  /\ crdPolicyOrDefault(r) = "Create" =>
       /\ pc \notin {"get", "update"}
       /\ \A c \in there \ gone : crd'[c].by # r
       /\ pc = "create" /\ ServerSideApply(r) =>
            \A i \in left : (\A j \in left : i <= j) => CRDAt(r, i) \notin there \ gone
  /\ pc = "hook" => polled \subseteq {"hook"} /\ ("hook" \in polled => HookCompleted(r)')
  /\ pc = "load" => HookCompleted(r)' /\ ("load" \in polled => LoadCompleted(r)')
  /\ result = "ok" => /\ pc = "done" /\ HookCompleted(r)'
                      /\ getWaitStrategy(r) # "hookOnly" => LoadCompleted(r)'

LEMMA FitIsOK ==
  ASSUME RunTypes, Gently, gone' = gone, NEW r \in Runs, NEW pc, NEW left, NEW seen, NEW items,
         NEW polled, NEW known, NEW there, NEW result,
         Has(run'[r], pc, left, seen, items, polled, known, there, result),
         Fit(r, pc, left, seen, items, polled, known, there, result)
  PROVE  RunOK(r)'
<1>1. /\ run'[r] \in RunStates /\ run'[r].pc = pc /\ run'[r].left = left /\ run'[r].seen = seen
      /\ run'[r].items = items /\ run'[r].polled = polled /\ run'[r].known = known
      /\ run'[r].there = there /\ run'[r].result = result
  BY Zenon DEF Has
<1>2. setup' = setup
  BY Zenon DEF Gently
<1>3. /\ getWaitStrategy(r)' = getWaitStrategy(r) /\ ServerSideApply(r)' = ServerSideApply(r)
      /\ crdPolicyOrDefault(r)' = crdPolicyOrDefault(r) /\ CRDSet(r)' = CRDSet(r)
      /\ FilteredCRDs(r)' = FilteredCRDs(r) /\ \A i : CRDAt(r, i)' = CRDAt(r, i)
  BY <1>2, SameSetup, Zenon
<1>4. items \in SUBSET CRDs /\ there \in SUBSET CRDs
  BY <1>1 DEF RunStates
<1>5. OnItsCRDs(r)'
  BY <1>1, <1>3, Zenon DEF Fit, OnItsCRDs
<1>6. Served(r)'
  <2>1. ASSUME pc = "await"
        PROVE  polled \subseteq items /\ polled \subseteq (Established \cup gone)'
    <3>1. polled \subseteq items /\ polled \subseteq Established \cup gone
      BY <2>1, Zenon DEF Fit
    <3>2. polled \in SUBSET CRDs
      BY <1>4, <3>1, Zenon
    <3> QED BY <3>1, <3>2, GentlyServed, Zenon
  <2>2. ASSUME pc = "helm", getWaitStrategy(r) # "hookOnly"
        PROVE  /\ items \subseteq known \cup gone'
               /\ items \subseteq (Established \cup gone)'
    <3>1. items \subseteq known \cup gone /\ items \subseteq Established \cup gone
      BY <2>2, Zenon DEF Fit
    <3>2. items \subseteq (Established \cup gone)'
      BY <1>4, <3>1, GentlyServed, Zenon
    <3> QED BY <3>1, <3>2, Zenon
  <2> QED BY <1>1, <1>3, <2>1, <2>2, Zenon DEF Served
<1>7. LeftAlone(r)'
  <2>1. \A c \in there \ gone' : Present(c)'
    <3>1. \A c \in there \ gone : Present(c)
      BY Zenon DEF Fit
    <3> QED BY <1>4, <3>1, GentlyThere, Zenon
  <2>2. ASSUME crdPolicyOrDefault(r) = "Create"
        PROVE  /\ pc \notin {"get", "update"}
               /\ \A c \in there \ gone' : crd'[c].by # r
               /\ pc = "create" /\ ServerSideApply(r) =>
                    \A i \in left : (\A j \in left : i <= j) => CRDAt(r, i) \notin there \ gone'
    BY <2>2, Zenon DEF Fit
  <2>3. Here(r)' = {i \in left : \A j \in left : i <= j}
    BY <1>1, Zenon DEF Here
  <2> QED BY <1>1, <1>3, <2>1, <2>2, <2>3, Zenon DEF LeftAlone
<1>8. Completed(r)'
  BY <1>1, <1>3, Zenon DEF Fit, Completed
<1> QED BY <1>5, <1>6, <1>7, <1>8, Zenon DEF RunOK

\* A step of run r, as far as the others are concerned.
Steps(r) ==
  /\ Only(r) /\ Gently /\ gone' = gone
  /\ health' \in [Runs -> Healths] /\ \A q \in Runs \ {r} : health'[q] = health[q]
  /\ \A c \in CRDs : crd'[c].by \in {crd[c].by, r}

LEMMA StepKeeps ==
  ASSUME RunInv, NEW r \in Runs, Steps(r), RunOK(r)'
  PROVE  RunInv'
<1>1. RunTypes'
  BY Zenon DEF RunInv, RunTypes, Steps, Only, Gently
<1>2. ASSUME NEW q \in Runs \ {r} PROVE RunOK(q)'
  <2>1. run'[q] = run[q] /\ health'[q] = health[q] /\ setup' = setup /\ Gently
    BY Zenon DEF Steps, Only, Gently
  <2>2. \A c \in CRDs : crd'[c].by = q => crd[c].by = q
    BY Zenon DEF Steps
  <2>3. (HookCompleted(q) => HookCompleted(q)') /\ (LoadCompleted(q) => LoadCompleted(q)')
    BY <2>1, Zenon DEF HookCompleted, LoadCompleted
  <2> QED BY <2>1, <2>2, <2>3, OthersKept, Zenon DEF RunInv
<1> QED BY <1>1, <1>2, Zenon DEF RunInv

\* No CRD changes, or run r makes one.
LEMMA Quietly ==
  ASSUME RunTypes, UNCHANGED <<setup, crd, gone>>
  PROVE  Gently /\ \A c \in CRDs : crd'[c].by = crd[c].by
BY Zenon DEF RunTypes, Gently, Present

LEMMA Making ==
  ASSUME RunTypes, NEW r \in Runs, NEW d \in CRDs, UNCHANGED <<setup, gone>>,
         crd' = [crd EXCEPT ![d] = Made(r, d)]
  PROVE  /\ Gently /\ crd'[d].by = r
         /\ \A c \in CRDs \ {d} : crd'[c] = crd[c]
<1>1. Made(r, d) \in Resources /\ Made(r, d).by = r /\ Made(r, d).established = crd[d].established
  BY DEF RunTypes, Made, Resources
<1>2. crd' \in [CRDs -> Resources] /\ crd'[d] = Made(r, d) /\ \A c \in CRDs \ {d} : crd'[c] = crd[c]
  BY <1>1, Zenon DEF RunTypes
<1>3. r # "none"
  BY SetupsAssumption, Zenon
<1>4. \A c \in CRDs : crd[c].established => crd'[c].established
  BY <1>1, <1>2, Zenon
<1>5. \A c \in CRDs : Present(c) => Present(c)'
  BY <1>1, <1>2, <1>3, Zenon DEF Present
<1> QED BY <1>1, <1>2, <1>4, <1>5, Zenon DEF Gently, RunTypes


LEMMA RunTyped ==
  ASSUME RunInv, NEW r \in Runs
  PROVE  /\ run[r] \in RunStates /\ run[r].pc \in Places /\ run[r].left \in SUBSET Nat
         /\ run[r].seen \in SUBSET CRDs /\ run[r].items \in SUBSET CRDs
         /\ run[r].polled \in SUBSET (CRDs \cup {"hook", "load"})
         /\ run[r].known \in SUBSET CRDs /\ run[r].there \in SUBSET CRDs
         /\ run[r].result \in Outcomes
<1>1. run[r] \in RunStates
  BY Zenon DEF RunInv, RunTypes
<1> QED BY <1>1 DEF RunStates

\* A step of run r that fits keeps the invariant.
LEMMA Fits ==
  ASSUME RunInv, NEW r \in Runs, NEW new, Becomes(r, new), NEW pc, NEW left, NEW seen, NEW items,
         NEW polled, NEW known, NEW there, NEW result,
         Has(new, pc, left, seen, items, polled, known, there, result),
         Fit(r, pc, left, seen, items, polled, known, there, result),
         Gently, gone' = gone, \A c \in CRDs : crd'[c].by \in {crd[c].by, r},
         health' \in [Runs -> Healths], \A q \in Runs \ {r} : health'[q] = health[q]
  PROVE  RunInv'
<1>1. RunTypes /\ new \in RunStates
  BY Zenon DEF RunInv, Has
<1>2. Only(r) /\ run'[r] = new
  BY <1>1, Alone, Zenon
<1>3. RunOK(r)'
  BY <1>1, <1>2, FitIsOK, Zenon
<1>4. Steps(r)
  BY <1>2, Zenon DEF Steps
<1> QED BY <1>3, <1>4, StepKeeps, Zenon

LEMMA FitsQuietly ==
  ASSUME RunInv, NEW r \in Runs, NEW new, Becomes(r, new), NEW pc, NEW left, NEW seen, NEW items,
         NEW polled, NEW known, NEW there, NEW result,
         Has(new, pc, left, seen, items, polled, known, there, result),
         Fit(r, pc, left, seen, items, polled, known, there, result),
         UNCHANGED <<setup, crd, gone, health>>
  PROVE  RunInv'
<1>1. RunTypes /\ health' \in [Runs -> Healths] /\ \A q \in Runs \ {r} : health'[q] = health[q]
  BY Zenon DEF RunInv, RunTypes
<1>2. Gently /\ \A c \in CRDs : crd'[c].by = crd[c].by
  BY <1>1, Quietly, Zenon
<1>3. \A c \in CRDs : crd'[c].by \in {crd[c].by, r}
  BY <1>2, Zenon
<1> QED BY <1>1, <1>2, <1>3, Fits, Zenon

LEMMA FitsMaking ==
  ASSUME RunInv, NEW r \in Runs, NEW new, Becomes(r, new), NEW pc, NEW left, NEW seen, NEW items,
         NEW polled, NEW known, NEW there, NEW result,
         Has(new, pc, left, seen, items, polled, known, there, result),
         Fit(r, pc, left, seen, items, polled, known, there, result),
         UNCHANGED <<setup, gone, health>>,
         NEW d \in CRDs, crd' = [crd EXCEPT ![d] = Made(r, d)]
  PROVE  RunInv'
<1>1. RunTypes /\ health' \in [Runs -> Healths] /\ \A q \in Runs \ {r} : health'[q] = health[q]
  BY Zenon DEF RunInv, RunTypes
<1>2. /\ Gently /\ crd'[d].by = r
      /\ \A c \in CRDs \ {d} : crd'[c] = crd[c]
  BY <1>1, Making, Zenon
<1>3. \A c \in CRDs : crd'[c].by \in {crd[c].by, r}
  BY <1>2, Zenon
<1> QED BY <1>1, <1>2, <1>3, Fits, Zenon

\* What is known of a run that has not ended, in the terms of Fit.
LEMMA Going ==
  ASSUME RunInv, NEW r \in Runs
  PROVE  /\ run[r].left \subseteq FilteredCRDs(r) /\ run[r].seen \subseteq CRDSet(r)
         /\ FilteredCRDs(r) \in SUBSET Nat /\ Established \in SUBSET CRDs
         /\ \A c \in run[r].there \ gone : Present(c)
         /\ crdPolicyOrDefault(r) = "Create" =>
              run[r].pc \notin {"get", "update"} /\ \A c \in run[r].there \ gone : crd[c].by # r
         /\ run[r].result = "ok" => run[r].pc = "done"
<1>1. RunTypes /\ OnItsCRDs(r) /\ LeftAlone(r) /\ Completed(r)
  BY Zenon DEF RunInv, RunOK
<1>2. FilteredCRDs(r) \in SUBSET Nat /\ Established \in SUBSET CRDs
  BY <1>1, Configured, Zenon DEF Established
<1> QED BY <1>1, <1>2, Zenon DEF OnItsCRDs, LeftAlone, Completed

\* A run that ends without success, and has made no CRD that was there.
LEMMA EndFits ==
  ASSUME RunInv, NEW r \in Runs, NEW result \in Outcomes, result # "ok", Ends(r, result),
         crdPolicyOrDefault(r) = "Create" => \A c \in run[r].there \ gone : crd'[c].by # r
  PROVE  /\ Becomes(r, [run[r] EXCEPT !.pc = "done", !.polled = {}, !.result = result])
         /\ Has([run[r] EXCEPT !.pc = "done", !.polled = {}, !.result = result], "done",
                run[r].left, run[r].seen, run[r].items, {}, run[r].known, run[r].there, result)
         /\ Fit(r, "done", run[r].left, run[r].seen, run[r].items, {}, run[r].known,
                run[r].there, result)
<1>1. Becomes(r, [run[r] EXCEPT !.pc = "done", !.polled = {}, !.result = result])
  BY Zenon DEF Ends
<1>2. run[r] \in RunStates /\ "done" \in Places /\ {} \in SUBSET (CRDs \cup {"hook", "load"})
      /\ run[r].left \in SUBSET Nat /\ run[r].seen \in SUBSET CRDs /\ run[r].items \in SUBSET CRDs
      /\ run[r].known \in SUBSET CRDs /\ run[r].there \in SUBSET CRDs
  BY RunTyped, Zenon DEF Places
<1>3. Has([run[r] EXCEPT !.pc = "done", !.polled = {}, !.result = result], "done",
                run[r].left, run[r].seen, run[r].items, {}, run[r].known, run[r].there, result)
  BY <1>2, ToEnd, Zenon
<1>4. Fit(r, "done", run[r].left, run[r].seen, run[r].items, {}, run[r].known,
                run[r].there, result)
  BY Going, Zenon DEF Fit
<1> QED BY <1>1, <1>3, <1>4, Zenon

LEMMA EndKeeps ==
  ASSUME RunInv, NEW r \in Runs, NEW result \in Outcomes, result # "ok", Ends(r, result),
         UNCHANGED <<setup, crd, gone, health>>
  PROVE  RunInv'
<1>1. crdPolicyOrDefault(r) = "Create" => \A c \in run[r].there \ gone : crd'[c].by # r
  BY Going, Zenon
<1>2. /\ Becomes(r, [run[r] EXCEPT !.pc = "done", !.polled = {}, !.result = result])
      /\ Has([run[r] EXCEPT !.pc = "done", !.polled = {}, !.result = result], "done",
             run[r].left, run[r].seen, run[r].items, {}, run[r].known, run[r].there, result)
      /\ Fit(r, "done", run[r].left, run[r].seen, run[r].items, {}, run[r].known,
             run[r].there, result)
  BY <1>1, EndFits, Zenon
<1> QED BY <1>2, FitsQuietly, Zenon


(* ------------------------- the steps that apply CRDs --------------------- *)

LEMMA ProceedHas ==
  ASSUME RunInv, NEW r \in Runs, NEW pc \in Places, Proceeds(r, pc)
  PROVE  /\ Becomes(r, [run[r] EXCEPT !.pc = pc, !.left = FilteredCRDs(r), !.polled = {}])
         /\ Has([run[r] EXCEPT !.pc = pc, !.left = FilteredCRDs(r), !.polled = {}], pc,
                FilteredCRDs(r), run[r].seen, run[r].items, {}, run[r].known, run[r].there,
                run[r].result)
<1>1. run[r] \in RunStates /\ {} \in SUBSET (CRDs \cup {"hook", "load"})
      /\ FilteredCRDs(r) \in SUBSET Nat /\ run[r].seen \in SUBSET CRDs
      /\ run[r].items \in SUBSET CRDs /\ run[r].known \in SUBSET CRDs
      /\ run[r].there \in SUBSET CRDs /\ run[r].result \in Outcomes
  BY RunTyped, Going, Zenon
<1> QED BY <1>1, ToProceed, Zenon DEF Proceeds

\* The first CRD of what is left.
LEMMA First ==
  ASSUME RunInv, NEW r \in Runs, NEW i \in Here(r)
  PROVE  /\ i \in run[r].left /\ CRDAt(r, i) \in CRDs /\ CRDAt(r, i) \in CRDSet(r)
         /\ \A j \in run[r].left : (\A k \in run[r].left : j <= k) => j = i
         /\ Past(r, i) \in SUBSET Nat /\ Past(r, i) \subseteq FilteredCRDs(r)
<1>1. i \in run[r].left /\ \A k \in run[r].left : i <= k
  BY Zenon DEF Here
<1>2. run[r].left \subseteq FilteredCRDs(r) /\ run[r].left \in SUBSET Nat /\ RunTypes
  BY Going, RunTyped, Zenon DEF RunInv
<1>3. CRDAt(r, i) \in CRDs /\ CRDAt(r, i) \in CRDSet(r)
  BY <1>1, <1>2, Configured, Zenon
<1>4. ASSUME NEW j \in run[r].left, \A k \in run[r].left : j <= k PROVE j = i
  <2>1. i <= j /\ j <= i /\ i \in Nat /\ j \in Nat
    BY <1>1, <1>2, <1>4, Zenon
  <2> QED BY <2>1
<1>5. Past(r, i) \in SUBSET Nat /\ Past(r, i) \subseteq FilteredCRDs(r)
  BY <1>2, Zenon DEF Past
<1> QED BY <1>1, <1>3, <1>4, <1>5, Zenon

LEMMA NextPlace ==
  ASSUME NEW r \in Runs
  PROVE  /\ NextCRD(r) \in Places /\ NextCRD(r) \in {"look", "create"}
         /\ NextCRD(r) = "create" => ~ServerSideApply(r)
BY Zenon DEF NextCRD, Places

LEMMA BeginKeeps ==
  ASSUME RunInv, NEW r \in Runs, Begin(r)
  PROVE  RunInv'
<1> DEFINE pc == IF crdPolicyOrDefault(r) = "CreateReplace" THEN "get" ELSE NextCRD(r)
           new == [run[r] EXCEPT !.pc = pc, !.left = FilteredCRDs(r), !.known = Established,
                     !.there = {c \in CRDs : Present(c)}]
<1>1. run[r].pc = "begin" /\ UNCHANGED <<setup, crd, gone, health>>
  BY Zenon DEF Begin, World, At
<1>2. /\ run[r].items = {} /\ run[r].there = {} /\ \A c \in CRDs : crd[c].by # r
  BY <1>1, Zenon DEF RunInv, RunOK, OnItsCRDs
<1>3. run[r].result # "ok" /\ "helm" \in Places /\ "error" \in Outcomes
  BY <1>1, Going, Zenon DEF Places, Outcomes
<1>4. CASE Ends(r, "error")
  BY <1>1, <1>3, <1>4, EndKeeps, Zenon
<1>5. CASE Proceeds(r, "helm")
  <2>1. Fit(r, "helm", FilteredCRDs(r), run[r].seen, run[r].items, {}, run[r].known, run[r].there,
            run[r].result)
    BY <1>1, <1>2, <1>3, Going, Zenon DEF Fit
  <2> QED BY <1>1, <1>3, <1>5, <2>1, ProceedHas, FitsQuietly, Zenon
<1>6. CASE Becomes(r, new)
  <2>1. pc \in Places /\ pc \in {"get", "look", "create"}
        /\ (pc = "create" => ~ServerSideApply(r))
        /\ (crdPolicyOrDefault(r) = "Create" => pc # "get")
    BY NextPlace, Zenon DEF Places
  <2>2. {c \in CRDs : Present(c)} \in SUBSET CRDs
    BY Zenon
  <2> HIDE DEF pc
  <2>3. Has(new, pc, FilteredCRDs(r), run[r].seen, run[r].items, run[r].polled, Established,
            {c \in CRDs : Present(c)}, run[r].result)
    <3>1. run[r] \in RunStates /\ FilteredCRDs(r) \in SUBSET Nat /\ Established \in SUBSET CRDs
          /\ run[r].seen \in SUBSET CRDs /\ run[r].items \in SUBSET CRDs
          /\ run[r].polled \in SUBSET (CRDs \cup {"hook", "load"}) /\ run[r].result \in Outcomes
      BY RunTyped, Going, Zenon
    <3> QED BY <2>1, <2>2, <3>1, ToBegin, Zenon
  <2>4. Fit(r, pc, FilteredCRDs(r), run[r].seen, run[r].items, run[r].polled, Established,
            {c \in CRDs : Present(c)}, run[r].result)
    BY <1>1, <1>2, <1>3, <2>1, Going, Zenon DEF Fit
  <2> QED BY <1>1, <1>6, <2>3, <2>4, FitsQuietly, Zenon
<1> QED BY <1>4, <1>5, <1>6, Zenon DEF Begin

LEMMA LookKeeps ==
  ASSUME RunInv, NEW r \in Runs, LookForCRD(r)
  PROVE  RunInv'
<1>1. run[r].pc = "look" /\ UNCHANGED <<setup, crd, gone, health>>
  BY Zenon DEF LookForCRD, World, At
<1>2. PICK i \in Here(r) :
        Becomes(r, IF Present(CRDAt(r, i)) THEN [run[r] EXCEPT !.left = Past(r, i)]
                   ELSE [run[r] EXCEPT !.pc = "create"])
  BY Zenon DEF LookForCRD
<1>3. /\ run[r] \in RunStates /\ run[r].pc \in Places /\ run[r].left \in SUBSET Nat
      /\ run[r].seen \in SUBSET CRDs /\ run[r].items \in SUBSET CRDs
      /\ run[r].polled \in SUBSET (CRDs \cup {"hook", "load"})
      /\ run[r].known \in SUBSET CRDs /\ run[r].there \in SUBSET CRDs
      /\ run[r].result \in Outcomes /\ run[r].result # "ok" /\ "create" \in Places
  BY <1>1, RunTyped, Going, Zenon DEF Places
<1>4. CASE Present(CRDAt(r, i))
  <2>1. Becomes(r, [run[r] EXCEPT !.left = Past(r, i)])
    BY <1>2, <1>4, Zenon
  <2>2. Has([run[r] EXCEPT !.left = Past(r, i)], "look", Past(r, i), run[r].seen, run[r].items,
            run[r].polled, run[r].known, run[r].there, run[r].result)
    BY <1>1, <1>3, First, ToPass, Zenon
  <2>3. Fit(r, "look", Past(r, i), run[r].seen, run[r].items,
            run[r].polled, run[r].known, run[r].there, run[r].result)
    <3>1. Past(r, i) \subseteq FilteredCRDs(r)
      BY First, Zenon
    <3> QED BY <1>1, <1>3, <3>1, Going, Zenon DEF Fit
  <2> QED BY <1>1, <2>1, <2>2, <2>3, FitsQuietly, Zenon
<1>5. CASE ~Present(CRDAt(r, i))
  <2>1. Becomes(r, [run[r] EXCEPT !.pc = "create"])
    BY <1>2, <1>5, Zenon
  <2>2. Has([run[r] EXCEPT !.pc = "create"], "create", run[r].left, run[r].seen, run[r].items,
            run[r].polled, run[r].known, run[r].there, run[r].result)
    BY <1>3, ToMove, Zenon
  <2>3. \A j \in run[r].left : (\A k \in run[r].left : j <= k) =>
          CRDAt(r, j) \notin run[r].there \ gone
    <3>1. \A j \in run[r].left : (\A k \in run[r].left : j <= k) => j = i
      BY First, Zenon
    <3>2. CRDAt(r, i) \notin run[r].there \ gone
      BY <1>5, Going, Zenon
    <3> QED BY <3>1, <3>2, Zenon
  <2>4. Fit(r, "create", run[r].left, run[r].seen, run[r].items,
            run[r].polled, run[r].known, run[r].there, run[r].result)
    BY <1>1, <1>3, <2>3, Going, Zenon DEF Fit
  <2> QED BY <1>1, <2>1, <2>2, <2>4, FitsQuietly, Zenon
<1> QED BY <1>4, <1>5, Zenon


\* What run r may make is not among what it has to leave alone.
LEMMA Spared ==
  ASSUME RunInv, NEW r \in Runs, NEW i \in Here(r), UNCHANGED <<setup, gone>>,
         run[r].pc = "update" \/ (run[r].pc = "create" /\ Accepts(r, CRDAt(r, i))),
         crd' = [crd EXCEPT ![CRDAt(r, i)] = Made(r, CRDAt(r, i))]
  PROVE  crdPolicyOrDefault(r) = "Create" => \A c \in run[r].there \ gone : crd'[c].by # r
<1> SUFFICES ASSUME crdPolicyOrDefault(r) = "Create"
             PROVE  \A c \in run[r].there \ gone : crd'[c].by # r
  OBVIOUS
<1>1. CRDAt(r, i) \in CRDs /\ RunTypes
  BY First, Zenon DEF RunInv
<1>2. \A c \in CRDs \ {CRDAt(r, i)} : crd'[c] = crd[c]
  BY <1>1, Making, Zenon
<1>3. run[r].pc = "create" /\ Accepts(r, CRDAt(r, i))
  BY Going, Zenon
<1>4. CRDAt(r, i) \notin run[r].there \ gone
  <2>1. CASE ServerSideApply(r)
    BY <1>3, <2>1, Zenon DEF RunInv, RunOK, LeftAlone
  <2>2. CASE ~Present(CRDAt(r, i))
    BY <2>2, Going, Zenon
  <2> QED BY <1>3, <2>1, <2>2, Zenon DEF Accepts
<1>5. \A c \in run[r].there \ gone : crd[c].by # r
  BY Going, Zenon
<1>6. run[r].there \in SUBSET CRDs
  BY RunTyped, Zenon
<1>7. \A c \in run[r].there \ gone : c \in CRDs \ {CRDAt(r, i)}
  BY <1>4, <1>6, Zenon
<1> QED BY <1>2, <1>5, <1>7, Zenon

\* The state of run r after it made, or was refused, the CRD at i.
LEMMA MadeFits ==
  ASSUME RunInv, NEW r \in Runs, NEW i \in Here(r), NEW items \in SUBSET CRDs,
         run[r].pc = "create",
         crdPolicyOrDefault(r) = "Create" => \A c \in run[r].there \ gone : crd'[c].by # r
  PROVE  /\ Has([run[r] EXCEPT !.pc = NextCRD(r), !.left = Past(r, i), !.items = items],
                NextCRD(r), Past(r, i), run[r].seen, items, run[r].polled, run[r].known,
                run[r].there, run[r].result)
         /\ Fit(r, NextCRD(r), Past(r, i), run[r].seen, items, run[r].polled, run[r].known,
                run[r].there, run[r].result)
<1>1. run[r] \in RunStates /\ NextCRD(r) \in Places /\ Past(r, i) \in SUBSET Nat
      /\ Past(r, i) \subseteq FilteredCRDs(r)
  BY RunTyped, NextPlace, First, Zenon
<1>2. NextCRD(r) \in {"look", "create"} /\ (NextCRD(r) = "create" => ~ServerSideApply(r))
  BY NextPlace, Zenon
<1>3. Has([run[r] EXCEPT !.pc = NextCRD(r), !.left = Past(r, i), !.items = items],
          NextCRD(r), Past(r, i), run[r].seen, items, run[r].polled, run[r].known,
          run[r].there, run[r].result)
  BY <1>1, ToMake, Zenon
<1>4. Fit(r, NextCRD(r), Past(r, i), run[r].seen, items, run[r].polled, run[r].known,
          run[r].there, run[r].result)
  BY <1>1, <1>2, Going, Zenon DEF Fit
<1> QED BY <1>3, <1>4, Zenon

LEMMA CreateKeeps ==
  ASSUME RunInv, NEW r \in Runs, CreateCRD(r)
  PROVE  RunInv'
<1>1. run[r].pc = "create" /\ UNCHANGED <<setup, gone, health>>
  BY Zenon DEF CreateCRD, World, At
<1>2. PICK i \in Here(r) :
        /\ crd' = IF Accepts(r, CRDAt(r, i))
                  THEN [crd EXCEPT ![CRDAt(r, i)] = Made(r, CRDAt(r, i))] ELSE crd
        /\ Becomes(r, [run[r] EXCEPT !.pc = NextCRD(r), !.left = Past(r, i), !.items =
             run[r].items \cup IF Accepts(r, CRDAt(r, i)) THEN {CRDAt(r, i)} ELSE {}])
  BY Zenon DEF CreateCRD
<1> DEFINE items == run[r].items \cup IF Accepts(r, CRDAt(r, i)) THEN {CRDAt(r, i)} ELSE {}
<1>3. items \in SUBSET CRDs /\ CRDAt(r, i) \in CRDs
  <2>1. CRDAt(r, i) \in CRDs /\ run[r].items \in SUBSET CRDs
    BY First, RunTyped, Zenon
  <2> QED BY <2>1
<1>4. Becomes(r, [run[r] EXCEPT !.pc = NextCRD(r), !.left = Past(r, i), !.items = items])
  BY <1>2, Zenon
<1> HIDE DEF items
<1>5. CASE Accepts(r, CRDAt(r, i))
  <2>1. crd' = [crd EXCEPT ![CRDAt(r, i)] = Made(r, CRDAt(r, i))]
    BY <1>2, <1>5, Zenon
  <2>2. crdPolicyOrDefault(r) = "Create" => \A c \in run[r].there \ gone : crd'[c].by # r
    BY <1>1, <1>5, <2>1, Spared, Zenon
  <2> QED BY <1>1, <1>3, <1>4, <2>1, <2>2, MadeFits, FitsMaking, Zenon
<1>6. CASE ~Accepts(r, CRDAt(r, i))
  <2>1. crd' = crd
    BY <1>2, <1>6, Zenon
  <2>2. crdPolicyOrDefault(r) = "Create" => \A c \in run[r].there \ gone : crd'[c].by # r
    BY <2>1, Going, Zenon
  <2> QED BY <1>1, <1>3, <1>4, <2>1, <2>2, MadeFits, FitsQuietly, Zenon
<1> QED BY <1>5, <1>6, Zenon

LEMMA RetryKeeps ==
  ASSUME RunInv, NEW r \in Runs, RetryCreate(r)
  PROVE  RunInv'
<1>1. run[r].pc = "create" /\ UNCHANGED <<setup, gone, health>>
  BY Zenon DEF RetryCreate, World, At
<1>2. PICK i \in Here(r) :
        /\ Accepts(r, CRDAt(r, i))
        /\ crd' = [crd EXCEPT ![CRDAt(r, i)] = Made(r, CRDAt(r, i))]
        /\ Becomes(r, [run[r] EXCEPT !.pc = NextCRD(r), !.left = Past(r, i), !.items =
             run[r].items \cup IF ServerSideApply(r) THEN {CRDAt(r, i)} ELSE {}])
  BY Zenon DEF RetryCreate
<1> DEFINE items == run[r].items \cup IF ServerSideApply(r) THEN {CRDAt(r, i)} ELSE {}
<1>3. items \in SUBSET CRDs /\ CRDAt(r, i) \in CRDs
  <2>1. CRDAt(r, i) \in CRDs /\ run[r].items \in SUBSET CRDs
    BY First, RunTyped, Zenon
  <2> QED BY <2>1
<1>4. Becomes(r, [run[r] EXCEPT !.pc = NextCRD(r), !.left = Past(r, i), !.items = items])
  BY <1>2, Zenon
<1> HIDE DEF items
<1>5. crdPolicyOrDefault(r) = "Create" => \A c \in run[r].there \ gone : crd'[c].by # r
  BY <1>1, <1>2, Spared, Zenon
<1> QED BY <1>1, <1>2, <1>3, <1>4, <1>5, MadeFits, FitsMaking, Zenon

LEMMA FailKeeps ==
  ASSUME RunInv, NEW r \in Runs, CallFails(r)
  PROVE  RunInv'
<1>1. Ends(r, "error") /\ UNCHANGED <<setup, gone, health>> /\ "error" \in Outcomes
  BY Zenon DEF CallFails, World, Outcomes
<1>2. CASE crd' = crd
  BY <1>1, <1>2, EndKeeps, Zenon
<1>3. CASE \E i \in Here(r) :
        /\ At(r, "update") \/ (At(r, "create") /\ Accepts(r, CRDAt(r, i)))
        /\ crd' = [crd EXCEPT ![CRDAt(r, i)] = Made(r, CRDAt(r, i))]
  <2>1. PICK i \in Here(r) :
          /\ run[r].pc = "update" \/ (run[r].pc = "create" /\ Accepts(r, CRDAt(r, i)))
          /\ crd' = [crd EXCEPT ![CRDAt(r, i)] = Made(r, CRDAt(r, i))]
    BY <1>3, Zenon DEF At
  <2>2. crdPolicyOrDefault(r) = "Create" => \A c \in run[r].there \ gone : crd'[c].by # r
    BY <1>1, <2>1, Spared, Zenon
  <2>3. CRDAt(r, i) \in CRDs
    BY First, Zenon
  <2> QED BY <1>1, <2>1, <2>2, <2>3, EndFits, FitsMaking, Zenon
<1> QED BY <1>2, <1>3, Zenon DEF CallFails


LEMMA GetKeeps ==
  ASSUME RunInv, NEW r \in Runs, GetOriginal(r)
  PROVE  RunInv'
<1>1. run[r].pc = "get" /\ UNCHANGED <<setup, crd, gone, health>>
  BY Zenon DEF GetOriginal, World, At
<1>2. crdPolicyOrDefault(r) # "Create" /\ run[r].result # "ok"
  BY <1>1, Going, Zenon
<1>3. CASE Proceeds(r, "update")
  <2>1. "update" \in Places
    BY Zenon DEF Places
  <2>2. Fit(r, "update", FilteredCRDs(r), run[r].seen, run[r].items, {}, run[r].known,
            run[r].there, run[r].result)
    BY <1>2, Going, Zenon DEF Fit
  <2> QED BY <1>1, <1>3, <2>1, <2>2, ProceedHas, FitsQuietly, Zenon
<1>4. ASSUME NEW i \in Here(r),
             Becomes(r, [run[r] EXCEPT !.left = Past(r, i), !.seen =
               run[r].seen \cup IF Present(CRDAt(r, i)) THEN {CRDAt(r, i)} ELSE {}])
      PROVE  RunInv'
  <2> DEFINE seen == run[r].seen \cup IF Present(CRDAt(r, i)) THEN {CRDAt(r, i)} ELSE {}
  <2>1. seen \in SUBSET CRDs /\ seen \subseteq CRDSet(r)
    <3>1. CRDAt(r, i) \in CRDs /\ CRDAt(r, i) \in CRDSet(r) /\ run[r].seen \in SUBSET CRDs
          /\ run[r].seen \subseteq CRDSet(r)
      BY First, RunTyped, Going, Zenon
    <3> QED BY <3>1
  <2>2. Becomes(r, [run[r] EXCEPT !.left = Past(r, i), !.seen = seen])
    BY <1>4, Zenon
  <2> HIDE DEF seen
  <2>3. run[r] \in RunStates /\ Past(r, i) \in SUBSET Nat /\ Past(r, i) \subseteq FilteredCRDs(r)
    BY RunTyped, First, Zenon
  <2>4. Has([run[r] EXCEPT !.left = Past(r, i), !.seen = seen], "get", Past(r, i), seen,
            run[r].items, run[r].polled, run[r].known, run[r].there, run[r].result)
    BY <1>1, <2>1, <2>3, ToGet, Zenon
  <2>5. Fit(r, "get", Past(r, i), seen, run[r].items, run[r].polled, run[r].known, run[r].there,
            run[r].result)
    BY <1>2, <2>1, <2>3, Going, Zenon DEF Fit
  <2> QED BY <1>1, <2>2, <2>4, <2>5, FitsQuietly, Zenon
<1> QED BY <1>3, <1>4, Zenon DEF GetOriginal

LEMMA UpdateKeeps ==
  ASSUME RunInv, NEW r \in Runs, UpdateCRD(r)
  PROVE  RunInv'
<1>1. run[r].pc = "update" /\ UNCHANGED <<setup, gone, health>>
  BY Zenon DEF UpdateCRD, World, At
<1>2. crdPolicyOrDefault(r) # "Create" /\ run[r].result # "ok" /\ "error" \in Outcomes
      /\ "await" \in Places /\ run[r].seen \subseteq CRDSet(r)
  BY <1>1, Going, Zenon DEF Outcomes, Places
<1>3. CASE /\ crd' = [c \in CRDs |-> IF c \in Originals(r) \ CRDSet(r) THEN Absent ELSE crd[c]]
           /\ Proceeds(r, "await")
  <2>1. crd' = crd
    <3>1. crd' = [c \in CRDs |-> crd[c]]
      BY <1>2, <1>3, Zenon DEF Originals
    <3> QED BY <3>1, Zenon DEF RunInv, RunTypes
  <2>2. Fit(r, "await", FilteredCRDs(r), run[r].seen, run[r].items, {}, run[r].known,
            run[r].there, run[r].result)
    BY <1>2, Going, Zenon DEF Fit
  <2> QED BY <1>1, <1>2, <1>3, <2>1, <2>2, ProceedHas, FitsQuietly, Zenon
<1>4. CASE crd' = crd /\ Ends(r, "error")
  BY <1>1, <1>2, <1>4, EndKeeps, Zenon
<1>5. ASSUME NEW i \in Here(r), crd' = [crd EXCEPT ![CRDAt(r, i)] = Made(r, CRDAt(r, i))],
             Becomes(r, [run[r] EXCEPT !.left = Past(r, i),
                                       !.items = run[r].items \cup {CRDAt(r, i)}])
      PROVE  RunInv'
  <2> DEFINE items == run[r].items \cup {CRDAt(r, i)}
  <2>1. CRDAt(r, i) \in CRDs /\ items \in SUBSET CRDs
    <3>1. CRDAt(r, i) \in CRDs
      BY First, Zenon
    <3>2. run[r].items \in SUBSET CRDs
      BY RunTyped, Zenon
    <3> QED BY <3>1, <3>2, Zenon
  <2>2. Becomes(r, [run[r] EXCEPT !.left = Past(r, i), !.items = items])
    BY <1>5, Zenon
  <2> HIDE DEF items
  <2>3. run[r] \in RunStates /\ Past(r, i) \in SUBSET Nat /\ Past(r, i) \subseteq FilteredCRDs(r)
    BY RunTyped, First, Zenon
  <2>4. Has([run[r] EXCEPT !.left = Past(r, i), !.items = items], "update", Past(r, i),
            run[r].seen, items, run[r].polled, run[r].known, run[r].there, run[r].result)
    BY <1>1, <2>1, <2>3, ToUpdate, Zenon
  <2>5. Fit(r, "update", Past(r, i), run[r].seen, items, run[r].polled, run[r].known,
            run[r].there, run[r].result)
    BY <1>2, <2>3, Going, Zenon DEF Fit
  <2> QED BY <1>1, <1>5, <2>1, <2>2, <2>4, <2>5, FitsMaking, Zenon
<1> QED BY <1>3, <1>4, <1>5, Zenon DEF UpdateCRD

LEMMA AllCreatedKeeps ==
  ASSUME RunInv, NEW r \in Runs, AllCreated(r)
  PROVE  RunInv'
<1>1. run[r].pc \in {"look", "create"} /\ UNCHANGED <<setup, crd, gone, health>>
      /\ Proceeds(r, "await") /\ "await" \in Places
  BY Zenon DEF AllCreated, World, Places
<1>2. Fit(r, "await", FilteredCRDs(r), run[r].seen, run[r].items, {}, run[r].known,
            run[r].there, run[r].result)
  BY <1>1, Going, Zenon DEF Fit
<1> QED BY <1>1, <1>2, ProceedHas, FitsQuietly, Zenon

LEMMA SkipKeeps ==
  ASSUME RunInv, NEW r \in Runs, SkipAwait(r)
  PROVE  RunInv'
<1> DEFINE known == IF run[r].items = {} THEN run[r].known ELSE ResetMapper(r)
<1>1. run[r].pc = "await" /\ UNCHANGED <<setup, crd, gone, health>>
      /\ (run[r].items = {} \/ getWaitStrategy(r) = "hookOnly")
      /\ Becomes(r, [run[r] EXCEPT !.pc = "helm", !.known = known])
  BY Zenon DEF SkipAwait, World, At
<1>2. run[r] \in RunStates /\ "helm" \in Places /\ known \in SUBSET CRDs
  BY RunTyped, Going, Zenon DEF Places, ResetMapper
<1> HIDE DEF known
<1>3. Has([run[r] EXCEPT !.pc = "helm", !.known = known], "helm", run[r].left, run[r].seen,
          run[r].items, run[r].polled, known, run[r].there, run[r].result)
  BY <1>2, ToSkip, Zenon
<1>4. Fit(r, "helm", run[r].left, run[r].seen, run[r].items, run[r].polled, known, run[r].there,
          run[r].result)
  BY <1>1, Going, Zenon DEF Fit
<1> QED BY <1>1, <1>3, <1>4, FitsQuietly, Zenon


(* ------------------------------- the waits ------------------------------- *)

LEMMA WaitsFor ==
  ASSUME NEW r \in Runs
  PROVE  /\ run[r].pc = "await" => Targets(r) = run[r].items
         /\ run[r].pc = "hook" => Targets(r) = {"hook"}
         /\ run[r].pc = "load" /\ setup[r].load # "PausedDeployment" => Targets(r) = {"load"}
         /\ Waiting(r) => run[r].pc \in {"await", "hook", "load"} /\ run[r].pc # "done"
BY Zenon DEF Targets, At, Waiting

LEMMA AppliedKeeps ==
  ASSUME RunInv, NEW r \in Runs, CRDsApplied(r)
  PROVE  RunInv'
<1>1. run[r].pc = "await" /\ UNCHANGED <<setup, crd, gone, health>> /\ run[r].polled = Targets(r)
      /\ Becomes(r, [run[r] EXCEPT !.pc = "helm", !.polled = {}, !.known = Established])
  BY Zenon DEF CRDsApplied, World, At, AllCurrent, ResetMapper
<1>2. run[r] \in RunStates /\ "helm" \in Places /\ Established \in SUBSET CRDs
      /\ {} \in SUBSET (CRDs \cup {"hook", "load"})
  BY RunTyped, Going, Zenon DEF Places
<1>3. Has([run[r] EXCEPT !.pc = "helm", !.polled = {}, !.known = Established], "helm",
          run[r].left, run[r].seen, run[r].items, {}, Established, run[r].there, run[r].result)
  BY <1>2, ToApply, Zenon
<1>4. run[r].items \subseteq Established \cup gone
  <2>1. run[r].polled \subseteq Established \cup gone
    BY <1>1, Zenon DEF RunInv, RunOK, Served
  <2> QED BY <1>1, <2>1, WaitsFor, Zenon
<1>5. Fit(r, "helm", run[r].left, run[r].seen, run[r].items, {}, Established, run[r].there,
          run[r].result)
  BY <1>1, <1>4, Going, Zenon DEF Fit
<1> QED BY <1>1, <1>3, <1>5, FitsQuietly, Zenon

\* What a status of Current means for a hook and for what is waited for.
LEMMA HookRead ==
  ASSUME NEW r \in Runs, StatusOf(r, "hook") = "Current"
  PROVE  HookCompleted(r)
<1>1. WatchUntilReady(r) = "Current"
  BY Zenon DEF StatusOf
<1> QED BY <1>1, Zenon DEF WatchUntilReady, CompletionReader, HookCompleted

LEMMA LoadRead ==
  ASSUME NEW r \in Runs, StatusOf(r, "load") = "Current"
  PROVE  LoadCompleted(r)
<1>1. WaitReads(r) = "Current"
  BY Zenon DEF StatusOf
<1> QED BY <1>1, Zenon DEF WaitReads, CompletionReader, LoadCompleted

LEMMA CRDRead ==
  ASSUME NEW r \in Runs, NEW c \in CRDs, StatusOf(r, c) = "Current"
  PROVE  c \in Established
<1>1. c # "hook" /\ c # "load"
  BY SetupsAssumption, Zenon
<1> QED BY <1>1, Zenon DEF StatusOf, Established

LEMMA PollKeeps ==
  ASSUME RunInv, NEW r \in Runs, NEW x \in CRDs \cup {"hook", "load"}, Poll(r, x)
  PROVE  RunInv'
<1> DEFINE polled == IF StatusOf(r, x) = "Current" THEN run[r].polled \cup {x}
                     ELSE run[r].polled \ {x}
<1>1. Waiting(r) /\ x \in Targets(r) /\ UNCHANGED <<setup, crd, gone, health>>
  BY Zenon DEF Poll, World
<1>2. CASE Ends(r, "error")
  <2>1. "error" \in Outcomes
    BY Zenon DEF Outcomes
  <2> QED BY <1>1, <1>2, <2>1, EndKeeps, Zenon
<1>3. CASE Becomes(r, [run[r] EXCEPT !.polled = polled])
  <2>1. run[r].pc \in {"await", "hook", "load"} /\ run[r].result # "ok"
    BY <1>1, WaitsFor, Going, Zenon
  <2>2. /\ run[r] \in RunStates /\ polled \in SUBSET (CRDs \cup {"hook", "load"})
        /\ run[r].items \in SUBSET CRDs
    BY RunTyped, Zenon
  <2>3. \A y \in polled : y \in run[r].polled \/ (y = x /\ StatusOf(r, x) = "Current")
    BY Zenon
  <2>4. UNCHANGED <<setup, health>>
    BY <1>1, Zenon
  <2>5. (HookCompleted(r) => HookCompleted(r)') /\ (LoadCompleted(r) => LoadCompleted(r)')
    BY <2>4, Zenon DEF HookCompleted, LoadCompleted
  <2> HIDE DEF polled
  <2>6. Has([run[r] EXCEPT !.polled = polled], run[r].pc, run[r].left, run[r].seen, run[r].items,
            polled, run[r].known, run[r].there, run[r].result)
    BY <2>2, ToPoll, Zenon
  <2>7. ASSUME run[r].pc = "await"
        PROVE  polled \subseteq run[r].items /\ polled \subseteq Established \cup gone
    <3>1. /\ run[r].polled \subseteq run[r].items /\ run[r].polled \subseteq Established \cup gone
      BY <2>7, Zenon DEF RunInv, RunOK, Served
    <3>2. x \in run[r].items /\ x \in CRDs
      BY <1>1, <2>2, <2>7, WaitsFor, Zenon
    <3>3. StatusOf(r, x) = "Current" => x \in Established
      BY <3>2, CRDRead, Zenon
    <3> QED BY <2>3, <3>1, <3>2, <3>3, Zenon
  <2>8. ASSUME run[r].pc = "hook"
        PROVE  polled \subseteq {"hook"} /\ ("hook" \in polled => HookCompleted(r)')
    <3>1. run[r].polled \subseteq {"hook"} /\ ("hook" \in run[r].polled => HookCompleted(r))
      BY <2>8, Zenon DEF RunInv, RunOK, Completed
    <3>2. x = "hook"
      BY <1>1, <2>8, WaitsFor, Zenon
    <3> QED BY <2>3, <2>5, <3>1, <3>2, HookRead, Zenon
  <2>9. ASSUME run[r].pc = "load"
        PROVE  HookCompleted(r)' /\ ("load" \in polled => LoadCompleted(r)')
    <3>1. HookCompleted(r) /\ ("load" \in run[r].polled => LoadCompleted(r))
      BY <2>9, Zenon DEF RunInv, RunOK, Completed
    <3> QED BY <2>3, <2>5, <3>1, LoadRead, Zenon
  <2>10. Fit(r, run[r].pc, run[r].left, run[r].seen, run[r].items, polled, run[r].known,
             run[r].there, run[r].result)
    <3>1. run[r].pc \notin {"begin", "helm", "create"}
      BY <2>1, Zenon
    <3>2. \A c \in CRDs : crd'[c].by = crd[c].by
      BY <1>1, Zenon
    <3>3. run[r].there \in SUBSET CRDs
      BY RunTyped, Zenon
    <3> QED BY <2>1, <2>7, <2>8, <2>9, <3>1, <3>2, <3>3, Going, Zenon DEF Fit
  <2> QED BY <1>1, <1>3, <2>6, <2>10, FitsQuietly, Zenon
<1> QED BY <1>2, <1>3, Zenon DEF Poll

LEMMA WaitEndKeeps ==
  ASSUME RunInv, NEW r \in Runs, WaitTimesOut(r) \/ WaitInterrupted(r) \/ WaitStopped(r)
  PROVE  RunInv'
<1>1. UNCHANGED <<setup, crd, gone, health>>
      /\ (Ends(r, "timeout") \/ Ends(r, "interrupted") \/ Ends(r, "stopped"))
  BY Zenon DEF WaitTimesOut, WaitInterrupted, WaitStopped, World
<1>2. {"timeout", "interrupted", "stopped"} \subseteq Outcomes
  BY Zenon DEF Outcomes
<1> QED BY <1>1, <1>2, EndKeeps, Zenon


(* ------------------------ Helm's run and the cluster --------------------- *)

\* The state of one object of release r changes.
LEMMA OneHealth ==
  ASSUME RunTypes, NEW r \in Runs, NEW h \in Health
  PROVE  /\ health' = [health EXCEPT ![r].hook = h] =>
              /\ health' \in [Runs -> Healths] /\ \A q \in Runs \ {r} : health'[q] = health[q]
              /\ health'[r].hook = h /\ health'[r].load = health[r].load
         /\ health' = [health EXCEPT ![r].load = h] =>
              /\ health' \in [Runs -> Healths] /\ \A q \in Runs \ {r} : health'[q] = health[q]
              /\ health'[r].load = h /\ health'[r].hook = health[r].hook
<1>1. health \in [Runs -> Healths] /\ health[r] \in Healths
  BY Zenon DEF RunTypes
<1>2. /\ [health[r] EXCEPT !.hook = h] \in Healths /\ [health[r] EXCEPT !.load = h] \in Healths
      /\ [health[r] EXCEPT !.hook = h].hook = h
      /\ [health[r] EXCEPT !.hook = h].load = health[r].load
      /\ [health[r] EXCEPT !.load = h].load = h
      /\ [health[r] EXCEPT !.load = h].hook = health[r].hook
  BY <1>1 DEF Healths
<1>3. ASSUME NEW new \in Healths, health' = [health EXCEPT ![r] = new]
      PROVE  /\ health' \in [Runs -> Healths] /\ \A q \in Runs \ {r} : health'[q] = health[q]
             /\ health'[r] = new
  BY <1>1, <1>3, Zenon
<1>4. ASSUME health' = [health EXCEPT ![r].hook = h]
      PROVE  /\ health' \in [Runs -> Healths] /\ \A q \in Runs \ {r} : health'[q] = health[q]
             /\ health'[r] = [health[r] EXCEPT !.hook = h]
  BY <1>2, <1>3, <1>4, Zenon
<1>5. ASSUME health' = [health EXCEPT ![r].load = h]
      PROVE  /\ health' \in [Runs -> Healths] /\ \A q \in Runs \ {r} : health'[q] = health[q]
             /\ health'[r] = [health[r] EXCEPT !.load = h]
  BY <1>2, <1>3, <1>5, Zenon
<1> QED BY <1>2, <1>4, <1>5, Zenon

\* The release's objects are created once its hook has completed.
LEMMA LoadKeeps ==
  ASSUME RunInv, NEW r \in Runs, Started(r, "load", "load"), UNCHANGED <<setup, crd, gone>>,
         HookCompleted(r), run[r].pc # "done"
  PROVE  RunInv'
<1>1. RunTypes /\ "InProgress" \in Health /\ "load" \in Places
  BY Zenon DEF RunInv, Health, Places
<1>2. health' = [health EXCEPT ![r].load = "InProgress"] /\ Proceeds(r, "load")
  BY DEF Started
<1>3. /\ health' \in [Runs -> Healths] /\ \A q \in Runs \ {r} : health'[q] = health[q]
      /\ health'[r].hook = health[r].hook
  BY <1>1, <1>2, OneHealth, Zenon
<1>4. HookCompleted(r)'
  BY <1>3, Zenon DEF HookCompleted
<1>5. Gently /\ \A c \in CRDs : crd'[c].by = crd[c].by
  BY <1>1, Quietly, Zenon
<1>6. \A c \in CRDs : crd'[c].by \in {crd[c].by, r}
  BY <1>5, Zenon
<1>7. Fit(r, "load", FilteredCRDs(r), run[r].seen, run[r].items, {}, run[r].known, run[r].there,
          run[r].result)
  BY <1>4, Going, Zenon DEF Fit
<1> QED BY <1>1, <1>2, <1>3, <1>5, <1>6, <1>7, ProceedHas, Fits, Zenon

LEMMA HookKeeps ==
  ASSUME RunInv, NEW r \in Runs, Started(r, "hook", "hook"), UNCHANGED <<setup, crd, gone>>,
         run[r].pc # "done"
  PROVE  RunInv'
<1>1. RunTypes /\ "InProgress" \in Health /\ "hook" \in Places
  BY Zenon DEF RunInv, Health, Places
<1>2. health' = [health EXCEPT ![r].hook = "InProgress"] /\ Proceeds(r, "hook")
  BY DEF Started
<1>3. /\ health' \in [Runs -> Healths] /\ \A q \in Runs \ {r} : health'[q] = health[q]
  BY <1>1, <1>2, OneHealth, Zenon
<1>5. Gently /\ \A c \in CRDs : crd'[c].by = crd[c].by
  BY <1>1, Quietly, Zenon
<1>6. \A c \in CRDs : crd'[c].by \in {crd[c].by, r}
  BY <1>5, Zenon
<1>7. Fit(r, "hook", FilteredCRDs(r), run[r].seen, run[r].items, {}, run[r].known, run[r].there,
          run[r].result)
  BY Going, Zenon DEF Fit
<1> QED BY <1>1, <1>2, <1>3, <1>5, <1>6, <1>7, ProceedHas, Fits, Zenon

LEMMA HelmKeeps ==
  ASSUME RunInv, NEW r \in Runs, RunHelm(r)
  PROVE  RunInv'
<1>1. run[r].pc = "helm" /\ UNCHANGED <<setup, crd, gone>> /\ run[r].pc # "done"
  BY Zenon DEF RunHelm, World, At
<1>2. CASE setup[r].hook = "none" /\ Started(r, "load", "load")
  <2>1. HookCompleted(r)
    BY <1>2, Zenon DEF HookCompleted
  <2> QED BY <1>1, <1>2, <2>1, LoadKeeps, Zenon
<1>3. CASE Started(r, "hook", "hook")
  BY <1>1, <1>3, HookKeeps, Zenon
<1>4. CASE health' = health /\ Ends(r, "error")
  <2>1. "error" \in Outcomes
    BY Zenon DEF Outcomes
  <2> QED BY <1>1, <1>4, <2>1, EndKeeps, Zenon
<1> QED BY <1>2, <1>3, <1>4, Zenon DEF RunHelm

LEMMA HookPassesKeeps ==
  ASSUME RunInv, NEW r \in Runs, HookPasses(r)
  PROVE  RunInv'
<1>1. run[r].pc = "hook" /\ UNCHANGED <<setup, crd, gone>> /\ run[r].pc # "done"
      /\ run[r].polled = Targets(r) /\ Started(r, "load", "load")
  BY Zenon DEF HookPasses, World, At, AllCurrent
<1>2. "hook" \in run[r].polled
  BY <1>1, WaitsFor, Zenon
<1>3. HookCompleted(r)
  BY <1>1, <1>2, Zenon DEF RunInv, RunOK, Completed
<1> QED BY <1>1, <1>3, LoadKeeps, Zenon

LEMMA SucceedsKeeps ==
  ASSUME RunInv, NEW r \in Runs, Succeeds(r)
  PROVE  RunInv'
<1>1. /\ run[r].pc = "load" /\ UNCHANGED <<setup, crd, gone, health>>
      /\ Waiting(r) => run[r].polled = Targets(r)
      /\ Becomes(r, [run[r] EXCEPT !.pc = "done", !.polled = {}, !.result = "ok"])
  BY Zenon DEF Succeeds, World, At, AllCurrent, Ends
<1>2. HookCompleted(r) /\ ("load" \in run[r].polled => LoadCompleted(r))
  BY <1>1, Zenon DEF RunInv, RunOK, Completed
<1>3. ASSUME getWaitStrategy(r) # "hookOnly" PROVE LoadCompleted(r)
  <2>1. CASE setup[r].load = "Job"
    <3>1. Targets(r) = {"load"}
      BY <1>1, <2>1, WaitsFor, Zenon
    <3>2. Waiting(r)
      BY <1>1, <1>3, <3>1, Zenon DEF Waiting
    <3> QED BY <1>1, <1>2, <3>1, <3>2, Zenon
  <2>2. CASE setup[r].load # "Job"
    BY <2>2, Zenon DEF LoadCompleted
  <2> QED BY <2>1, <2>2, Zenon
<1>4. (HookCompleted(r) => HookCompleted(r)') /\ (LoadCompleted(r) => LoadCompleted(r)')
  BY <1>1, Zenon DEF HookCompleted, LoadCompleted
<1>5. run[r] \in RunStates /\ "done" \in Places /\ "ok" \in Outcomes
      /\ {} \in SUBSET (CRDs \cup {"hook", "load"})
  BY RunTyped, Zenon DEF Places, Outcomes
<1>6. Has([run[r] EXCEPT !.pc = "done", !.polled = {}, !.result = "ok"], "done", run[r].left,
          run[r].seen, run[r].items, {}, run[r].known, run[r].there, "ok")
  BY <1>5, ToEnd, Zenon
<1>7. Fit(r, "done", run[r].left, run[r].seen, run[r].items, {}, run[r].known, run[r].there, "ok")
  BY <1>1, <1>2, <1>3, <1>4, Going, Zenon DEF Fit
<1> QED BY <1>1, <1>6, <1>7, FitsQuietly, Zenon


\* A step of the cluster keeps what every run relies on.
LEMMA ClusterKeeps ==
  ASSUME RunInv, Gently, run' = run, health' \in [Runs -> Healths],
         \A q \in Runs : /\ HookCompleted(q) => HookCompleted(q)'
                         /\ LoadCompleted(q) => LoadCompleted(q)',
         \A q \in Runs, c \in CRDs : crd'[c].by = q => crd[c].by = q
  PROVE  RunInv'
<1>1. RunTypes'
  BY Zenon DEF RunInv, RunTypes, Gently
<1>2. ASSUME NEW q \in Runs PROVE RunOK(q)'
  BY OthersKept, Zenon DEF RunInv
<1> QED BY <1>1, <1>2, Zenon DEF RunInv

LEMMA SameHealth ==
  ASSUME RunInv, UNCHANGED <<setup, health>>
  PROVE  /\ health' \in [Runs -> Healths]
         /\ \A q \in Runs : /\ HookCompleted(q) => HookCompleted(q)'
                            /\ LoadCompleted(q) => LoadCompleted(q)'
BY Zenon DEF RunInv, RunTypes, HookCompleted, LoadCompleted

LEMMA EstablishKeeps ==
  ASSUME RunInv, NEW d \in CRDs, Establish(d)
  PROVE  RunInv'
<1>1. /\ UNCHANGED <<setup, gone, run, health>> /\ RunTypes
      /\ crd' = [crd EXCEPT ![d].established = TRUE]
  BY Zenon DEF Establish, World, RunInv
<1>2. crd[d] \in Resources /\ crd \in [CRDs -> Resources]
  BY <1>1, Zenon DEF RunTypes
<1>3. /\ [crd[d] EXCEPT !.established = TRUE] \in Resources
      /\ [crd[d] EXCEPT !.established = TRUE].by = crd[d].by
      /\ [crd[d] EXCEPT !.established = TRUE].established
  BY <1>2 DEF Resources
<1>4. ASSUME NEW new \in Resources, crd' = [crd EXCEPT ![d] = new], new.by = crd[d].by,
             new.established
      PROVE  /\ crd' \in [CRDs -> Resources]
             /\ \A c \in CRDs : crd'[c].by = crd[c].by
             /\ \A c \in CRDs : crd[c].established => crd'[c].established
  BY <1>2, <1>4, Zenon
<1>5. /\ crd' \in [CRDs -> Resources]
      /\ \A c \in CRDs : crd'[c].by = crd[c].by
      /\ \A c \in CRDs : crd[c].established => crd'[c].established
  BY <1>1, <1>3, <1>4, Zenon
<1>6. Gently
  BY <1>1, <1>5, Zenon DEF Gently, Present, RunTypes
<1> QED BY <1>1, <1>5, <1>6, SameHealth, ClusterKeeps, Zenon

LEMMA OthersKeep ==
  ASSUME RunInv, NEW d \in CRDs, Others(d)
  PROVE  RunInv'
<1>1. UNCHANGED <<setup, run, health>> /\ RunTypes
  BY Zenon DEF Others, RunInv
<1>2. crd[d] \in Resources /\ crd \in [CRDs -> Resources] /\ gone \in SUBSET CRDs
  BY <1>1, Zenon DEF RunTypes
<1>3. \A q \in Runs : q # "other" /\ q # "none"
  BY SetupsAssumption, Zenon
<1>4. CASE ~Present(d) /\ crd' = [crd EXCEPT ![d].by = "other"] /\ gone' = gone
  <2>1. /\ [crd[d] EXCEPT !.by = "other"] \in Resources
        /\ [crd[d] EXCEPT !.by = "other"].by = "other"
        /\ [crd[d] EXCEPT !.by = "other"].established = crd[d].established
    BY <1>2 DEF Resources
  <2>2. ASSUME NEW new \in Resources, crd' = [crd EXCEPT ![d] = new], new.by = "other",
               new.established = crd[d].established
        PROVE  /\ crd' \in [CRDs -> Resources]
               /\ \A c \in CRDs : crd'[c].by \in {crd[c].by, "other"}
               /\ \A c \in CRDs : crd[c].established => crd'[c].established
    BY <1>2, <2>2, Zenon
  <2>3. /\ crd' \in [CRDs -> Resources]
        /\ \A c \in CRDs : crd'[c].by \in {crd[c].by, "other"}
        /\ \A c \in CRDs : crd[c].established => crd'[c].established
    BY <1>4, <2>1, <2>2, Zenon
  <2>4. \A c \in CRDs : Present(c) => Present(c)'
    BY <2>3, Zenon DEF Present
  <2>5. Gently
    BY <1>1, <1>2, <1>4, <2>3, <2>4, Zenon DEF Gently
  <2>6. \A q \in Runs, c \in CRDs : crd'[c].by = q => crd[c].by = q
    BY <1>3, <2>3, Zenon
  <2> QED BY <1>1, <2>5, <2>6, SameHealth, ClusterKeeps, Zenon
<1>5. CASE crd' = [crd EXCEPT ![d] = Absent] /\ gone' = gone \cup {d}
  <2>1. Absent \in Resources /\ Absent.by = "none"
    BY DEF Absent, Resources
  <2>2. /\ crd' \in [CRDs -> Resources] /\ crd'[d] = Absent
        /\ \A c \in CRDs \ {d} : crd'[c] = crd[c]
    BY <1>2, <1>5, <2>1, Zenon
  <2>3. \A c \in CRDs : c \in gone' \/ crd'[c] = crd[c]
    BY <1>5, <2>2, Zenon
  <2>4. gone \subseteq gone' /\ gone' \in SUBSET CRDs
    BY <1>2, <1>5, Zenon
  <2>5. Gently
    BY <1>1, <2>2, <2>3, <2>4, Zenon DEF Gently, Present
  <2>6. \A q \in Runs, c \in CRDs : crd'[c].by = q => crd[c].by = q
    BY <1>3, <2>1, <2>2, Zenon
  <2> QED BY <1>1, <2>5, <2>6, SameHealth, ClusterKeeps, Zenon
<1> QED BY <1>4, <1>5, Zenon DEF Others

\* What has completed stays so.
LEMMA HealthKeeps ==
  ASSUME RunInv, NEW r \in Runs, NEW h \in Health, UNCHANGED <<setup, crd, gone, run>>,
         \/ health' = [health EXCEPT ![r].hook = h] /\ health[r].hook # "Current"
         \/ /\ health' = [health EXCEPT ![r].load = h]
            /\ health[r].load # "Current" \/ setup[r].load # "Job"
  PROVE  RunInv'
<1>1. RunTypes
  BY Zenon DEF RunInv
<1>2. Gently /\ \A q \in Runs, c \in CRDs : crd'[c].by = q => crd[c].by = q
  BY <1>1, Quietly, Zenon
<1>3. health' \in [Runs -> Healths] /\ \A q \in Runs \ {r} : health'[q] = health[q]
  BY <1>1, OneHealth, Zenon
<1>4. (HookCompleted(r) => HookCompleted(r)') /\ (LoadCompleted(r) => LoadCompleted(r)')
  <2>1. CASE health' = [health EXCEPT ![r].hook = h] /\ health[r].hook # "Current"
    <3>1. health'[r].load = health[r].load
      BY <1>1, <2>1, OneHealth, Zenon
    <3> QED BY <2>1, <3>1, Zenon DEF HookCompleted, LoadCompleted
  <2>2. CASE /\ health' = [health EXCEPT ![r].load = h]
             /\ health[r].load # "Current" \/ setup[r].load # "Job"
    <3>1. health'[r].hook = health[r].hook
      BY <1>1, <2>2, OneHealth, Zenon
    <3> QED BY <2>2, <3>1, Zenon DEF HookCompleted, LoadCompleted
  <2> QED BY <2>1, <2>2, Zenon
<1>5. \A q \in Runs : /\ HookCompleted(q) => HookCompleted(q)'
                      /\ LoadCompleted(q) => LoadCompleted(q)'
  BY <1>3, <1>4, Zenon DEF HookCompleted, LoadCompleted
<1> QED BY <1>2, <1>3, <1>5, ClusterKeeps, Zenon

LEMMA ProgressKeeps ==
  ASSUME RunInv, NEW r \in Runs, NEW o \in {"hook", "load"}, Progress(r, o)
  PROVE  RunInv'
<1>1. UNCHANGED <<setup, crd, gone, run>> /\ health[r][o] # "Current"
  BY Zenon DEF Progress, World
<1>2. PICK h \in {"Started", "Current", "Failed"} : health' = [health EXCEPT ![r][o] = h]
  BY DEF Progress
<1>3. h \in Health
  BY <1>2, Zenon DEF Health
<1>4. CASE o = "hook"
  BY <1>1, <1>2, <1>3, <1>4, HealthKeeps
<1>5. CASE o = "load"
  BY <1>1, <1>2, <1>3, <1>5, HealthKeeps
<1> QED BY <1>4, <1>5, Zenon

LEMMA RegressKeeps ==
  ASSUME RunInv, NEW r \in Runs, Regress(r)
  PROVE  RunInv'
<1>1. UNCHANGED <<setup, crd, gone, run>> /\ setup[r].load # "Job"
      /\ health' = [health EXCEPT ![r].load = "InProgress"] /\ "InProgress" \in Health
  BY Zenon DEF Regress, World, Health
<1> QED BY <1>1, HealthKeeps, Zenon


LEMMA StillKeeps ==
  ASSUME RunInv, UNCHANGED <<setup, crd, gone, run, health>>
  PROVE  RunInv'
<1>1. RunTypes
  BY Zenon DEF RunInv
<1>2. Gently /\ \A q \in Runs, c \in CRDs : crd'[c].by = q => crd[c].by = q
  BY <1>1, Quietly, Zenon
<1> QED BY <1>2, SameHealth, ClusterKeeps, Zenon

(* ------------------------------ the theorems ----------------------------- *)

LEMMA RunInit ==
  ASSUME Init
  PROVE  RunInv
<1>1. /\ setup \in Setups /\ crd = [c \in CRDs |-> Absent] /\ run = [r \in Runs |-> Begun]
      /\ health = [r \in Runs |-> [hook |-> "Absent", load |-> "Absent"]] /\ gone = {}
  BY Zenon DEF Init
<1>2. Absent \in Resources /\ [hook |-> "Absent", load |-> "Absent"] \in Healths
  BY DEF Absent, Resources, Healths, Health
<1>3. Begun \in RunStates
  BY DEF Begun, RunStates, Places, Outcomes
<1>4. RunTypes
  BY <1>1, <1>2, <1>3, Zenon DEF RunTypes
<1>5. /\ Begun.pc = "begin" /\ Begun.left = {} /\ Begun.seen = {} /\ Begun.items = {}
      /\ Begun.there = {} /\ Begun.result = "none"
  BY DEF Begun
<1>6. ASSUME NEW r \in Runs PROVE RunOK(r)
  <2>1. /\ run[r].pc = "begin" /\ run[r].left = {} /\ run[r].seen = {} /\ run[r].items = {}
        /\ run[r].there = {} /\ run[r].result = "none"
    BY <1>1, <1>5, Zenon
  <2>2. \A c \in CRDs : crd[c].by # r
    <3>1. Absent.by = "none" /\ r # "none"
      BY SetupsAssumption, Zenon DEF Absent
    <3> QED BY <1>1, <3>1, Zenon
  <2>3. OnItsCRDs(r)
    BY <2>1, <2>2, Zenon DEF OnItsCRDs
  <2>4. Served(r) /\ LeftAlone(r) /\ Completed(r)
    BY <2>1, Zenon DEF Served, LeftAlone, Completed
  <2> QED BY <2>3, <2>4, Zenon DEF RunOK
<1> QED BY <1>4, <1>6, Zenon DEF RunInv

LEMMA RunNext ==
  ASSUME RunInv, [Next]_vars
  PROVE  RunInv'
<1>1. ASSUME NEW r \in Runs, RunStep(r) PROVE RunInv'
  BY <1>1, BeginKeeps, LookKeeps, CreateKeeps, GetKeeps, UpdateKeeps, AllCreatedKeeps, SkipKeeps,
     AppliedKeeps, PollKeeps, WaitEndKeeps, HelmKeeps, HookPassesKeeps, SucceedsKeeps, Zenon
  DEF RunStep
<1>2. ASSUME NEW r \in Runs,
             \/ WaitTimesOut(r) \/ RetryCreate(r) \/ CallFails(r) \/ Regress(r)
             \/ \E o \in {"hook", "load"} : Progress(r, o)
      PROVE  RunInv'
  BY <1>2, WaitEndKeeps, RetryKeeps, FailKeeps, RegressKeeps, ProgressKeeps, Zenon
<1>3. ASSUME NEW c \in CRDs, Establish(c) \/ Others(c) PROVE RunInv'
  BY <1>3, EstablishKeeps, OthersKeep, Zenon
<1>4. CASE MemoryUse \/ WatchForNearOOM \/ UNCHANGED vars \/ \E r \in Runs : NewRequest(r)
  <2>1. UNCHANGED <<setup, crd, gone, run, health>>
    BY <1>4, Zenon DEF MemoryUse, WatchForNearOOM, vars, NewRequest
  <2> QED BY <2>1, StillKeeps, Zenon
<1> QED BY <1>1, <1>2, <1>3, <1>4, Zenon DEF Next

LEMMA RunAlways == Spec => []RunInv
<1>1. Init => RunInv
  BY RunInit, Zenon
<1>2. RunInv /\ [Next]_vars => RunInv'
  BY RunNext, Zenon
<1> QED BY <1>1, <1>2, PTL DEF Spec

\* When Helm builds the manifest, the CRDs that the run created or updated are
\* served and mapped, for any number of runs that share CRDs and however they
\* interleave (the wait and the reset of the REST mapper in applyCRDs).
THEOREM CRDsServedBeforeHelm == Spec => []OwnCRDsServed
<1>1. RunInv => OwnCRDsServed
  <2> SUFFICES ASSUME RunInv, NEW r \in Runs, At(r, "helm"), getWaitStrategy(r) # "hookOnly"
               PROVE  run[r].items \subseteq Mapped(r) \cup gone
    BY Zenon DEF OwnCRDsServed
  <2>1. /\ run[r].items \subseteq run[r].known \cup gone
        /\ run[r].items \subseteq Established \cup gone
    BY Zenon DEF RunInv, RunOK, Served, At
  <2> QED BY <2>1, Zenon DEF Mapped
<1> QED BY <1>1, RunAlways, PTL

\* A run with the Create policy never takes over a CRD that was there when it
\* began (AlreadyExists of a create, the Get before an apply), also when calls
\* are repeated or fail after they were carried out.
THEOREM OlderCRDsLeftAlone == Spec => []CreateLeavesOlderCRDs
<1>1. RunInv => CreateLeavesOlderCRDs
  BY Zenon DEF RunInv, RunOK, LeftAlone, CreateLeavesOlderCRDs
<1> QED BY <1>1, RunAlways, PTL

\* A run that succeeds has seen its Job or Pod hook complete, and its Job unless
\* waiting for it is disabled (WatchUntilReady, Wait, WaitWithJobs), and what it
\* saw stays so.
THEOREM SuccessIsComplete == Spec => []SuccessMeansComplete
<1>1. RunInv => SuccessMeansComplete
  BY Zenon DEF RunInv, RunOK, Completed, HookCompleted, LoadCompleted, SuccessMeansComplete
<1> QED BY <1>1, RunAlways, PTL
=============================================================================
