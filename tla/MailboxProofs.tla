---------------------------- MODULE MailboxProofs ----------------------------
(***************************************************************************)
(* Proofs about Mailbox, for a mailbox of any size and any number of       *)
(* starts: what is read, deleted and added in one power cycle.             *)
(***************************************************************************)
EXTENDS Mailbox, FiniteSetTheorems, TLAPS

USE RoomAssumption

-----------------------------------------------------------------------------
(* The library of the mailbox.                                               *)

LEMMA LettersOfBL ==
  /\ Gone \in Letters /\ Gone.type = "gone"
  /\ \A whole \in BOOLEAN :
       /\ Image(whole) \in Letters /\ Image(whole).type = "firmware" /\ Image(whole).valid = whole
       /\ Image(whole).from = "BL" /\ Image(whole).to = "BS"
  /\ \A to \in {"BS", "APP"} : \A code \in Codes :
       /\ EventTo(to, code) \in Letters /\ EventTo(to, code).type = "event"
       /\ EventTo(to, code).from = "BL" /\ EventTo(to, code).to = to /\ EventTo(to, code).code = code
  /\ \A terms \in SUBSET {"iop", "bl", "mf"} :
       /\ Bytes(terms) \in Letters /\ Bytes(terms).type = "iop" /\ Bytes(terms).valid
       /\ Bytes(terms).from = "BL" /\ Bytes(terms).to = "APP" /\ Bytes(terms).bytes = terms
  BY DEF Gone, Image, EventTo, Bytes, Msg, Letters, Codes

Cells(mail) == {c \in (DOMAIN mail) \X (1..ImageRoom) : c[2] <= Size(mail[c[1]])}

LEMMA Sizes == \A m \in Letters : Size(m) \in 0..ImageRoom /\ Size(m) \in Nat
  BY DEF Size

LEMMA CellsFinite ==
  ASSUME NEW mail \in Seq(Letters)
  PROVE  IsFiniteSet(Cells(mail)) /\ Used(mail) = Cardinality(Cells(mail)) /\ Used(mail) \in Nat
  <1>1. IsFiniteSet(DOMAIN mail) /\ IsFiniteSet(1..ImageRoom)
    <2>1. DOMAIN mail = 1..Len(mail) /\ Len(mail) \in Nat
          OBVIOUS
    <2> QED BY <2>1, FS_Interval
  <1>2. IsFiniteSet((DOMAIN mail) \X (1..ImageRoom))
        BY <1>1, FS_Product
  <1>3. Cells(mail) \in SUBSET ((DOMAIN mail) \X (1..ImageRoom))
        BY DEF Cells
  <1>4. IsFiniteSet(Cells(mail))
        BY <1>2, <1>3, FS_Subset
  <1>5. Used(mail) = Cardinality(Cells(mail))
        BY DEF Used, Cells
  <1> QED BY <1>4, <1>5, FS_CardinalityType

\* A put takes as many cells as the message needs.
LEMMA Appended ==
  ASSUME NEW mail \in Seq(Letters), NEW m \in Letters, m.type # "gone"
  PROVE  /\ Append(mail, m) \in Seq(Letters)
         /\ Messages(Append(mail, m)) = Messages(mail) \cup {m}
         /\ Used(Append(mail, m)) = Used(mail) + Size(m)
  <1> DEFINE more == Append(mail, m)
             n == Len(mail) + 1
             new == {n} \X (1..Size(m))
  <1>1. /\ more \in Seq(Letters) /\ DOMAIN more = (DOMAIN mail) \cup {n} /\ n \notin DOMAIN mail
        /\ more[n] = m /\ \A i \in DOMAIN mail : more[i] = mail[i]
        OBVIOUS
  <1>2. Messages(more) = Messages(mail) \cup {m}
        BY <1>1 DEF Messages
  <1>3. Cells(more) = Cells(mail) \cup new
    <2>1. Size(m) \in 0..ImageRoom
          BY Sizes
    <2>2. ASSUME NEW c
          PROVE  c \in Cells(more) <=> c \in Cells(mail) \/ c \in new
          BY <1>1, <2>1 DEF Cells
    <2> QED BY <2>2
  <1>4. Cells(mail) \cap new = {}
        BY <1>1 DEF Cells
  <1>5. IsFiniteSet(new) /\ Cardinality(new) = Size(m)
    <2>1. IsFiniteSet({n}) /\ Cardinality({n}) = 1
          BY FS_Singleton
    <2>2. IsFiniteSet(1..Size(m)) /\ Cardinality(1..Size(m)) = Size(m)
          BY Sizes, FS_Interval
    <2>3. IsFiniteSet(new) /\ Cardinality(new) = Cardinality({n}) * Cardinality(1..Size(m))
          BY <2>1, <2>2, FS_Product
    <2> QED BY <2>1, <2>2, <2>3, Sizes
  <1>6. Cardinality(Cells(mail) \cup new) = Cardinality(Cells(mail)) + Cardinality(new)
    <2>1. IsFiniteSet(Cells(mail)) /\ Cardinality(Cells(mail)) \in Nat
          BY CellsFinite
    <2>2. Cardinality(Cells(mail) \cup new)
            = Cardinality(Cells(mail)) + Cardinality(new) - Cardinality(Cells(mail) \cap new)
          BY <2>1, <1>5, FS_Union
    <2>3. Cardinality(Cells(mail) \cap new) = 0
          BY <1>4, FS_EmptySet
    <2> QED BY <2>1, <2>2, <2>3, <1>5, Sizes
  <1> QED BY <1>1, <1>2, <1>3, <1>5, <1>6, CellsFinite

\* A put into a mailbox that is not overfull leaves it so, and adds the message or nothing.
LEMMA Put ==
  ASSUME NEW mail \in Seq(Letters), Used(mail) <= Room, NEW m \in Letters, m.type # "gone"
  PROVE  /\ PutIn(mail, m) \in Seq(Letters) /\ Used(PutIn(mail, m)) <= Room
         /\ Messages(mail) \subseteq Messages(PutIn(mail, m))
         /\ Messages(PutIn(mail, m)) \subseteq Messages(mail) \cup {m}
         /\ HasRoomFor(mail, m) => m \in Messages(PutIn(mail, m))
  BY Appended DEF PutIn, HasRoomFor

LEMMA PutOrNot ==
  ASSUME NEW mail \in Seq(Letters), Used(mail) <= Room, NEW m \in Letters, m.type # "gone", NEW when \in BOOLEAN
  PROVE  /\ PutIf(when, mail, m) \in Seq(Letters) /\ Used(PutIf(when, mail, m)) <= Room
         /\ Messages(mail) \subseteq Messages(PutIf(when, mail, m))
         /\ Messages(PutIf(when, mail, m)) \subseteq Messages(mail) \cup {m}
         /\ m \in Messages(PutIf(when, mail, m)) => when \/ m \in Messages(mail)
  BY Put DEF PutIf

\* Deleting takes the messages at the places that are named, and no others.
LEMMA Deleted ==
  ASSUME NEW mail \in Seq(Letters), NEW places
  PROVE  /\ Delete(mail, places) \in Seq(Letters) /\ Used(Delete(mail, places)) <= Used(mail)
         /\ Messages(Delete(mail, places)) \subseteq Messages(mail)
         /\ \A m \in Messages(Delete(mail, places)) : \E i \in DOMAIN mail : i \notin places /\ mail[i] = m
         /\ \A i \in (DOMAIN mail) \ places : mail[i].type # "gone" => mail[i] \in Messages(Delete(mail, places))
  <1> DEFINE less == Delete(mail, places)
  <1>1. /\ less \in Seq(Letters) /\ DOMAIN less = DOMAIN mail
        /\ \A i \in DOMAIN mail : less[i] = IF i \in places THEN Gone ELSE mail[i]
    <2>1. DOMAIN mail = 1..Len(mail) /\ Len(mail) \in Nat /\ \A i \in DOMAIN mail : mail[i] \in Letters
          OBVIOUS
    <2>2. less = [i \in 1..Len(mail) |-> IF i \in places THEN Gone ELSE mail[i]]
          BY <2>1 DEF Delete
    <2>3. \A i \in 1..Len(mail) : (IF i \in places THEN Gone ELSE mail[i]) \in Letters
          BY <2>1, LettersOfBL
    <2> HIDE DEF less
    <2>4. less \in Seq(Letters)
          BY <2>1, <2>2, <2>3
    <2> QED BY <2>1, <2>2, <2>4
  <1>2. Used(less) <= Used(mail)
    <2>1. Size(Gone) = 0
          BY LettersOfBL DEF Size
    <2>2. Cells(less) \in SUBSET Cells(mail)
          BY <1>1, <2>1 DEF Cells
    <2> QED BY <1>1, <2>2, CellsFinite, FS_Subset
  <1>3. \A m \in Messages(less) : \E i \in DOMAIN mail : i \notin places /\ mail[i] = m
        BY <1>1, LettersOfBL DEF Messages
  <1>4. \A i \in (DOMAIN mail) \ places : mail[i].type # "gone" => mail[i] \in Messages(less)
        BY <1>1 DEF Messages
  <1>5. Messages(less) \subseteq Messages(mail)
        BY <1>3 DEF Messages
  <1> QED BY <1>1, <1>2, <1>3, <1>4, <1>5

LEMMA StringIsMessage ==
  ASSUME NEW mail \in Seq(Letters), NEW code
  PROVE  Strings(mail, code) # {} <=>
           \E m \in Messages(mail) : Reads(m, "BS", "manufacture") /\ m.code = code
  BY DEF Strings, Messages, Reads

-----------------------------------------------------------------------------
(* The mail at the start.                                                    *)

ForeignMail(mail) ==
  /\ mail \in Seq(Letters)
  /\ \A m \in Messages(mail) :
       /\ m.from # "BL"
       /\ Reads(m, "BS", "iop") /\ m.fits => m.bytes = Xor(Secret, HashBL)

Foreign(m) ==
  /\ m \in Letters /\ m.from # "BL"
  /\ Reads(m, "BS", "iop") /\ m.fits => m.bytes = Xor(Secret, HashBL)

LEMMA FewLetters ==
  /\ ForeignMail(<<>>)
  /\ \A m : Foreign(m) => ForeignMail(<<m>>)
  /\ \A m, n : Foreign(m) /\ Foreign(n) => ForeignMail(<<m, n>>)
  <1>1. ForeignMail(<<>>)
        BY DEF ForeignMail, Messages
  <1>2. ASSUME NEW m, Foreign(m)
        PROVE  ForeignMail(<<m>>)
    <2>1. <<m>> \in Seq(Letters) /\ DOMAIN <<m>> = {1} /\ <<m>>[1] = m
          BY <1>2 DEF Foreign
    <2> QED BY <1>2, <2>1 DEF ForeignMail, Foreign, Messages
  <1>3. ASSUME NEW m, NEW n, Foreign(m), Foreign(n)
        PROVE  ForeignMail(<<m, n>>)
    <2>1. /\ <<m, n>> \in Seq(Letters) /\ DOMAIN <<m, n>> = {1, 2}
          /\ <<m, n>>[1] = m /\ <<m, n>>[2] = n
          BY <1>3 DEF Foreign
    <2> QED BY <1>3, <2>1 DEF ForeignMail, Foreign, Messages
  <1> QED BY <1>1, <1>2, <1>3

LEMMA Joined ==
  ASSUME NEW s, NEW t, ForeignMail(s), ForeignMail(t)
  PROVE  ForeignMail(s \o t)
  <1>1. s \in Seq(Letters) /\ t \in Seq(Letters)
        BY DEF ForeignMail
  <1>2. /\ s \o t \in Seq(Letters)
        /\ \A i \in DOMAIN (s \o t) : \/ i \in DOMAIN s /\ (s \o t)[i] = s[i]
                                      \/ i - Len(s) \in DOMAIN t /\ (s \o t)[i] = t[i - Len(s)]
        BY <1>1
  <1>3. Messages(s \o t) \subseteq Messages(s) \cup Messages(t)
        BY <1>2 DEF Messages
  <1> QED BY <1>2, <1>3 DEF ForeignMail

LEMMA FirstMailForeign == Init => ForeignMail(box)
  <1>1. \A i \in IopMails : ForeignMail(i)
    <2>1. \A terms \in SUBSET {"iop", "bl", "mf"} :
            /\ Iop(terms) \in Letters /\ Iop(terms).from = "BS" /\ Iop(terms).bytes = terms
            /\ [Iop(terms) EXCEPT !.fits = FALSE] \in Letters /\ [Iop(terms) EXCEPT !.valid = FALSE] \in Letters
            /\ [Iop(terms) EXCEPT !.fits = FALSE].from = "BS" /\ ~[Iop(terms) EXCEPT !.fits = FALSE].fits
            /\ [Iop(terms) EXCEPT !.valid = FALSE].from = "BS" /\ ~[Iop(terms) EXCEPT !.valid = FALSE].valid
          BY DEF Iop, Msg, Letters, Codes
    <2>2. Xor(Secret, {"bl"}) \in SUBSET {"iop", "bl", "mf"} /\ {} \in SUBSET {"iop", "bl", "mf"}
          BY DEF Xor, Secret
    <2>3. /\ Foreign(Iop(Xor(Secret, {"bl"})))
          /\ Foreign([Iop({}) EXCEPT !.fits = FALSE]) /\ Foreign([Iop({}) EXCEPT !.valid = FALSE])
          BY <2>1, <2>2 DEF Foreign, Reads, HashBL
    <2> QED BY <2>3, FewLetters DEF IopMails
  <1>2. ASSUME NEW from \in {"BS", "APP"}, NEW codes \in SUBSET Codes
        PROVE  \A e \in EventMails(from, codes) : ForeignMail(e)
    <2>1. \A c \in codes :
            /\ Foreign(Msg(from, "BL", "event", c)) /\ Foreign([Msg(from, "BL", "event", c) EXCEPT !.valid = FALSE])
          BY DEF Foreign, Msg, Letters, Reads
    <2> QED BY <2>1, FewLetters DEF EventMails
  <1>3. \A m \in StringMails : ForeignMail(m)
    <2>1. /\ Foreign(Msg("BS", "BL", "manufacture", "version"))
          /\ Foreign([Msg("BS", "BL", "manufacture", "version") EXCEPT !.valid = FALSE])
          /\ Foreign(Msg("BS", "BL", "manufacture", "serial"))
          BY DEF Foreign, Msg, Letters, Reads, Codes
    <2> QED BY <2>1, FewLetters DEF StringMails
  <1>4. \A o \in OtherMails : ForeignMail(o)
    <2>1. Foreign(Msg("BS", "APP", "event", "note")) /\ Foreign(Msg("APP", "BS", "event", "note"))
          BY DEF Foreign, Msg, Letters, Reads, Codes
    <2> QED BY <2>1, FewLetters DEF OtherMails
  <1>5. FromBS \in SUBSET Codes /\ FromApp \in SUBSET Codes
        BY DEF Codes
  <1>6. ASSUME Init
        PROVE  ForeignMail(box)
    <2>1. PICK i \in IopMails, e \in EventMails("BS", FromBS), m \in StringMails,
               f \in EventMails("APP", FromApp), o \in OtherMails : box = i \o e \o m \o f \o o
          BY <1>6 DEF Init
    <2>2. ForeignMail(i) /\ ForeignMail(e) /\ ForeignMail(m) /\ ForeignMail(f) /\ ForeignMail(o)
          BY <1>1, <1>2, <1>3, <1>4, <1>5
    <2>3. ForeignMail(i \o e \o m \o f \o o)
          BY <2>2, Joined
    <2> QED BY <2>1, <2>3
  <1> QED BY <1>6

-----------------------------------------------------------------------------
(* Type correctness.                                                         *)

LEMMA InitType == Init => TypeOK
  <1> SUFFICES ASSUME Init PROVE TypeOK
      OBVIOUS
  <1>1. {box, given} \subseteq Seq(Letters) /\ Used(box) <= Room
        BY FirstMailForeign DEF Init, ForeignMail
  <1>2. flags \in Flags
        BY DEF Init, Flags
  <1>3. 0 \in 0..MaxStarts
        OBVIOUS
  <1> QED BY <1>1, <1>2, <1>3 DEF Init, TypeOK

\* mailEngine_shareNewBL leaves a mailbox that is not overfull, adds the image only, and takes
\* nothing but the mail of the bootloader.
LEMMA SharedMail ==
  ASSUME NEW mail \in Seq(Letters), Used(mail) <= Room, NEW s \in ShareNewBL(mail)
  PROVE  /\ s.mail \in Seq(Letters) /\ Used(s.mail) <= Room /\ s.ok \in BOOLEAN
         /\ Messages(s.mail) \subseteq Messages(mail) \cup {Image(TRUE), Image(FALSE)}
         /\ \A m \in Messages(mail) : m.from # "BL" => m \in Messages(s.mail)
         /\ s.ok => Image(TRUE) \in Messages(s.mail)
  <1>1. CASE s = [mail |-> mail, ok |-> FALSE]
        BY <1>1
  <1>2. CASE HasRoomFor(mail, Image(TRUE)) /\ s \in Shared(mail)
    <2>1. PICK whole \in BOOLEAN : s = [mail |-> Append(mail, Image(whole)), ok |-> whole]
          BY <1>2 DEF Shared
    <2>2. Image(whole) \in Letters /\ Image(whole).type = "firmware" /\ Image(TRUE).type = "firmware"
          BY LettersOfBL
    <2>3. /\ Append(mail, Image(whole)) \in Seq(Letters)
          /\ Messages(Append(mail, Image(whole))) = Messages(mail) \cup {Image(whole)}
          /\ Used(Append(mail, Image(whole))) = Used(mail) + Size(Image(whole))
          BY <2>2, Appended
    <2>4. Used(Append(mail, Image(whole))) <= Room
          BY <1>2, <2>2, <2>3 DEF HasRoomFor, Size
    <2> QED BY <2>1, <2>3, <2>4
  <1>3. CASE s = [mail |-> RemoveMsgFromBL(mail), ok |-> FALSE]
    <2> DEFINE places == {i \in DOMAIN mail : mail[i].from = "BL"}
    <2>1. /\ Delete(mail, places) \in Seq(Letters) /\ Used(Delete(mail, places)) <= Used(mail)
          /\ Messages(Delete(mail, places)) \subseteq Messages(mail)
          /\ \A i \in (DOMAIN mail) \ places :
               mail[i].type # "gone" => mail[i] \in Messages(Delete(mail, places))
          BY Deleted
    <2>2. s.mail = Delete(mail, places) /\ s.ok = FALSE
          BY <1>3 DEF RemoveMsgFromBL
    <2>3. \A m \in Messages(mail) : m.from # "BL" => m \in Messages(Delete(mail, places))
          BY <2>1 DEF Messages
    <2>4. Used(Delete(mail, places)) <= Room
          BY <2>1, CellsFinite
    <2> QED BY <2>1, <2>2, <2>3, <2>4
  <1> QED BY <1>1, <1>2, <1>3 DEF ShareNewBL

\* What is deleted for a sender or a kind leaves the rest where it was.
LEMMA DeletedTyped ==
  ASSUME NEW mail \in Seq(Letters), Used(mail) <= Room, NEW places
  PROVE  Delete(mail, places) \in Seq(Letters) /\ Used(Delete(mail, places)) <= Room
  BY Deleted, CellsFinite

LEMMA AnsweredTyped ==
  ASSUME TypeOK, NEW a \in AnswersToBS
  PROVE  /\ a.mail \in Seq(Letters) /\ Used(a.mail) <= Room /\ a.reply \in BOOLEAN
         /\ a.code \in {"keyOk", "firstRunOk"}
         /\ Messages(a.mail) \subseteq Messages(box) \cup {Image(TRUE), Image(FALSE)}
         /\ \A m \in Messages(box) : m.from # "BL" => m \in Messages(a.mail)
         /\ a.code = "keyOk" /\ a.reply => Image(TRUE) \in Messages(a.mail)
         /\ a.code = "keyOk" => flags.firstRunBL
  <1> USE DEF TypeOK
  <1>1. CASE flags.firstRunBL /\ flags.sendAgain
    <2>1. CASE a = [mail |-> box, reply |-> FALSE, code |-> "keyOk"]
          BY <1>1, <2>1
    <2>2. CASE \E s \in ShareNewBL(box) : a = [mail |-> s.mail, reply |-> s.ok, code |-> "keyOk"]
      <3>1. PICK s \in ShareNewBL(box) : a = [mail |-> s.mail, reply |-> s.ok, code |-> "keyOk"]
            BY <2>2
      <3> QED BY <1>1, <3>1, SharedMail
    <2> QED BY <1>1, <2>1, <2>2 DEF AnswersToBS
  <1>2. CASE ~(flags.firstRunBL /\ flags.sendAgain)
    <2>1. a = [mail |-> box, reply |-> flags.firstRunBL, code |-> "firstRunOk"]
          BY <1>2 DEF AnswersToBS
    <2>2. a.mail = box /\ a.reply = flags.firstRunBL /\ a.code = "firstRunOk"
          BY <2>1
    <2>3. a.reply \in BOOLEAN
          BY <2>2 DEF Flags
    <2> QED BY <2>2, <2>3
  <1> QED BY <1>1, <1>2

IInv == TypeOK /\ MailInv

-----------------------------------------------------------------------------
(* The steps.                                                                *)

\* A mailbox that keeps the strings of the bootstrapper and the mail of the others.
KeepsStrings(mail) ==
  \A m \in Messages(box) : Reads(m, "BS", "manufacture") => m \in Messages(mail)
KeepsOthers(mail) ==
  \A m \in Messages(box) : m.to # "BL" /\ m.from # "BL" => m \in Messages(mail)
NothingToBL(mail) == (\A m \in Messages(box) : ~ToBL(m)) => \A m \in Messages(mail) : ~ToBL(m)

LEMMA StringsKept ==
  ASSUME TypeOK, UNCHANGED given, box' \in Seq(Letters), KeepsStrings(box'), NEW code,
         Strings(given, code) # {} => Strings(box, code) # {}
  PROVE  (Strings(given, code) # {})' => (Strings(box, code) # {})'
  <1>1. Strings(box, code) # {} => Strings(box', code) # {}
        BY StringIsMessage DEF TypeOK, KeepsStrings
  <1> QED BY <1>1

LEMMA OthersStay ==
  ASSUME GivenInv, OthersKept, UNCHANGED given, cleared => cleared', KeepsOthers(box')
  PROVE  OthersKept'
  BY DEF GivenInv, OthersKept, KeepsOthers

LEMMA SecureKeeps == IInv /\ SecureInit => IInv'
  <1> SUFFICES ASSUME IInv, SecureInit PROVE IInv'
      OBVIOUS
  <1>1. /\ TypeOK /\ GivenInv /\ FirstInv /\ ClosedInv /\ StringInv /\ KeyInv /\ OthersKept
        /\ bpc = "secure" /\ bpc' = "read" /\ box = given /\ gui = "dark" /\ starts = 0
        /\ UNCHANGED <<flags, inited, starts, closed, labels, gui, given, refused, cleared>>
        BY DEF IInv, MailInv, SecureInit, FirstInv, guiVars, history
  <1>2. /\ box' \in Seq(Letters) /\ Used(box') <= Room
        /\ Messages(box') \subseteq Messages(box)
        /\ KeepsStrings(box') /\ KeepsOthers(box')
    <2>1. box' = Delete(box, IopRead(box)) /\ box \in Seq(Letters) /\ Used(box) <= Room
          BY <1>1 DEF SecureInit, TypeOK
    <2>2. /\ Messages(box') \subseteq Messages(box)
          /\ \A i \in (DOMAIN box) \ IopRead(box) : box[i].type # "gone" => box[i] \in Messages(box')
          BY <2>1, Deleted
    <2>3. KeepsStrings(box') /\ KeepsOthers(box')
          BY <2>2 DEF KeepsStrings, KeepsOthers, IopRead, BadToBL, Reads, ToBL, Messages
    <2> QED BY <2>1, <2>2, <2>3, DeletedTyped
  <1>3. iopvx' \subseteq {"iop", "bl", "mf"} /\ (GoodIop => iopvx' = Xor(Secret, HashBL))
    <2> DEFINE iops == {i \in DOMAIN box : Reads(box[i], "BS", "iop") /\ box[i].fits}
    <2>1. CASE iops = {} /\ UNCHANGED iopvx
      <3>1. ~GoodIop
        <4>1. \A m \in Messages(box) : ~(Reads(m, "BS", "iop") /\ m.fits)
              BY <2>1 DEF Messages
        <4>2. LET m == Iop(Xor(Secret, {"bl"})) IN Reads(m, "BS", "iop") /\ m.fits
              BY DEF Iop, Msg, Reads, ToBL
        <4> QED BY <1>1, <4>1, <4>2 DEF GoodIop
      <3> QED BY <1>1, <2>1, <3>1 DEF TypeOK
    <2>2. ASSUME NEW last \in iops, iopvx' = box[last].bytes
          PROVE  iopvx' \subseteq {"iop", "bl", "mf"} /\ iopvx' = Xor(Secret, HashBL)
      <3>1. box[last] \in Messages(box) /\ Reads(box[last], "BS", "iop") /\ box[last].fits
            BY <2>2 DEF Messages, Reads
      <3>2. box[last] \in Letters
            BY <1>1, <2>2 DEF TypeOK
      <3> QED BY <1>1, <2>2, <3>1, <3>2 DEF GivenInv, Letters
    <2> QED BY <2>1, <2>2 DEF SecureInit
  <1>4. TypeOK'
        BY <1>1, <1>2, <1>3 DEF TypeOK
  <1>5. GivenInv' /\ OthersKept'
        BY <1>1, <1>2, OthersStay DEF GivenInv
  <1>6. FirstInv' /\ ClosedInv'
        BY <1>1, <1>2, <1>3 DEF FirstInv, ClosedInv, GoodIop, Stopped
  <1>7. StringInv' /\ VersionsShown'
        BY <1>1, <1>2, StringsKept DEF StringInv, VersionsShown, Stopped
  <1>8. KeyInv' /\ MFDecodesIOP'
        BY <1>1, <1>2 DEF KeyInv, MFDecodesIOP
  <1> QED BY <1>4, <1>5, <1>6, <1>7, <1>8 DEF IInv, MailInv

LEMMA ReadKeeps == IInv /\ ReadMsgToBL => IInv'
  <1> SUFFICES ASSUME IInv, ReadMsgToBL PROVE IInv'
      OBVIOUS
  <1>1. /\ TypeOK /\ GivenInv /\ FirstInv /\ ClosedInv /\ StringInv /\ KeyInv /\ OthersKept
        /\ bpc = "read" /\ bpc' = "handle" /\ gui = "dark" /\ starts = 0
        /\ UNCHANGED <<iopvx, inited, starts, closed, labels, gui, given, refused, cleared>>
        BY DEF IInv, MailInv, ReadMsgToBL, FirstInv, guiVars, history
  <1>2. /\ box' \in Seq(Letters) /\ Used(box') <= Room
        /\ Messages(box') \subseteq Messages(box)
        /\ KeepsStrings(box') /\ KeepsOthers(box')
    <2>1. box' = Delete(box, EventsRead(box)) /\ box \in Seq(Letters) /\ Used(box) <= Room
          BY <1>1 DEF ReadMsgToBL, TypeOK
    <2>2. /\ Messages(box') \subseteq Messages(box)
          /\ \A i \in (DOMAIN box) \ EventsRead(box) : box[i].type # "gone" => box[i] \in Messages(box')
          BY <2>1, Deleted
    <2>3. KeepsStrings(box') /\ KeepsOthers(box')
          BY <2>2 DEF KeepsStrings, KeepsOthers, EventsRead, BadToBL, Reads, ToBL, Messages
    <2> QED BY <2>1, <2>2, <2>3, DeletedTyped
  <1>3. flags' \in Flags
    <2>1. /\ flags.firstRunBL \in BOOLEAN /\ flags.sendAgain \in BOOLEAN /\ flags.doneBL \in BOOLEAN
          /\ flags.failedBL \in BOOLEAN /\ flags.doneMF \in BOOLEAN /\ flags.allowed \in BOOLEAN
          BY <1>1 DEF TypeOK, Flags
    <2> QED BY <2>1 DEF ReadMsgToBL, FlagsRead, Flags
  <1>4. TypeOK'
        BY <1>1, <1>2, <1>3 DEF TypeOK
  <1>5. GivenInv' /\ OthersKept'
        BY <1>1, <1>2, OthersStay DEF GivenInv
  <1>6. FirstInv' /\ ClosedInv'
        BY <1>1, <1>2 DEF FirstInv, ClosedInv, GoodIop, Stopped
  <1>7. StringInv' /\ VersionsShown'
        BY <1>1, <1>2, StringsKept DEF StringInv, VersionsShown, Stopped
  <1>8. KeyInv' /\ MFDecodesIOP'
        BY <1>1, <1>2 DEF KeyInv, MFDecodesIOP
  <1> QED BY <1>4, <1>5, <1>6, <1>7, <1>8 DEF IInv, MailInv

\* What the steps that only add mail of the bootloader leave true.
LEMMA MailAdded ==
  ASSUME IInv, UNCHANGED <<given, closed, labels, gui>>, cleared => cleared', ~Stopped, ~Stopped',
         bpc # "secure", bpc' # "secure", box' \in Seq(Letters),
         KeepsStrings(box'), KeepsOthers(box'), NothingToBL(box')
  PROVE  /\ GivenInv' /\ OthersKept' /\ ClosedInv' /\ StringInv' /\ VersionsShown' /\ MFDecodesIOP'
         /\ UNCHANGED iopvx /\ (bpc' \in {"read", "handle"} => bpc = bpc' /\ UNCHANGED starts) => FirstInv'
  <1>1. TypeOK /\ GivenInv /\ FirstInv /\ ClosedInv /\ StringInv /\ OthersKept /\ VersionsShown
        BY DEF IInv, MailInv
  <1>2. GivenInv' /\ OthersKept' /\ ClosedInv'
        BY <1>1, OthersStay DEF GivenInv, ClosedInv, NothingToBL
  <1>3. StringInv' /\ VersionsShown'
        BY <1>1, StringsKept DEF StringInv, VersionsShown
  <1>4. MFDecodesIOP'
        BY DEF MFDecodesIOP, Stopped
  <1>5. UNCHANGED iopvx /\ (bpc' \in {"read", "handle"} => bpc = bpc' /\ UNCHANGED starts) => FirstInv'
        BY <1>1 DEF FirstInv, GoodIop
  <1> QED BY <1>2, <1>3, <1>4, <1>5

LEMMA HandleKeeps == IInv /\ HandleMessages => IInv'
  <1> SUFFICES ASSUME IInv, HandleMessages PROVE IInv'
      OBVIOUS
  <1>1. /\ TypeOK /\ FirstInv /\ KeyInv
        /\ bpc = "handle" /\ bpc' = (IF flags.firstRunBL THEN "toBS" ELSE "wait")
        /\ UNCHANGED <<flags, iopvx, inited, starts, closed, labels, gui, given, cleared>>
        BY DEF IInv, MailInv, HandleMessages, guiVars
  <1>2. /\ box \in Seq(Letters) /\ Used(box) <= Room /\ flags.failedBL \in BOOLEAN /\ flags.doneBL \in BOOLEAN
        /\ flags.doneMF \in BOOLEAN
        BY <1>1 DEF TypeOK, Flags
  <1>3. PICK a \in AnswersToBS :
          /\ box' = PutIf(flags.doneMF, PutIf(a.reply, a.mail, EventTo("BS", a.code)), EventTo("APP", "mfUpdateOk"))
          /\ refused' = (\/ refused \/ Refuses(a.reply, a.mail, EventTo("BS", a.code))
                        \/ Refuses(flags.doneMF, PutIf(a.reply, a.mail, EventTo("BS", a.code)),
                                   EventTo("APP", "mfUpdateOk")))
        BY DEF HandleMessages
  <1> DEFINE reply == EventTo("BS", a.code)
             answered == PutIf(a.reply, a.mail, reply)
             success == EventTo("APP", "mfUpdateOk")
  <1>4. /\ a.mail \in Seq(Letters) /\ Used(a.mail) <= Room /\ a.reply \in BOOLEAN /\ a.code \in {"keyOk", "firstRunOk"}
        /\ Messages(a.mail) \subseteq Messages(box) \cup {Image(TRUE), Image(FALSE)}
        /\ \A m \in Messages(box) : m.from # "BL" => m \in Messages(a.mail)
        /\ a.code = "keyOk" /\ a.reply => Image(TRUE) \in Messages(a.mail)
        /\ a.code = "keyOk" => flags.firstRunBL
        BY <1>1, AnsweredTyped
  <1>5. /\ reply \in Letters /\ reply.type = "event" /\ reply.to = "BS" /\ reply.code = a.code
        /\ success \in Letters /\ success.type = "event" /\ success.to = "APP"
        /\ Image(TRUE).to = "BS" /\ Image(FALSE).to = "BS"
        /\ Image(TRUE).type = "firmware" /\ Image(FALSE).type = "firmware"
        /\ EventTo("BS", "keyOk").type = "event" /\ EventTo("BS", "keyOk").to = "BS"
        /\ EventTo("BS", "keyOk").code = "keyOk"
    <2>1. a.code \in Codes /\ "keyOk" \in Codes /\ "mfUpdateOk" \in Codes
          BY <1>4 DEF Codes, ToApp
    <2>2. /\ \A whole \in BOOLEAN : Image(whole).type = "firmware" /\ Image(whole).to = "BS"
          /\ \A to \in {"BS", "APP"} : \A code \in Codes :
               /\ EventTo(to, code) \in Letters /\ EventTo(to, code).type = "event"
               /\ EventTo(to, code).to = to /\ EventTo(to, code).code = code
          BY LettersOfBL
    <2> QED BY <2>1, <2>2
  <1>a. box' = PutIf(flags.doneMF, answered, success) /\ answered = PutIf(a.reply, a.mail, reply)
        BY <1>3
  <1> HIDE DEF reply, success, answered
  <1>6. /\ answered \in Seq(Letters) /\ Used(answered) <= Room
        /\ Messages(a.mail) \subseteq Messages(answered)
        /\ Messages(answered) \subseteq Messages(a.mail) \cup {reply}
        /\ reply \in Messages(answered) => a.reply \/ reply \in Messages(a.mail)
        BY <1>4, <1>5, <1>a, PutOrNot
  <1>7. /\ box' \in Seq(Letters) /\ Used(box') <= Room
        /\ Messages(answered) \subseteq Messages(box')
        /\ Messages(box') \subseteq Messages(answered) \cup {success}
        BY <1>2, <1>a, <1>5, <1>6, PutOrNot
  <1>8. KeepsStrings(box') /\ KeepsOthers(box') /\ NothingToBL(box')
        BY <1>4, <1>5, <1>6, <1>7 DEF KeepsStrings, KeepsOthers, NothingToBL, Reads, ToBL
  <1>9. bpc' \in {"toBS", "wait"}
        BY <1>1
  <1>10. TypeOK'
    <2>1. refused' \in BOOLEAN
          BY <1>3
    <2> QED BY <1>1, <1>7, <1>9, <2>1 DEF TypeOK
  <1>11. KeyInv'
    <2> SUFFICES ASSUME EventTo("BS", "keyOk") \in Messages(box')
                 PROVE  bpc' = "toBS" /\ Image(TRUE) \in Messages(box')
        BY DEF KeyInv
    <2>1. EventTo("BS", "keyOk") \notin Messages(a.mail)
          BY <1>1, <1>4, <1>5 DEF KeyInv
    <2>2. EventTo("BS", "keyOk") = reply /\ reply \in Messages(answered)
          BY <1>5, <1>6, <1>7, <2>1
    <2>3. a.code = "keyOk" /\ a.reply
          BY <1>5, <1>6, <2>1, <2>2
    <2> QED BY <1>1, <1>4, <1>6, <1>7, <2>3
  <1>12. ~Stopped /\ ~Stopped' /\ bpc # "secure" /\ bpc' # "secure" /\ bpc' \notin {"read", "handle"}
        BY <1>1, <1>9 DEF Stopped
  <1> QED BY <1>1, <1>7, <1>8, <1>10, <1>11, <1>12, MailAdded DEF IInv, MailInv

LEMMA LetStartKeeps == IInv /\ LetStart => IInv'
  <1> SUFFICES ASSUME IInv, LetStart PROVE IInv'
      OBVIOUS
  <1>1. /\ TypeOK /\ FirstInv /\ KeyInv /\ bpc = "wait" /\ starts < MaxStarts /\ starts' = starts + 1
        /\ inited' = FALSE
        /\ UNCHANGED <<flags, iopvx, closed, labels, gui, given, refused, cleared>>
        BY DEF IInv, MailInv, LetStart, guiVars, history
  <1>2. /\ bpc' \in {"start", "toBS"} /\ box' \in Seq(Letters) /\ Used(box') <= Room
        /\ Messages(box') \subseteq Messages(box) \cup {Image(TRUE), Image(FALSE)}
        /\ \A m \in Messages(box) : m.from # "BL" => m \in Messages(box')
    <2>1. CASE bpc' = "start" /\ UNCHANGED box
          BY <1>1, <2>1 DEF TypeOK
    <2>2. CASE \E s \in ShareNewBL(box) : box' = s.mail /\ bpc' = IF s.ok THEN "toBS" ELSE "start"
      <3>1. PICK s \in ShareNewBL(box) : box' = s.mail /\ bpc' = IF s.ok THEN "toBS" ELSE "start"
            BY <2>2
      <3> QED BY <1>1, <3>1, SharedMail DEF TypeOK
    <2> QED BY <2>1, <2>2 DEF LetStart
  <1>3. KeepsStrings(box') /\ KeepsOthers(box') /\ NothingToBL(box')
        BY <1>2, LettersOfBL DEF KeepsStrings, KeepsOthers, NothingToBL, Reads, ToBL
  <1>4. TypeOK'
    <2>1. starts' \in 0..MaxStarts
          BY <1>1 DEF TypeOK
    <2> QED BY <1>1, <1>2, <2>1 DEF TypeOK
  <1>5. KeyInv'
    <2>1. EventTo("BS", "keyOk") \notin {Image(TRUE), Image(FALSE)}
          BY LettersOfBL DEF Codes
    <2>2. EventTo("BS", "keyOk") \notin Messages(box)
          BY <1>1 DEF KeyInv
    <2> QED BY <1>2, <2>1, <2>2 DEF KeyInv
  <1>6. ~Stopped /\ ~Stopped' /\ bpc # "secure" /\ bpc' # "secure" /\ bpc' \notin {"read", "handle"}
        BY <1>1, <1>2 DEF Stopped
  <1> QED BY <1>1, <1>2, <1>3, <1>4, <1>5, <1>6, MailAdded DEF IInv, MailInv

\* One event to the MF is put, or none.
LEMMA EventPut ==
  ASSUME NEW mail \in Seq(Letters), Used(mail) <= Room, NEW when \in BOOLEAN,
         NEW code \in {"mfFirstRun", "mfFailed", "blFailed", "blSuccess"}
  PROVE  LET told == PutIf(when, mail, EventTo("APP", code))
         IN /\ told \in Seq(Letters) /\ Used(told) <= Room
            /\ Messages(mail) \subseteq Messages(told)
            /\ \A m \in Messages(told) \ Messages(mail) : m.to = "APP"
  <1>1. EventTo("APP", code) \in Letters /\ EventTo("APP", code).type = "event" /\ EventTo("APP", code).to = "APP"
    <2>1. code \in Codes
          BY DEF Codes, ToApp
    <2> QED BY <2>1, LettersOfBL
  <1> QED BY <1>1, PutOrNot

LEMMA ReadyKeeps == IInv /\ StartReady => IInv'
  <1> SUFFICES ASSUME IInv, StartReady PROVE IInv'
      OBVIOUS
  <1>1. /\ TypeOK /\ FirstInv /\ KeyInv /\ bpc = "start" /\ bpc' = "wait" /\ inited' = TRUE
        /\ UNCHANGED <<flags, iopvx, starts, closed, labels, gui, given, cleared>>
        BY DEF IInv, MailInv, StartReady, guiVars
  <1>2. /\ box \in Seq(Letters) /\ Used(box) <= Room /\ flags.failedBL \in BOOLEAN /\ flags.doneBL \in BOOLEAN
        /\ flags.doneMF \in BOOLEAN
        BY <1>1 DEF TypeOK, Flags
  <1>3. /\ box' \in Seq(Letters) /\ Used(box') <= Room /\ refused' \in BOOLEAN
        /\ Messages(box) \subseteq Messages(box')
        /\ \A m \in Messages(box') \ Messages(box) : m.to = "APP"
    <2>1. ASSUME NEW code \in {"mfFirstRun", "mfFailed"}, TellMF(code)
          PROVE  <1>3!:
      <3>1. box' = PutIf(TRUE, box, EventTo("APP", code))
            BY <2>1 DEF TellMF, PutIf
      <3>2. refused' \in BOOLEAN
            BY <2>1 DEF TellMF
      <3> QED BY <1>2, <3>1, <3>2, EventPut
    <2>2. CASE TellOfBL
      <3> DEFINE told == PutIf(flags.failedBL, box, EventTo("APP", "blFailed"))
      <3>1. /\ told \in Seq(Letters) /\ Used(told) <= Room /\ Messages(box) \subseteq Messages(told)
            /\ \A m \in Messages(told) \ Messages(box) : m.to = "APP"
            BY <1>2, EventPut
      <3>2. box' = PutIf(flags.doneBL, told, EventTo("APP", "blSuccess")) /\ refused' \in BOOLEAN
            BY <2>2 DEF TellOfBL
      <3> HIDE DEF told
      <3>3. /\ box' \in Seq(Letters) /\ Used(box') <= Room /\ Messages(told) \subseteq Messages(box')
            /\ \A m \in Messages(box') \ Messages(told) : m.to = "APP"
            BY <1>2, <3>1, <3>2, EventPut
      <3> QED BY <3>1, <3>2, <3>3
    <2> QED BY <2>1, <2>2 DEF StartReady
  <1>4. KeepsStrings(box') /\ KeepsOthers(box') /\ NothingToBL(box')
        BY <1>3 DEF KeepsStrings, KeepsOthers, NothingToBL, ToBL
  <1>5. TypeOK'
        BY <1>1, <1>3 DEF TypeOK
  <1>6. KeyInv'
    <2>1. EventTo("BS", "keyOk").to = "BS"
          BY LettersOfBL DEF Codes
    <2> QED BY <1>1, <1>3, <2>1 DEF KeyInv
  <1>7. ~Stopped /\ ~Stopped' /\ bpc # "secure" /\ bpc' # "secure" /\ bpc' \notin {"read", "handle"}
        BY <1>1 DEF Stopped
  <1> QED BY <1>1, <1>3, <1>4, <1>5, <1>6, <1>7, MailAdded DEF IInv, MailInv

LEMMA FailKeeps == IInv /\ StartFails => IInv'
  <1> SUFFICES ASSUME IInv, StartFails PROVE IInv'
      OBVIOUS
  <1>1. /\ TypeOK /\ FirstInv /\ KeyInv /\ GivenInv /\ OthersKept /\ bpc = "start" /\ bpc' = "wait"
        /\ inited' \in BOOLEAN
        /\ UNCHANGED <<flags, iopvx, starts, closed, labels, gui, given, refused>>
        BY DEF IInv, MailInv, StartFails, guiVars
  <1>2. ~Stopped /\ ~Stopped' /\ bpc # "secure" /\ bpc' # "secure" /\ bpc' \notin {"read", "handle"}
        BY <1>1 DEF Stopped
  <1>3. CASE UNCHANGED <<box, cleared>>
    <2>1. KeepsStrings(box') /\ KeepsOthers(box') /\ NothingToBL(box')
          BY <1>3 DEF KeepsStrings, KeepsOthers, NothingToBL
    <2>2. TypeOK' /\ KeyInv'
          BY <1>1, <1>3 DEF TypeOK, KeyInv
    <2> QED BY <1>1, <1>2, <1>3, <2>1, <2>2, MailAdded DEF IInv, MailInv, TypeOK
  <1>4. CASE box' = RemoveMsgToMF(box) /\ cleared' = TRUE
    <2> DEFINE places == {i \in DOMAIN box : box[i].to = "APP"}
    <2>1. box' = Delete(box, places) /\ box \in Seq(Letters) /\ Used(box) <= Room
          BY <1>1, <1>4 DEF RemoveMsgToMF, TypeOK
    <2>2. /\ Messages(box') \subseteq Messages(box)
          /\ \A i \in (DOMAIN box) \ places : box[i].type # "gone" => box[i] \in Messages(box')
          BY <2>1, Deleted
    <2>3. \A m \in Messages(box) : m.to # "APP" => m \in Messages(box')
          BY <2>2 DEF Messages
    <2>4. box' \in Seq(Letters) /\ Used(box') <= Room
          BY <2>1, DeletedTyped
    <2>5. TypeOK'
          BY <1>1, <1>4, <2>4 DEF TypeOK
    <2>6. KeyInv'
          BY <1>1, <2>2 DEF KeyInv
    <2>7. OthersKept' /\ GivenInv'
          BY <1>1, <1>4, <2>3 DEF OthersKept, GivenInv
    <2>8. KeepsStrings(box')
          BY <2>3 DEF KeepsStrings, Reads, ToBL
    <2>9. StringInv' /\ VersionsShown'
          BY <1>1, <1>2, <2>4, <2>8, StringsKept DEF IInv, MailInv, StringInv, VersionsShown
    <2>10. ClosedInv' /\ FirstInv' /\ MFDecodesIOP'
          BY <1>1, <1>2, <2>2 DEF IInv, MailInv, ClosedInv, FirstInv, GoodIop, MFDecodesIOP, Stopped
    <2> QED BY <2>5, <2>6, <2>7, <2>9, <2>10 DEF IInv, MailInv
  <1> QED BY <1>3, <1>4 DEF StartFails

LEMMA ForceKeeps == IInv /\ ForceDownload => IInv'
  <1> SUFFICES ASSUME IInv, ForceDownload PROVE IInv'
      OBVIOUS
  <1>1. /\ bpc = "wait" /\ flags' = [flags EXCEPT !.allowed = TRUE]
        /\ UNCHANGED <<box, bpc, iopvx, inited, starts, closed, labels, gui, given, refused, cleared>>
        BY DEF ForceDownload, guiVars, history
  <1>2. TypeOK'
        BY <1>1 DEF IInv, TypeOK, Flags
  <1>3. MailInv'
        BY <1>1 DEF IInv, MailInv, GivenInv, FirstInv, ClosedInv, StringInv, KeyInv, OthersKept,
                    VersionsShown, MFDecodesIOP, GoodIop, Stopped
  <1> QED BY <1>2, <1>3 DEF IInv

\* What prepareToShutdown does to the mail: all to the bootloader goes, and no other.
LEMMA Prepared ==
  ASSUME NEW mail \in Seq(Letters), Used(mail) <= Room, PrepareToShutdown(mail),
         closed => \A m \in Messages(mail) : ~ToBL(m)
  PROVE  /\ closed' = TRUE /\ box' \in Seq(Letters) /\ Used(box') <= Room
         /\ Messages(box') = {m \in Messages(mail) : ~ToBL(m)}
  <1>1. CASE closed
        BY <1>1 DEF PrepareToShutdown
  <1>2. CASE ~closed
    <2>1. box' = Delete(mail, Mine(mail))
          BY <1>2 DEF PrepareToShutdown, RemoveMsgToBL
    <2>2. /\ Messages(box') \subseteq Messages(mail)
          /\ \A m \in Messages(box') : \E i \in DOMAIN mail : i \notin Mine(mail) /\ mail[i] = m
          /\ \A i \in (DOMAIN mail) \ Mine(mail) : mail[i].type # "gone" => mail[i] \in Messages(box')
          BY <2>1, Deleted
    <2>3. Messages(box') = {m \in Messages(mail) : ~ToBL(m)}
          BY <2>2 DEF Mine, Messages
    <2>4. closed' = TRUE
          BY DEF PrepareToShutdown
    <2> QED BY <2>1, <2>3, <2>4, DeletedTyped
  <1> QED BY <1>1, <1>2

\* The bootloader leaves, or a request to switch off was refused, with a mailbox that was shut down.
LEMMA ClosedKeeps ==
  ASSUME IInv, NEW mail \in Seq(Letters), Used(mail) <= Room, PrepareToShutdown(mail),
         closed => \A m \in Messages(mail) : ~ToBL(m),
         Messages(box) \subseteq Messages(mail), \A m \in Messages(mail) \ Messages(box) : m.to = "APP",
         UNCHANGED <<labels, gui, given, cleared>>
  PROVE  /\ closed' = TRUE /\ box' \in Seq(Letters) /\ Used(box') <= Room
         /\ Messages(box') = {m \in Messages(mail) : ~ToBL(m)}
         /\ GivenInv' /\ OthersKept' /\ ClosedInv' /\ VersionsShown'
         /\ Stopped' \/ gui = "lit" => StringInv'
         /\ bpc' \in {bpc, "off"} \/ (bpc = "toBS" /\ bpc' = "inBS") \/ bpc = "wait" => KeyInv'
  <1>1. /\ closed' = TRUE /\ box' \in Seq(Letters) /\ Used(box') <= Room
        /\ Messages(box') = {m \in Messages(mail) : ~ToBL(m)}
        BY Prepared
  <1>2. GivenInv /\ OthersKept /\ VersionsShown /\ KeyInv
        BY DEF IInv, MailInv
  <1>3. GivenInv' /\ OthersKept' /\ ClosedInv' /\ VersionsShown'
        BY <1>1, <1>2 DEF GivenInv, OthersKept, ClosedInv, VersionsShown, ToBL
  <1>4. Stopped' \/ gui = "lit" => StringInv'
        BY DEF StringInv
  <1>5. bpc' \in {bpc, "off"} \/ (bpc = "toBS" /\ bpc' = "inBS") \/ bpc = "wait" => KeyInv'
    <2>1. /\ EventTo("BS", "keyOk").to = "BS"
          /\ Image(TRUE).to = "BS"
          BY LettersOfBL DEF Codes
    <2> QED BY <1>1, <1>2, <2>1 DEF KeyInv, ToBL
  <1> QED BY <1>1, <1>3, <1>4, <1>5

LEMMA JumpMFKeeps == IInv /\ JumpToMF => IInv'
  <1> SUFFICES ASSUME IInv, JumpToMF PROVE IInv'
      OBVIOUS
  <1> DEFINE mail == PutIn(box, IopForMF)
  <1>1. /\ TypeOK /\ FirstInv /\ ClosedInv /\ bpc = "wait" /\ bpc' = "inMF" /\ iopvx' = {}
        /\ PrepareToShutdown(mail) /\ refused' = (refused \/ ~HasRoomFor(box, IopForMF))
        /\ UNCHANGED <<flags, inited, starts, labels, gui, given, cleared>>
        BY DEF IInv, MailInv, JumpToMF, guiVars
  <1>2. /\ IopForMF \in Letters /\ IopForMF.type = "iop" /\ IopForMF.to = "APP" /\ IopForMF.valid
        /\ IopForMF.bytes = Xor(GetIOP, HashMF)
    <2>1. Xor(GetIOP, HashMF) \subseteq {"iop", "bl", "mf"}
          BY <1>1 DEF TypeOK, Xor, GetIOP, HashMF, HashBL
    <2> QED BY <2>1, LettersOfBL DEF IopForMF
  <1>3. /\ mail \in Seq(Letters) /\ Used(mail) <= Room /\ Messages(box) \subseteq Messages(mail)
        /\ Messages(mail) \subseteq Messages(box) \cup {IopForMF}
        /\ HasRoomFor(box, IopForMF) => IopForMF \in Messages(mail)
        BY <1>1, <1>2, Put DEF TypeOK
  <1> HIDE DEF mail
  <1>4. /\ closed => \A m \in Messages(mail) : ~ToBL(m)
        /\ \A m \in Messages(mail) \ Messages(box) : m.to = "APP"
        BY <1>1, <1>2, <1>3 DEF ClosedInv, ToBL
  <1>5. /\ closed' = TRUE /\ box' \in Seq(Letters) /\ Used(box') <= Room
        /\ Messages(box') = {m \in Messages(mail) : ~ToBL(m)}
        /\ GivenInv' /\ OthersKept' /\ ClosedInv' /\ VersionsShown' /\ StringInv' /\ KeyInv'
    <2>1. Stopped'
          BY <1>1 DEF Stopped
    <2> QED BY <1>1, <1>3, <1>4, <2>1, ClosedKeeps
  <1>6. TypeOK'
    <2>1. refused' \in BOOLEAN
          BY <1>1
    <2> QED BY <1>1, <1>5, <2>1 DEF TypeOK
  <1>7. FirstInv'
        BY <1>1 DEF FirstInv, Stopped
  <1>8. MFDecodesIOP'
    <2> SUFFICES ASSUME GoodIop', ~refused'
                 PROVE  IopForMF \in Messages(box') /\ Xor(IopForMF.bytes, HashMF) = Secret
        BY <1>2 DEF MFDecodesIOP
    <2>1. iopvx = Xor(Secret, HashBL)
          BY <1>1 DEF FirstInv, GoodIop, Stopped
    <2>2. HasRoomFor(box, IopForMF)
          BY <1>1
    <2>3. Xor(Xor(Xor(Xor(Secret, HashBL), HashBL), HashMF), HashMF) = Secret
          BY DEF Xor
    <2> QED BY <1>2, <1>3, <1>5, <2>1, <2>2, <2>3 DEF ToBL, GetIOP
  <1> QED BY <1>5, <1>6, <1>7, <1>8 DEF IInv, MailInv

LEMMA ShutKeeps == IInv /\ (JumpToBS \/ RefusedRequest \/ PowerOff) /\ ~Stopped => IInv'
  <1> SUFFICES ASSUME IInv, JumpToBS \/ RefusedRequest \/ PowerOff, ~Stopped PROVE IInv'
      OBVIOUS
  <1>1. /\ TypeOK /\ FirstInv /\ ClosedInv /\ PrepareToShutdown(box)
        /\ UNCHANGED <<flags, iopvx, inited, starts, labels, gui, given, refused, cleared>>
        /\ \/ bpc' = bpc /\ gui = "lit"
           \/ bpc' = "off" /\ gui = "lit"
           \/ bpc = "toBS" /\ bpc' = "inBS"
        BY DEF IInv, MailInv, JumpToBS, RefusedRequest, PowerOff, bootVars, guiVars, history
  <1>2. /\ closed' = TRUE /\ box' \in Seq(Letters) /\ Used(box') <= Room
        /\ GivenInv' /\ OthersKept' /\ ClosedInv' /\ VersionsShown' /\ StringInv' /\ KeyInv'
    <2>1. Stopped' \/ gui = "lit"
          BY <1>1 DEF Stopped
    <2> QED BY <1>1, <2>1, ClosedKeeps DEF TypeOK, ClosedInv
  <1>3. TypeOK'
        BY <1>1, <1>2 DEF TypeOK
  <1>4. FirstInv' /\ MFDecodesIOP'
        BY <1>1 DEF FirstInv, MFDecodesIOP, Stopped, GoodIop
  <1> QED BY <1>2, <1>3, <1>4 DEF IInv, MailInv

\* mailEngine_getManufactureString takes the string, and what is damaged.
LEMMA WithoutStringKeeps ==
  ASSUME NEW mail \in Seq(Letters), Used(mail) <= Room, NEW code
  PROVE  LET less == WithoutString(mail, code)
         IN /\ less \in Seq(Letters) /\ Used(less) <= Room /\ Messages(less) \subseteq Messages(mail)
            /\ \A m \in Messages(mail) : ~ToBL(m) => m \in Messages(less)
  <1> DEFINE places == {i \in DOMAIN mail : (BadToBL(mail[i]) \/ i \in Strings(mail, code))
                                              /\ \A j \in Strings(mail, code) : i <= j}
  <1>1. WithoutString(mail, code) = Delete(mail, places)
        BY DEF WithoutString
  <1>2. \A i \in places : ToBL(mail[i])
        BY DEF BadToBL, Strings, Reads
  <1> HIDE DEF places
  <1>3. /\ Messages(Delete(mail, places)) \subseteq Messages(mail)
        /\ \A i \in (DOMAIN mail) \ places : mail[i].type # "gone" => mail[i] \in Messages(Delete(mail, places))
        BY Deleted
  <1>4. \A m \in Messages(mail) : ~ToBL(m) => m \in Messages(Delete(mail, places))
        BY <1>2, <1>3 DEF Messages
  <1> QED BY <1>1, <1>3, <1>4, DeletedTyped

LEMMA SwitchKeeps == IInv /\ FirstSwitch /\ ~Stopped => IInv'
  <1> SUFFICES ASSUME IInv, FirstSwitch, ~Stopped PROVE IInv'
      OBVIOUS
  <1> DEFINE first == WithoutString(box, "version")
  <1>1. /\ TypeOK /\ FirstInv /\ ClosedInv /\ GivenInv /\ KeyInv /\ OthersKept /\ StringInv
        /\ gui = "dark" /\ gui' = "lit" /\ (starts > 0 \/ bpc = "wait")
        /\ box' = WithoutString(first, "serial")
        /\ UNCHANGED <<bpc, flags, iopvx, inited, starts, closed, given, refused, cleared>>
        BY DEF IInv, MailInv, FirstSwitch, bootVars, history
  <1>a. labels' = {code \in {"version", "serial"} : Strings(box, code) # {}}
        BY DEF FirstSwitch
  <1>b. labels' \subseteq {"version", "serial"}
        BY <1>a
  <1>2. /\ first \in Seq(Letters) /\ Used(first) <= Room /\ Messages(first) \subseteq Messages(box)
        /\ \A m \in Messages(box) : ~ToBL(m) => m \in Messages(first)
        BY <1>1, WithoutStringKeeps DEF TypeOK
  <1> HIDE DEF first
  <1>3. /\ box' \in Seq(Letters) /\ Used(box') <= Room /\ Messages(box') \subseteq Messages(box)
        /\ \A m \in Messages(box) : ~ToBL(m) => m \in Messages(box')
        BY <1>1, <1>2, WithoutStringKeeps
  <1>4. bpc \notin {"secure", "read", "handle"}
    <2>1. starts \in Nat
          BY <1>1 DEF TypeOK
    <2> QED BY <1>1, <2>1 DEF FirstInv
  <1>5. TypeOK'
        BY <1>1, <1>b, <1>3 DEF TypeOK
  <1>6. GivenInv' /\ OthersKept' /\ ClosedInv'
        BY <1>1, <1>3 DEF GivenInv, OthersKept, ClosedInv, Stopped, ToBL
  <1>c. FirstInv' /\ MFDecodesIOP' /\ StringInv'
        BY <1>1, <1>4 DEF FirstInv, MFDecodesIOP, StringInv, GoodIop, Stopped
  <1>7. VersionsShown'
    <2>1. \A code \in {"version", "serial"} : Strings(given, code) # {} => code \in labels'
          BY <1>1, <1>a DEF StringInv
    <2> QED BY <1>1, <2>1 DEF VersionsShown
  <1>8. KeyInv'
    <2>1. EventTo("BS", "keyOk").to = "BS" /\ Image(TRUE).to = "BS"
          BY LettersOfBL DEF Codes
    <2> QED BY <1>1, <1>3, <2>1 DEF KeyInv, ToBL
  <1> QED BY <1>5, <1>6, <1>c, <1>7, <1>8 DEF IInv, MailInv

-----------------------------------------------------------------------------
(* The theorems.                                                             *)

LEMMA InitInv == Init => IInv
  <1> SUFFICES ASSUME Init PROVE IInv
      OBVIOUS
  <1>1. TypeOK /\ ForeignMail(box) /\ given = box
        BY InitType, FirstMailForeign DEF Init
  <1>2. GivenInv
        BY <1>1 DEF GivenInv, ForeignMail
  <1>3. FirstInv /\ ClosedInv /\ StringInv /\ OthersKept /\ VersionsShown /\ MFDecodesIOP
        BY <1>1 DEF Init, FirstInv, ClosedInv, StringInv, OthersKept, VersionsShown, MFDecodesIOP, Stopped
  <1>4. KeyInv
    <2>1. EventTo("BS", "keyOk").from = "BL"
          BY LettersOfBL DEF Codes
    <2> QED BY <1>1, <1>2, <2>1 DEF KeyInv, GivenInv
  <1> QED BY <1>1, <1>2, <1>3, <1>4 DEF IInv, MailInv

LEMMA MailboxInvariant == Spec => []IInv
  <1>1. IInv /\ [Next]_vars => IInv'
    <2>1. CASE Next
          BY <2>1, SecureKeeps, ReadKeeps, HandleKeeps, LetStartKeeps, ReadyKeeps, FailKeeps, ForceKeeps,
             JumpMFKeeps, ShutKeeps, SwitchKeeps DEF Next, BootTask, GuiTask
    <2>2. CASE UNCHANGED vars
          BY <2>2 DEF vars, bootVars, guiVars, history, IInv, MailInv, TypeOK, GivenInv, FirstInv, ClosedInv,
                      StringInv, KeyInv, OthersKept, VersionsShown, MFDecodesIOP, GoodIop, Stopped
    <2> QED BY <2>1, <2>2
  <1> QED BY <1>1, InitInv, PTL DEF Spec

\* For a mailbox of any size and any number of starts: it is never overfull, and messages, flags,
\* strings and bytes keep their types (mail_engine.c).
THEOREM MailTypeCorrect == Spec => []TypeOK
  <1>1. IInv => TypeOK
        BY DEF IInv
  <1> QED BY <1>1, MailboxInvariant, PTL

\* For a mailbox of any size: a MF that is started finds the bytes from which its hash gives the
\* IOP, whatever other bytes were in the mail, unless a put found no room (secure.c).
THEOREM MFCanDecodeIOP == Spec => []MFDecodesIOP
  <1>1. IInv => MFDecodesIOP
        BY DEF IInv, MailInv
  <1> QED BY <1>1, MailboxInvariant, PTL

\* For a mailbox of any size: the strings of the BS are on the first screen (readVersions, readSN).
THEOREM ShowsVersions == Spec => []VersionsShown
  <1>1. IInv => VersionsShown
        BY DEF IInv, MailInv
  <1> QED BY <1>1, MailboxInvariant, PTL

\* For a mailbox and an image of any size: the BS hears of a new key only together with the whole
\* image (incomingMessageHandler).
THEOREM KeyReplyHasImage == Spec => []KeyReplyMeansImage
  <1>1. IInv => KeyReplyMeansImage
        BY DEF IInv, MailInv, KeyInv, KeyReplyMeansImage
  <1> QED BY <1>1, MailboxInvariant, PTL

\* For a mailbox of any size: no way out of the bootloader leaves mail for it (prepareToShutdown).
THEOREM ReadsNothingTwice == Spec => []NothingIsReadTwice
  <1>1. IInv => NothingIsReadTwice
        BY DEF IInv, MailInv, ClosedInv, NothingIsReadTwice
  <1> QED BY <1>1, MailboxInvariant, PTL

\* For a mailbox of any size: the mail between the others outlives the bootloader, but for what
\* mailEngine_removeMsgToMF takes.
THEOREM KeepsMailOfOthers == Spec => []OthersKept
  <1>1. IInv => OthersKept
        BY DEF IInv, MailInv
  <1> QED BY <1>1, MailboxInvariant, PTL
=============================================================================
