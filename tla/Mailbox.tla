------------------------------- MODULE Mailbox -------------------------------
(***************************************************************************)
(* The mail between the bootstrapper (BS), the bootloader (BL) and the     *)
(* main firmware (APP) in the RAM that outlives their jumps: what the      *)
(* bootloader reads of it, deletes from it and adds to it in one power     *)
(* cycle, from bootloader_init to the jump or the end of the power.        *)
(*                                                                         *)
(* Modelled code: mcuboot/Src/mail_engine.c, secure.c,                     *)
(* endOfWork_manager.c, the calls to them in bootloader.c, and readVersions*)
(* and readSN of gui_core.c, which the GUI task runs beside the boot task. *)
(* BootFlow decides which events letStart sends and which slot it finds;   *)
(* here any of them may come.  The library of the mailbox is not part of   *)
(* the repository: a call of it is a step on a sequence of messages.       *)
(***************************************************************************)
EXTENDS Naturals, Sequences, FiniteSets

CONSTANTS
  Room,       \* what the mailbox holds; a firmware takes ImageRoom of it
  ImageRoom,
  MaxStarts   \* bound: calls of bootloader_letStart

ASSUME RoomAssumption == Room \in Nat /\ ImageRoom \in Nat \ {0} /\ MaxStarts \in Nat

Secret == {"iop"}   \* the bytes that BS, BL and MF share, a set of terms under exclusive or
Xor(a, b) == (a \ b) \cup (b \ a)

FailedCodes == {"blFailed", "lowSecureCnt", "versionEqual", "wrongKey"}
FromBS == FailedCodes \cup {"firstRun", "firstRunKey", "blSuccess", "errSlot"}
FromApp == {"mfFirstRunOk", "allowUpdate", "errSlot"}
ToApp == {"mfUpdateOk", "mfFirstRun", "mfFailed", "blFailed", "blSuccess"}

Msg(from, to, type, code) ==
  [from |-> from, to |-> to, type |-> type, code |-> code, bytes |-> {}, valid |-> TRUE, fits |-> TRUE]

\* What is left of a message that was deleted; the places in the mailbox stand for its order only.
Gone == Msg("none", "none", "gone", "none")

VARIABLES
  box,       \* the messages in the order in which they were put
  bpc,       \* what the boot task does
  flags,     \* the static flags of mail_engine.c
  iopvx,     \* IOPVX of secure.c
  inited,    \* boot_target_instanse.inited
  closed,    \* request_completed of prepareToShutdown
  labels,    \* strings that readVersions and readSN put on the screens
  gui,       \* "dark" until the first switch to a screen that is drawn
  starts,    \* bound
  given, refused, cleared  \* history: the mail at the start; a put found no room, the mail of
                           \* the MF was removed

bootVars == <<bpc, flags, iopvx, inited, starts>>
guiVars == <<labels, gui>>
history == <<refused, cleared>>
vars == <<box, bootVars, closed, guiVars, given, history>>

Messages(mail) == {m \in {mail[i] : i \in DOMAIN mail} : m.type # "gone"}
Stopped == bpc \in {"inMF", "inBS", "off"}

-----------------------------------------------------------------------------
(* The library of the mailbox (external). *)

Size(m) == IF m.type = "gone" THEN 0 ELSE IF m.type = "firmware" THEN ImageRoom ELSE 1

\* The cells that the messages take.
Used(mail) == Cardinality({c \in (DOMAIN mail) \X (1..ImageRoom) : c[2] <= Size(mail[c[1]])})
HasRoomFor(mail, m) == Used(mail) + Size(m) <= Room

\* ramMbox_put: nobody looks at its result.
PutIn(mail, m) == IF HasRoomFor(mail, m) THEN Append(mail, m) ELSE mail

PutIf(when, mail, m) == IF when THEN PutIn(mail, m) ELSE mail
Refuses(when, mail, m) == when /\ ~HasRoomFor(mail, m)

\* The messages at some places are deleted.
Delete(mail, places) == [i \in DOMAIN mail |-> IF i \in places THEN Gone ELSE mail[i]]

-----------------------------------------------------------------------------
(* The mail at the start (external): what BS and APP left, in any state. *)

Iop(terms) == [Msg("BS", "BL", "iop", "none") EXCEPT !.bytes = terms]

\* The bytes for this bootloader; before them others, of a wrong length or damaged; or only those.
IopMails ==
  LET good == Iop(Xor(Secret, {"bl"}))
      bad == {[Iop({}) EXCEPT !.fits = FALSE], [Iop({}) EXCEPT !.valid = FALSE]}
  IN {<<good>>} \cup {<<b>> : b \in bad} \cup {<<b, good>> : b \in bad}

EventMails(from, codes) ==
  {<<>>} \cup {<<Msg(from, "BL", "event", c)>> : c \in codes}
    \cup {<<[Msg(from, "BL", "event", c) EXCEPT !.valid = FALSE]>> : c \in {"firstRun", "allowUpdate"} \cap codes}

StringMails ==
  {<<>>, <<Msg("BS", "BL", "manufacture", "version"), Msg("BS", "BL", "manufacture", "serial")>>,
   <<[Msg("BS", "BL", "manufacture", "version") EXCEPT !.valid = FALSE],
     Msg("BS", "BL", "manufacture", "serial")>>}

OtherMails == {<<>>, <<Msg("BS", "APP", "event", "note"), Msg("APP", "BS", "event", "note")>>}

Init ==
  /\ \E i \in IopMails, e \in EventMails("BS", FromBS), m \in StringMails,
        f \in EventMails("APP", FromApp), o \in OtherMails : box = i \o e \o m \o f \o o
  /\ Used(box) <= Room /\ given = box
  /\ bpc = "secure" /\ inited = FALSE /\ closed = FALSE /\ starts = 0 /\ iopvx = {}
  /\ flags = [firstRunBL |-> FALSE, sendAgain |-> FALSE, doneBL |-> FALSE, failedBL |-> FALSE,
              doneMF |-> FALSE, allowed |-> FALSE]
  /\ labels = {} /\ gui = "dark" /\ refused = FALSE /\ cleared = FALSE

-----------------------------------------------------------------------------
(* mail_engine.c: every loop over the messages to the BL deletes those that are not valid. *)

ToBL(m) == m.to = "BL"
BadToBL(m) == ToBL(m) /\ ~m.valid

Reads(m, from, type) == ToBL(m) /\ m.valid /\ m.from = from /\ m.type = type

\* Mutant: every message from the BS is deleted, not the events only.
EventsTaken(mail) ==
  {i \in DOMAIN mail : BadToBL(mail[i]) \/ (ToBL(mail[i]) /\ mail[i].from = "BS") \/ Reads(mail[i], "APP", "event")}

\* What mailEngine_readMsgToBL deletes.
EventsRead(mail) ==
  {i \in DOMAIN mail : BadToBL(mail[i]) \/ Reads(mail[i], "BS", "event") \/ Reads(mail[i], "APP", "event")}

\* What mailEngine_getIOP deletes, whether it had the right length or not.
IopRead(mail) == {i \in DOMAIN mail : BadToBL(mail[i]) \/ Reads(mail[i], "BS", "iop")}

CodesFrom(from) == {m.code : m \in {n \in Messages(box) : Reads(n, from, "event") /\ n.fits}}

\* The flags only rise.  A key that is new makes it the first run, too.
FlagsRead ==
  [firstRunBL |-> flags.firstRunBL \/ CodesFrom("BS") \cap {"firstRun", "firstRunKey"} # {},
   sendAgain |-> flags.sendAgain \/ "firstRunKey" \in CodesFrom("BS"),
   doneBL |-> flags.doneBL \/ "blSuccess" \in CodesFrom("BS"),
   failedBL |-> flags.failedBL \/ CodesFrom("BS") \cap FailedCodes # {},
   doneMF |-> flags.doneMF \/ "mfFirstRunOk" \in CodesFrom("APP"),
   allowed |-> flags.allowed \/ "allowUpdate" \in CodesFrom("APP")]

\* mailEngine_getManufactureString: the first string of the kind is copied and deleted.
Strings(mail, code) == {i \in DOMAIN mail : Reads(mail[i], "BS", "manufacture") /\ mail[i].code = code}

WithoutString(mail, code) ==
  LET found == Strings(mail, code)
  IN Delete(mail, {i \in DOMAIN mail : (BadToBL(mail[i]) \/ i \in found) /\ \A j \in found : i <= j})

Mine(mail) == {i \in DOMAIN mail : ToBL(mail[i])}

\* Mutant: the loop ends one message too early.
RemoveMsgToBLShort(mail) == Delete(mail, {i \in Mine(mail) : \E j \in Mine(mail) : i < j})

RemoveMsgToBL(mail) == Delete(mail, Mine(mail))
RemoveMsgToMF(mail) == Delete(mail, {i \in DOMAIN mail : mail[i].to = "APP"})

\* Mutant: not the messages from the BL are removed, but all that BS should get.
RemoveMsgToBS(mail) == Delete(mail, {i \in DOMAIN mail : mail[i].to = "BS"})

RemoveMsgFromBL(mail) == Delete(mail, {i \in DOMAIN mail : mail[i].from = "BL"})

Image(whole) == [Msg("BL", "BS", "firmware", "image") EXCEPT !.valid = whole]
EventTo(to, code) == Msg("BL", to, "event", code)

\* Mutant: the result of the read is not looked at.
SharedUnchecked(mail) == {[mail |-> Append(mail, Image(whole)), ok |-> TRUE] : whole \in BOOLEAN}

\* A message that is filled: it stays, not complete, when the flash cannot be read.
Shared(mail) == {[mail |-> Append(mail, Image(whole)), ok |-> whole] : whole \in BOOLEAN}

\* Mutant: the message is filled although the mailbox had no room for it.
ShareNewBLAnyway(mail) == {[mail |-> mail, ok |-> FALSE]} \cup Shared(mail)

\* mailEngine_shareNewBL: an image that is too large for a sector is refused; without room all
\* mail from the BL is thrown away, and the call fails all the same.
ShareNewBL(mail) ==
  {[mail |-> mail, ok |-> FALSE]}
    \cup (IF HasRoomFor(mail, Image(TRUE)) THEN Shared(mail)
          ELSE {[mail |-> RemoveMsgFromBL(mail), ok |-> FALSE]})

-----------------------------------------------------------------------------
(* secure.c and endOfWork_manager.c. *)

HashBL == {"bl"}
HashMF == {"mf"}

GetIOP == Xor(iopvx, HashBL)
Bytes(terms) == [Msg("BL", "APP", "iop", "none") EXCEPT !.bytes = terms]
IopForMF == Bytes(Xor(GetIOP, HashMF))

\* prepareToShutdown does its work once, and a request that fails is not its affair.
PrepareToShutdown(mail) ==
  /\ box' = IF closed THEN mail ELSE RemoveMsgToBL(mail)
  /\ closed' = TRUE

-----------------------------------------------------------------------------
(* The boot task. *)

\* secure_init
SecureInit ==
  LET iops == {i \in DOMAIN box : Reads(box[i], "BS", "iop") /\ box[i].fits}
  IN /\ bpc = "secure" /\ bpc' = "read"
     /\ \/ iops = {} /\ UNCHANGED iopvx
        \/ \E last \in iops : (\A i \in iops : i <= last) /\ iopvx' = box[last].bytes
     /\ box' = Delete(box, IopRead(box))
     /\ UNCHANGED <<flags, inited, starts, closed, guiVars, given, history>>

ReadMsgToBL ==
  /\ bpc = "read" /\ bpc' = "handle"
  /\ flags' = FlagsRead /\ box' = Delete(box, EventsRead(box))
  /\ UNCHANGED <<iopvx, inited, starts, closed, guiVars, given, history>>

\* incomingMessageHandler: the answer to a new key goes with the image, when the secondary slot
\* has one of a bootloader.
AnswersToBS ==
  IF flags.firstRunBL /\ flags.sendAgain
    THEN {[mail |-> s.mail, reply |-> s.ok, code |-> "keyOk"] : s \in ShareNewBL(box)}
           \cup {[mail |-> box, reply |-> FALSE, code |-> "keyOk"]}
    ELSE {[mail |-> box, reply |-> flags.firstRunBL, code |-> "firstRunOk"]}

HandleMessages ==
  /\ bpc = "handle" /\ bpc' = IF flags.firstRunBL THEN "toBS" ELSE "wait"
  /\ \E a \in AnswersToBS :
       LET answered == PutIf(a.reply, a.mail, EventTo("BS", a.code))
           success == EventTo("APP", "mfUpdateOk")
       IN /\ box' = PutIf(flags.doneMF, answered, success)
          /\ refused' = (refused \/ Refuses(a.reply, a.mail, EventTo("BS", a.code))
                                 \/ Refuses(flags.doneMF, answered, success))
  /\ UNCHANGED <<flags, iopvx, inited, starts, closed, guiVars, given, cleared>>

\* letStart begins: no MF is ready, and a new bootloader in the secondary slot goes to the BS.
LetStart ==
  /\ bpc = "wait" /\ starts < MaxStarts /\ starts' = starts + 1 /\ inited' = FALSE
  /\ \/ bpc' = "start" /\ UNCHANGED box
     \/ \E s \in ShareNewBL(box) : box' = s.mail /\ bpc' = IF s.ok THEN "toBS" ELSE "start"
  /\ UNCHANGED <<flags, iopvx, closed, guiVars, given, history>>

\* isMFReadyToStart found one.
TellMF(code) ==
  /\ box' = PutIn(box, EventTo("APP", code))
  /\ refused' = (refused \/ ~HasRoomFor(box, EventTo("APP", code)))

\* The MF has confirmed itself already: it only hears what became of a new bootloader.
TellOfBL ==
  LET told == PutIf(flags.failedBL, box, EventTo("APP", "blFailed"))
  IN /\ box' = PutIf(flags.doneBL, told, EventTo("APP", "blSuccess"))
     /\ refused' = (refused \/ Refuses(flags.failedBL, box, EventTo("APP", "blFailed"))
                            \/ Refuses(flags.doneBL, told, EventTo("APP", "blSuccess")))

StartReady ==
  /\ bpc = "start" /\ bpc' = "wait" /\ inited' = TRUE
  /\ TellMF("mfFirstRun") \/ TellMF("mfFailed") \/ TellOfBL
  /\ UNCHANGED <<flags, iopvx, starts, closed, guiVars, given, cleared>>

\* BootFailedHandler finds nothing to start.  A low battery and an image that was verified and
\* then refused end a start, too, and leave the mail alone; the image keeps its pointer.
StartFails ==
  /\ bpc = "start" /\ bpc' = "wait"
  /\ \/ box' = RemoveMsgToMF(box) /\ cleared' = TRUE
     \/ UNCHANGED <<box, cleared>>
  /\ inited' \in BOOLEAN
  /\ UNCHANGED <<flags, iopvx, starts, closed, guiVars, given, refused>>

\* BOOT_APP_EVENT_GO_BL_CLICKED
ForceDownload ==
  /\ bpc = "wait" /\ ~flags.allowed /\ flags' = [flags EXCEPT !.allowed = TRUE]
  /\ UNCHANGED <<box, bpc, iopvx, inited, starts, closed, guiVars, given, history>>

\* Mutant: the bytes are wiped before they are sent.
JumpToMFWiped ==
  /\ bpc = "wait" /\ inited /\ bpc' = "inMF"
  /\ iopvx' = {}
  /\ PrepareToShutdown(PutIn(box, Bytes(Xor(Xor({}, HashBL), HashMF))))
  /\ refused' = (refused \/ ~HasRoomFor(box, IopForMF))
  /\ UNCHANGED <<flags, inited, starts, guiVars, given, cleared>>

\* bootloader_jumpToMF
JumpToMF ==
  /\ bpc = "wait" /\ inited /\ bpc' = "inMF"
  /\ iopvx' = {}
  /\ PrepareToShutdown(PutIn(box, IopForMF))
  /\ refused' = (refused \/ ~HasRoomFor(box, IopForMF))
  /\ UNCHANGED <<flags, inited, starts, guiVars, given, cleared>>

JumpToBS ==
  /\ bpc = "toBS" /\ bpc' = "inBS" /\ PrepareToShutdown(box)
  /\ UNCHANGED <<flags, iopvx, inited, starts, guiVars, given, history>>

BootTask ==
  \/ SecureInit \/ ReadMsgToBL \/ HandleMessages \/ LetStart \/ StartReady \/ StartFails
  \/ ForceDownload \/ JumpToMF \/ JumpToBS

-----------------------------------------------------------------------------
(* The GUI task, whose first event comes from the boot task's first start or later. *)

\* guiCore_switchScreen, the first time: readVersions and readSN.
FirstSwitch ==
  LET first == WithoutString(box, "version")
  IN /\ gui = "dark" /\ gui' = "lit"
     /\ starts > 0 \/ (bpc = "wait" /\ flags.failedBL)
     /\ labels' = {code \in {"version", "serial"} : Strings(box, code) # {}}
     /\ box' = WithoutString(first, "serial")
     /\ UNCHANGED <<bootVars, closed, given, history>>

\* endOfWork_shippingMode when the battery controller refuses.
RefusedRequest ==
  /\ gui = "lit" /\ PrepareToShutdown(box) /\ ~closed
  /\ UNCHANGED <<bootVars, guiVars, given, history>>

\* endOfWork_goSleep, endOfWork_powerOff, and a request that is accepted.
PowerOff ==
  /\ gui = "lit" /\ PrepareToShutdown(box) /\ bpc' = "off"
  /\ UNCHANGED <<flags, iopvx, inited, starts, guiVars, given, history>>

GuiTask == FirstSwitch \/ RefusedRequest \/ PowerOff

Next == ~Stopped /\ (BootTask \/ GuiTask)

Spec == Init /\ [][Next]_vars

-----------------------------------------------------------------------------
(* Properties. *)

Codes == FromBS \cup FromApp \cup ToApp
           \cup {"keyOk", "firstRunOk", "note", "version", "serial", "image", "none"}

Letters ==
  [from : {"BS", "BL", "APP", "none"}, to : {"BS", "BL", "APP", "none"},
   type : {"iop", "event", "manufacture", "firmware", "gone"}, code : Codes,
   bytes : SUBSET {"iop", "bl", "mf"}, valid : BOOLEAN, fits : BOOLEAN]

Flags == [firstRunBL : BOOLEAN, sendAgain : BOOLEAN, doneBL : BOOLEAN, failedBL : BOOLEAN,
          doneMF : BOOLEAN, allowed : BOOLEAN]

TypeOK ==
  /\ {box, given} \subseteq Seq(Letters) /\ Used(box) <= Room
  /\ bpc \in {"secure", "read", "handle", "wait", "start", "toBS", "inMF", "inBS", "off"}
  /\ flags \in Flags
  /\ iopvx \subseteq {"iop", "bl", "mf"} /\ {inited, closed, refused, cleared} \subseteq BOOLEAN
  /\ labels \subseteq {"version", "serial"} /\ gui \in {"dark", "lit"} /\ starts \in 0..MaxStarts

GoodIop == Iop(Xor(Secret, {"bl"})) \in Messages(given)

\* The MF can take its IOP bytes from the mail when the BS sent them to the bootloader and the
\* mailbox had room: they come out of the exclusive or with its own hash, whatever other, short
\* or damaged bytes there were, and however often it was tried to start (secure.c).
MFDecodesIOP ==
  bpc = "inMF" /\ GoodIop /\ ~refused =>
    \E m \in Messages(box) :
      /\ m.to = "APP" /\ m.type = "iop" /\ m.valid /\ Xor(m.bytes, HashMF) = Secret

\* The strings that the BS sent are on the screens from the first one on: neither the reading of
\* the other mail nor a request to switch off takes them before (gui_core.c, mail_engine.c).
VersionsShown ==
  gui = "lit" =>
    \A code \in {"version", "serial"} : Strings(given, code) # {} => code \in labels

\* The BS is told that a bootloader with a new key runs only when it finds the whole image of it
\* in the mail, which that very call put there (incomingMessageHandler, mailEngine_shareNewBL).
KeyReplyMeansImage ==
  bpc = "inBS" /\ EventTo("BS", "keyOk") \in Messages(box) => Image(TRUE) \in Messages(box)

\* Nothing is left for the bootloader when it leaves, on any of its ways out: what it has
\* handled is not handled again by its next run (prepareToShutdown, which works once).
NothingIsReadTwice == Stopped => \A m \in Messages(box) : ~ToBL(m)

\* The mail of the others outlives the bootloader: what the MF wrote to the BS always, what the
\* BS wrote to the MF unless a start failed (mailEngine_removeMsgToMF).
OthersKept ==
  \A m \in Messages(given) :
    m.to # "BL" => m \in Messages(box) \/ (m.to = "APP" /\ cleared)

-----------------------------------------------------------------------------
(* What makes these properties inductive. *)

\* The mail at the start is not from the bootloader, and the bytes that it takes are for it.
GivenInv ==
  \A m \in Messages(given) :
    /\ m.from # "BL"
    /\ Reads(m, "BS", "iop") /\ m.fits => m.bytes = Xor(Secret, HashBL)

\* The bytes are taken from the mail as it was given, and nobody is beside the boot task then.
FirstInv ==
  /\ bpc \in {"secure", "read", "handle"} => gui = "dark" /\ starts = 0
  /\ bpc = "secure" => box = given
  /\ bpc # "secure" /\ ~Stopped /\ GoodIop => iopvx = Xor(Secret, HashBL)

\* Once the mail to the bootloader is removed there is none any more.
ClosedInv ==
  /\ closed => \A m \in Messages(box) : ~ToBL(m)
  /\ Stopped => closed

\* Until the first screen the strings are left where they were.
StringInv ==
  gui = "dark" /\ ~Stopped =>
    \A code \in {"version", "serial"} : Strings(given, code) # {} => Strings(box, code) # {}

\* The answer to a new key is the last thing before the jump, and the image came before it.
KeyInv ==
  EventTo("BS", "keyOk") \in Messages(box) =>
    bpc \in {"toBS", "inBS", "off"} /\ Image(TRUE) \in Messages(box)

MailInv ==
  /\ GivenInv /\ FirstInv /\ ClosedInv /\ StringInv /\ KeyInv
  /\ OthersKept /\ VersionsShown /\ MFDecodesIOP
==============================================================================
