------------------------------- MODULE Update -------------------------------
(***************************************************************************)
(* Update::run of the desktop builds (src/src/cpp17/update.hpp): it asks   *)
(* the Network for a binary, writes it to a temporary file, and puts it in *)
(* the place of the running one by two renames and a remove. The new       *)
(* binary then runs as a child of the old process, which only waits for it *)
(* and ends with it. The process may stop at any time; it is started again *)
(* from what the path names.                                               *)
(***************************************************************************)
EXTENDS Network

CONSTANTS
  Versions,   \* the firmware versions a server publishes
  First       \* the one the device was delivered with

\* A binary as published, or a beginning of one.
Whole(v) == [version |-> v, part |-> "whole"]
Cut(v) == [version |-> v, part |-> "cut"]

ASSUME BinariesAssumption == Binaries = [version: Versions, part: {"whole", "cut"}]
ASSUME FirstAssumption == First \in Versions

VARIABLES
  phase,      \* where run() is, "idle" while the application is not in it
  tmp,        \* the temporary file of this update, None if it has none
  old,        \* the file beside the path with ".old" appended
  image,      \* the binary that the process runs or, once it stopped, ran
  alive,      \* there is a process
  published,  \* the version the server has
  sent        \* history: the binaries answers have held

updateVars == <<phase, tmp, old, image, alive, published, sent>>
vars == <<networkVars, updateVars>>

Init ==
  /\ NewProcess
  /\ path = Whole(First)
  /\ phase = "idle"
  /\ tmp = None
  /\ old = None
  /\ image = Whole(First)
  /\ alive = TRUE
  /\ published = First
  /\ sent = {Whole(First)}

\* The server may send the published version in LATEST_VERSION, and the binary
\* to an updater. A client takes the end of a connection for the end of the
\* response, so that a binary may be cut, to nothing too.
Answers(who) ==
  [status: Known \cup {"unknown"}, latest: {None, Whole(published)},
   payload: IF who = "update" THEN {None, Whole(published), Cut(published)} ELSE {None}]

ServerAnswers ==
  /\ alive
  /\ calls # <<>>
  /\ \E answer \in Answers(Top.by):
       /\ Answered(answer)
       /\ sent' = sent \cup ({answer.payload} \ {None})
  /\ UNCHANGED <<phase, tmp, old, image, alive, published>>

\* The application uses the network when it is not in run() beyond its
\* request. It does not update from its hook (network.hpp:13).
NetworkStep ==
  /\ alive
  /\ phase \in {"idle", "fetching"}
  /\ phase = "idle" \/ calls # <<>>
  /\ Application \/ Client
  /\ UNCHANGED updateVars

Run ==
  /\ alive
  /\ phase = "idle"
  /\ calls = <<>>
  /\ HttpRequest("update")
  /\ phase' = "fetching"
  /\ UNCHANGED <<tmp, old, image, alive, published, sent>>

\* run() returns, and its response with it.
ReplyDropped ==
  /\ reply' = IOError
  /\ UNCHANGED <<initialized, probed, hook, given, cached, calls, path>>

\* No status, one other than OK, or an empty payload: BROKEN_SERVER.
NoBinary ==
  /\ phase = "fetching"
  /\ calls = <<>>
  /\ reply.status # "OK" \/ reply.payload = None
  /\ phase' = "idle"
  /\ ReplyDropped
  /\ UNCHANGED <<tmp, old, image, alive, published, sent>>

\* Another program's tmpnam() may have the name too; that race is left out.
FileOpened ==
  /\ phase = "fetching"
  /\ calls = <<>>
  /\ reply.status = "OK"
  /\ reply.payload # None
  /\ tmp' = Cut(reply.payload.version)
  /\ phase' = "writing"
  /\ UNCHANGED <<networkVars, old, image, alive, published, sent>>

\* open, write, close or permissions fail: IO_ERROR. The file, of a name
\* nobody will ask for again, stays behind.
FileFails ==
  /\ \/ phase = "writing"
     \/ phase = "fetching" /\ calls = <<>> /\ reply.status = "OK" /\ reply.payload # None
  /\ tmp' = None
  /\ phase' = "idle"
  /\ ReplyDropped
  /\ UNCHANGED <<old, image, alive, published, sent>>

FileWrittenUnchecked ==                \* mutant: close() is not looked at
  /\ phase = "writing"
  /\ tmp' \in {tmp, reply.payload}
  /\ phase' = "displace"
  /\ UNCHANGED <<networkVars, old, image, alive, published, sent>>

FileWritten ==
  /\ phase = "writing"
  /\ tmp' = reply.payload
  /\ phase' = "displace"
  /\ UNCHANGED <<networkVars, old, image, alive, published, sent>>

DisplaceRemoves ==                     \* mutant: the binary is removed, not renamed
  /\ phase = "displace"
  /\ path' = None
  /\ phase' = "install"
  /\ UNCHANGED <<processVars, tmp, old, image, alive, published, sent>>

\* rename(filename, renamedBinary)
Displace ==
  /\ phase = "displace"
  /\ old' = path
  /\ path' = None
  /\ phase' = "install"
  /\ UNCHANGED <<processVars, tmp, image, alive, published, sent>>

InstallUnchecked ==                    \* mutant: rename() may fail, and nobody looks
  /\ phase = "install"
  /\ path' \in {path, tmp}
  /\ tmp' = None
  /\ phase' = "remove"
  /\ UNCHANGED <<processVars, old, image, alive, published, sent>>

\* rename(tmpFile, filename)
Install ==
  /\ phase = "install"
  /\ path' = tmp
  /\ tmp' = None
  /\ phase' = "remove"
  /\ UNCHANGED <<processVars, old, image, alive, published, sent>>

\* remove(renamedBinary)
RemoveOld ==
  /\ phase = "remove"
  /\ old' = None
  /\ phase' = "execute"
  /\ UNCHANGED <<networkVars, tmp, image, alive, published, sent>>

\* A process of the binary at the path, with statics of its own.
Starts ==
  /\ path # None
  /\ MemoryReset
  /\ alive' = TRUE
  /\ image' = path
  /\ phase' = "idle"
  /\ tmp' = None
  /\ UNCHANGED <<path, old, published, sent>>

ExecuteReturns ==                      \* mutant: run() goes on after the child
  /\ phase = "execute"
  /\ phase' = "idle"
  /\ UNCHANGED <<networkVars, tmp, old, image, alive, published, sent>>

\* exit(system(filename)): from here on the process is its child.
Execute ==
  /\ phase = "execute"
  /\ Starts

\* The process is killed or panics; a filesystem_error of the renames or the
\* remove cannot leave run(), which is noexcept; a cut binary does not run.
Stop ==
  /\ alive
  /\ alive' = FALSE
  /\ MemoryReset
  /\ phase' = "idle"
  /\ tmp' = None
  /\ UNCHANGED <<path, old, image, published, sent>>

Restart ==
  /\ ~alive
  /\ Starts

Publish(v) ==
  /\ published' = v
  /\ UNCHANGED <<networkVars, phase, tmp, old, image, alive, sent>>

Updater ==
  /\ alive
  /\ \/ NoBinary \/ FileOpened \/ FileFails \/ FileWritten
     \/ Displace \/ Install \/ RemoveOld \/ Execute

Next ==
  \/ NetworkStep
  \/ ServerAnswers
  \/ Run
  \/ Updater
  \/ Stop
  \/ Restart
  \/ \E v \in Versions: Publish(v)

Spec == Init /\ [][Next]_vars

-----------------------------------------------------------------------------
UpdateTypeOK ==
  /\ phase \in {"idle", "fetching", "writing", "displace", "install", "remove", "execute"}
  /\ {tmp, old} \subseteq Binaries \cup {None}
  /\ image \in Binaries
  /\ alive \in BOOLEAN
  /\ published \in Versions
  /\ sent \subseteq Binaries

\* While an application runs outside of the replacement of its binary, the
\* path names that binary, and the hash requests announce is of it: a process
\* never goes on beside another binary.
RunsWhatIsInstalled ==
  alive /\ phase \in {"idle", "fetching", "writing", "displace"} =>
    path = image /\ cached \in {None, image}

\* Wherever run() stops, the path names a binary, or else the one that was
\* running is beside it.
Recoverable == path = None => old = image

\* Neither place ever holds a file that is not exactly what some answer held,
\* whatever part of it a failing disk took.
NothingHalfWritten == {path, old} \subseteq sent \cup {None}

\* What the steps of the replacement leave to each other.
Replacing ==
  /\ phase \notin {"idle", "fetching"} => alive /\ calls = <<>>
  /\ phase \in {"writing", "displace", "install"} => reply.payload \in sent
  /\ phase \in {"displace", "install"} => tmp = reply.payload
  /\ phase \in {"remove", "execute"} => path # None
  /\ phase = "install" => path = None
  /\ ~alive => calls = <<>>

\* The payloads of answers on their way to run() are ones that were sent.
AnswersWereSent ==
  /\ \A i \in DOMAIN calls: calls[i].answer.payload \in sent \cup {None}
  /\ reply.payload \in sent \cup {None}

\* The inductive invariant of the proofs.
FirmwareInv ==
  /\ NetworkTypeOK
  /\ UpdateTypeOK
  /\ ProbeNeverNests
  /\ RunsWhatIsInstalled
  /\ Recoverable
  /\ NothingHalfWritten
  /\ Replacing
  /\ AnswersWereSent

\* An answer of a known status that names another version than the one that
\* runs is not returned before the hook was called that the application last
\* set, or the default one if it took its hook back.
OfferReachesHook ==
  [][/\ At("received")
     /\ Top.answer.status \in Known
     /\ Top.answer.latest \notin {None, image}
     /\ alive'
     /\ calls' # calls
     => /\ Len(calls') = Len(calls)
        /\ Last(calls').at = "hook"
        /\ Last(calls').called = given]_vars

Slot == INSTANCE FirmwareSlot WITH
  Binary <- Binaries,
  firmware <- IF path # None THEN path ELSE old,
  startable <- path # None,
  running <- IF alive THEN image ELSE None,
  received <- sent

\* The updater implements FirmwareSlot: through every failure and stop the device
\* has one binary, its own until a received one is whole in its place; nobody
\* goes on beside a binary that was replaced, and only a stop between the two
\* renames leaves a device that does not start.
UpdatesAtomically == Slot!Spec

\* What src/src/network.cpp:175 says of a payload ("we check for its size"):
\* a binary that is put in place is one the server published, and all of it.
InstalledIsWhole == path # None => path.part = "whole"
=============================================================================
