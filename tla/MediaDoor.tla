------------------------------ MODULE MediaDoor ------------------------------
(***************************************************************************)
(* What the front door does with an update that may be a voice note or a   *)
(* photo: ingress/gateway.py with the seam of ingress/media.py and the     *)
(* Telegram parts of ingress/plugins.py.                                   *)
(*                                                                         *)
(*   channel sends -> detect -> fetch a file -> sense it -> publish        *)
(*         ^------------------- 503 or no answer -------------'            *)
(*                                                                         *)
(* Credentials, trust and the identity of the minted task are Door's       *)
(* subject; the channel is external.                                       *)
(*                                                                         *)
(* X_Something is a mutant of X: X with a plausible mistake in it.         *)
(***************************************************************************)
EXTENDS Naturals, FiniteSets

CONSTANTS
    Update,           \* messages a channel has for the door
    WebThread,        \* request threads of the server
    Wired,            \* the senses wired at boot: "transcriber", "describer"
    MaxSends,         \* how often the channel tries one update
    MaxMediaFaults    \* bound: refusals, timeouts and restarts

MediaKinds == {"voice", "audio", "photo", "text", "none"}

ASSUME MediaAssumption ==
    /\ Wired \subseteq {"transcriber", "describer"}
    /\ MaxSends \in Nat /\ MaxMediaFaults \in Nat

VARIABLES
    kindOf,      \* what each update is
    channel,     \* channel[u]: what the channel knows of its update
    web,         \* web[t]: the locals of a request thread
    mediaFiles,  \* temporary files
    heard,       \* tasks published
    restarts,    \* times the process came back (an observation)
    mediaFaults

mediaVars == <<kindOf, channel, web, mediaFiles, heard, restarts, mediaFaults>>

WebStages == {"free", "fetching", "fetched", "worded"}
Words == {"said", "seen", "written"}

\* A send of an update names the thread's work, and its file.
SendOf == [update : Update, n : 1..MaxSends]
MediaFile == [of : SendOf, whole : BOOLEAN]
HeardTask == [of : SendOf, words : Words, spoken : BOOLEAN]

Free == [stage |-> "free"]
At(stage, send) == [stage |-> stage, of |-> send]

MediaInit ==
    /\ kindOf \in [Update -> MediaKinds]
    /\ channel = [u \in Update |-> [stage |-> "due", sends |-> 0]]
    /\ web = [t \in WebThread |-> Free]
    /\ mediaFiles = {}
    /\ heard = {}
    /\ restarts = 0
    /\ mediaFaults = 0

-----------------------------------------------------------------------------
MediaFault == mediaFaults < MaxMediaFaults /\ mediaFaults' = mediaFaults + 1

Working(t) == web[t].stage # "free"

\* MediaIntent.is_speech
IsSpeech(kind) == kind \in {"voice", "audio"}

\* detect_media, which reads the update and fetches nothing.
IsMedia(kind) == kind \in {"voice", "audio", "photo"}

\* The sense that turns such a file into words.
Sense(kind) == IF IsSpeech(kind) THEN "transcriber" ELSE "describer"

ChannelLeaves(send, stage) ==
    channel' = IF channel[send.update] = [stage |-> "waiting", sends |-> send.n]
               THEN [channel EXCEPT ![send.update].stage = stage]
               ELSE channel

\* The channel takes the answer of the send it waits for, and of no other: a 2xx
\* ends the update, anything else keeps it due.
Accepts(send) == ChannelLeaves(send, "done")

Unavailable_Quietly(send) == Accepts(send)

\* UNAVAILABLE: "the answer that makes the channel retry".
Unavailable(send) == ChannelLeaves(send, "due")

\* One POST: nothing to act on is answered at once, text is its own words, and
\* media starts with a temporary file (mkstemp).
Send(u, t) ==
    /\ channel[u].stage = "due" /\ channel[u].sends < MaxSends /\ ~Working(t)
    /\ LET send == [update |-> u, n |-> channel[u].sends + 1] IN
       /\ channel' = [channel EXCEPT ![u] =
            [stage |-> IF kindOf[u] = "none" THEN "done" ELSE "waiting", sends |-> send.n]]
       /\ web' = [web EXCEPT ![t] = CASE kindOf[u] = "none" -> Free
                                     [] kindOf[u] = "text" -> At("worded", send)
                                     [] OTHER -> At("fetching", send)]
       /\ mediaFiles' = IF IsMedia(kindOf[u])
                        THEN mediaFiles \cup {[of |-> send, whole |-> FALSE]} ELSE mediaFiles
    /\ UNCHANGED <<kindOf, heard, restarts, mediaFaults>>

\* download: getFile, then the file itself.
Fetch(t) ==
    /\ web[t].stage = "fetching"
    /\ mediaFiles' = (mediaFiles \ {[of |-> web[t].of, whole |-> FALSE]})
                        \cup {[of |-> web[t].of, whole |-> TRUE]}
    /\ web' = [web EXCEPT ![t].stage = "fetched"]
    /\ UNCHANGED <<kindOf, channel, heard, restarts, mediaFaults>>

LeftOnDisk_Left(send) == mediaFiles

\* What a failed download leaves on the disk.
LeftOnDisk(send) == {f \in mediaFiles : f.of # send}

FetchRefused(t) ==
    /\ web[t].stage = "fetching"
    /\ MediaFault
    /\ mediaFiles' = LeftOnDisk(web[t].of)
    /\ Unavailable(web[t].of)
    /\ web' = [web EXCEPT ![t] = Free]
    /\ UNCHANGED <<kindOf, heard, restarts>>

\* process: the transcriber or the describer reads the file, which stays.
SenseFile(t) ==
    /\ web[t].stage = "fetched" /\ Sense(kindOf[web[t].of.update]) \in Wired
    /\ web' = [web EXCEPT ![t].stage = "worded"]
    /\ UNCHANGED <<kindOf, channel, mediaFiles, heard, restarts, mediaFaults>>

\* The sense is not wired, or it raises.
SenseRefused(t) ==
    /\ web[t].stage = "fetched"
    /\ IF Sense(kindOf[web[t].of.update]) \in Wired THEN MediaFault ELSE UNCHANGED mediaFaults
    /\ Unavailable(web[t].of)
    /\ web' = [web EXCEPT ![t] = Free]
    /\ UNCHANGED <<kindOf, mediaFiles, heard, restarts>>

\* MediaContent.wants_voice_reply, which the task carries to the answering lane.
WantsVoiceReply(kind) == IsSpeech(kind)

WordsOf(kind) == CASE IsSpeech(kind) -> "said" [] kind = "photo" -> "seen" [] OTHER -> "written"

\* _mint and publish_submitted; 202.
PublishWords(t) ==
    /\ web[t].stage = "worded"
    /\ LET kind == kindOf[web[t].of.update] IN
       heard' = heard \cup {[of |-> web[t].of, words |-> WordsOf(kind),
                             spoken |-> WantsVoiceReply(kind)]}
    /\ Accepts(web[t].of)
    /\ web' = [web EXCEPT ![t] = Free]
    /\ UNCHANGED <<kindOf, mediaFiles, restarts, mediaFaults>>

\* The bus refuses the task; 503.
PublishRefused(t) ==
    /\ web[t].stage = "worded"
    /\ MediaFault
    /\ Unavailable(web[t].of)
    /\ web' = [web EXCEPT ![t] = Free]
    /\ UNCHANGED <<kindOf, mediaFiles, heard, restarts>>

\* The channel has waited long enough, while the thread still works.
ChannelTimesOut(u) ==
    /\ channel[u].stage = "waiting"
    /\ MediaFault
    /\ channel' = [channel EXCEPT ![u].stage = "due"]
    /\ UNCHANGED <<kindOf, web, mediaFiles, heard, restarts>>

\* The process dies: its threads and connections are gone, its files are not.
DoorRestarts ==
    /\ \E t \in WebThread : Working(t)
    /\ MediaFault
    /\ web' = [t \in WebThread |-> Free]
    /\ channel' = [u \in Update |-> IF channel[u].stage = "waiting"
                                    THEN [channel[u] EXCEPT !.stage = "due"] ELSE channel[u]]
    /\ restarts' = restarts + 1
    /\ UNCHANGED <<kindOf, mediaFiles, heard>>

Handles(t) == Fetch(t) \/ SenseFile(t) \/ SenseRefused(t) \/ PublishWords(t)

MediaNext ==
    \/ \E t \in WebThread :
        \/ \E u \in Update : Send(u, t)
        \/ Handles(t)
        \/ FetchRefused(t) \/ PublishRefused(t)
    \/ \E u \in Update : ChannelTimesOut(u)
    \/ DoorRestarts

\* A thread goes on with its request, and a channel sends what is due; neither
\* has to time out, refuse or die.
MediaFairness ==
    /\ \A t \in WebThread : WF_mediaVars(Handles(t))
    /\ \A u \in Update : WF_mediaVars(\E t \in WebThread : Send(u, t))

MediaSpec == MediaInit /\ [][MediaNext]_mediaVars /\ MediaFairness

-----------------------------------------------------------------------------
(* What must hold.                                                         *)

MediaTypeOK ==
    /\ kindOf \in [Update -> MediaKinds]
    /\ channel \in [Update -> [stage : {"due", "waiting", "done"}, sends : 0..MaxSends]]
    /\ \A t \in WebThread :
        /\ web[t].stage \in WebStages
        /\ web[t].stage \in {"fetching", "fetched"} =>
              [of |-> web[t].of, whole |-> web[t].stage = "fetched"] \in mediaFiles
        /\ Working(t) => web[t].of \in SendOf /\ web[t].of.n <= channel[web[t].of.update].sends
    /\ mediaFiles \subseteq MediaFile
    /\ heard \subseteq HeardTask
    /\ restarts \in 0..mediaFaults /\ mediaFaults \in 0..MaxMediaFaults

\* A half written file belongs to a download that is running, or to a process
\* that died: a refused download leaves nothing behind.
OnlyCrashesLeaveHalfFiles ==
    restarts = 0 =>
        \A f \in mediaFiles : ~f.whole => \E t \in WebThread : web[t] = At("fetching", f.of)

\* An update that was spoken is answered aloud, whichever of the two kinds of
\* speech it was and however often it had to be sent; nothing else is.
SpokenToIsAnsweredAloud ==
    \A k \in heard : k.spoken <=> kindOf[k.of.update] \in {"voice", "audio"}

\* Sendable and sensible: one more try than there are faults is enough.
CanBeHeard(u) ==
    /\ MaxSends > MaxMediaFaults
    /\ kindOf[u] = "text" \/ (IsMedia(kindOf[u]) /\ Sense(kindOf[u]) \in Wired)

\* An update that can be turned into words becomes a task in the end, although
\* downloads, senses, the bus and the process fail: what is refused with 503
\* comes again.
SensibleIsHeard ==
    \A u \in Update : CanBeHeard(u) ~> \E k \in heard : k.of.update = u

\* What was sent to be heard leaves no half of it behind, and is answered as it
\* was asked.
MediaIsTidy == OnlyCrashesLeaveHalfFiles /\ SpokenToIsAnsweredAloud
=============================================================================
