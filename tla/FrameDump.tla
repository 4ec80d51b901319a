------------------------------ MODULE FrameDump ------------------------------
(***************************************************************************)
(* core/DumpHelper.cpp: what processFrame() saves of a frame, in the       *)
(* thread that processes it.  All threads share one SDK format filter,     *)
(* formatFilter_, which saveColor() tells what to convert and then calls.  *)
(* A file stands for its frame, the picture it was made of, and the order  *)
(* of its channels, which imwrite() takes for BGR.                         *)
(***************************************************************************)
EXTENDS Naturals

CONSTANTS Threads,         \* the threads that process frames
          frameInterval,   \* saveConfig
          ColorFormats,    \* the formats the color stream may have
          Saved            \* the frame types shouldSave() accepts

VARIABLES
    enableDump,     \* saveConfig.enableDump
    colorFormat,    \* of the color stream
    filter,         \* what formatFilter_ is set to convert
    step, job,      \* where each thread is in processFrame(), and its frame
    picture,        \* the order of the channels of each thread's frame
    setBy,          \* history: the thread that set the filter last
    disturbed,      \* history: frames given to a filter another thread had set
    files

dumpVars == <<enableDump, colorFormat, filter, step, job, picture, setBy, disturbed, files>>

NoFrame == [index |-> 0, type |-> "none"]
Steps == {"idle", "gate", "save", "setRGB", "toRGB", "setBGR", "toBGR", "metadata", "done"}
Converted == {"MJPG", "UYVY", "YUYV"}    \* what saveColor() has the filter convert

(* initializeSavePath() disables the dump if it cannot make the directory. *)
DumpInit == /\ enableDump \in BOOLEAN
            /\ colorFormat \in ColorFormats
            /\ filter = "none" /\ setBy = "none" /\ disturbed = {} /\ files = {}
            /\ step = [t \in Threads |-> "idle"]
            /\ job = [t \in Threads |-> NoFrame]
            /\ picture = [t \in Threads |-> "none"]

Goes(t, s) == step' = [step EXCEPT ![t] = s]
File(f, kind, order) == [frame |-> f, kind |-> kind, order |-> order]

(* convertVideoFrame(): a color picture as OpenCV decodes it; RGB as it    *)
(* is; a format it does not know, as grey.                                 *)
convertVideoFrame(format) == CASE format \in Converted \cup {"BGR"} -> "BGR"
                               [] format \in {"RGB", "RGBA", "BGRA"} -> format
                               [] OTHER -> "grey"

Begin(t, f) ==
    /\ step[t] = "idle"
    /\ Goes(t, "gate") /\ job' = [job EXCEPT ![t] = f]
    /\ UNCHANGED <<enableDump, colorFormat, filter, picture, setBy, disturbed, files>>

(* processFrame(): one frame in frameInterval, of each stream, goes on.    *)
Gate(t) ==
    /\ step[t] = "gate"
    /\ Goes(t, IF enableDump /\ job[t].index % frameInterval = 0 THEN "save" ELSE "done")
    /\ UNCHANGED <<enableDump, colorFormat, filter, job, picture, setBy, disturbed, files>>

(* save() of what needs no filter: depth with its colormap and its data,   *)
(* infrared, and color that is RGB, BGR, or left to convertVideoFrame().   *)
Pictures(f) == CASE f.type \notin Saved -> {}
                 [] f.type = "DEPTH" -> {File(f, k, "BGR") : k \in {"image", "colormap", "data"}}
                 [] f.type = "IR" -> {File(f, "image", "BGR")}
                 [] OTHER -> {File(f, "image", convertVideoFrame(colorFormat))}

Save(t) ==
    /\ step[t] = "save"
    /\ IF job[t].type = "COLOR" /\ "COLOR" \in Saved /\ colorFormat \in Converted
       THEN Goes(t, "setRGB") /\ UNCHANGED files
       ELSE Goes(t, "metadata") /\ files' = files \cup Pictures(job[t])
    /\ UNCHANGED <<enableDump, colorFormat, filter, job, picture, setBy, disturbed>>

(* setFormatConvertType() and process() are two calls: between them,       *)
(* another thread may set the filter to something else.                    *)
SetFilter(t, from, conversion, to) ==
    /\ step[t] = from
    /\ filter' = conversion /\ setBy' = t
    /\ Goes(t, to)
    /\ UNCHANGED <<enableDump, colorFormat, job, picture, disturbed, files>>

(* The filter refuses a picture it is not set for, or makes something of   *)
(* it; an ob::Error leads to convertVideoFrame(), of the frame as it came. *)
Process(t, from, conversion, result, to) ==
    /\ step[t] = from
    /\ disturbed' = IF setBy = t THEN disturbed ELSE disturbed \cup {job[t]}
    /\ \/ /\ picture' = [picture EXCEPT ![t] = IF filter = conversion THEN result ELSE "garbled"]
          /\ Goes(t, to)
          /\ files' = IF to = "setBGR" THEN files ELSE files \cup {File(job[t], "image", picture'[t])}
       \/ /\ files' = files \cup {File(job[t], "image", convertVideoFrame(colorFormat))}
          /\ Goes(t, "metadata") /\ UNCHANGED picture
    /\ UNCHANGED <<enableDump, colorFormat, filter, job, setBy>>

(* Mutant: the filter is set once, and left at what it converts to.        *)
SaveColorUnswapped(t) == \/ SetFilter(t, "setRGB", "TO_RGB", "toRGB")
                         \/ Process(t, "toRGB", "TO_RGB", "RGB", "setBGR")
                         \/ Process(t, "setBGR", "TO_RGB", "RGB", "metadata")

(* saveColor(): to RGB, and from there to BGR.                             *)
SaveColor(t) == \/ SetFilter(t, "setRGB", "TO_RGB", "toRGB")
                \/ Process(t, "toRGB", "TO_RGB", "RGB", "setBGR")
                \/ SetFilter(t, "setBGR", "TO_BGR", "toBGR")
                \/ Process(t, "toBGR", "TO_BGR", "BGR", "metadata")

(* The metadata are saved whether or not the frame was.                    *)
SaveMetadata(t) ==
    /\ step[t] = "metadata"
    /\ files' = files \cup {File(job[t], "metadata", "BGR")}
    /\ Goes(t, "done")
    /\ UNCHANGED <<enableDump, colorFormat, filter, job, picture, setBy, disturbed>>

(* The frame goes to PerceptionSystem's callback, and the thread is free.  *)
End(t) ==
    /\ step[t] = "done"
    /\ Goes(t, "idle") /\ job' = [job EXCEPT ![t] = NoFrame]
    /\ UNCHANGED <<enableDump, colorFormat, filter, picture, setBy, disturbed, files>>

DumpNext(t) == Gate(t) \/ Save(t) \/ SaveColor(t) \/ SaveMetadata(t)

-----------------------------------------------------------------------------
DumpTypeOK ==
    /\ enableDump \in BOOLEAN /\ colorFormat \in ColorFormats
    /\ filter \in {"none", "TO_RGB", "TO_BGR"} /\ setBy \in Threads \cup {"none"}
    /\ step \in [Threads -> Steps]
    /\ picture \in [Threads -> {"none", "RGB", "BGR", "garbled"}]

(* A saved picture shows its colors: its channels are in the order that    *)
(* imwrite() expects (the comment at DumpHelper.cpp 613) unless the stream *)
(* is RGB or unknown, which is saved as it is (568-582), or another thread *)
(* set the filter between this one's two calls (594-615).                  *)
ColorsAreRight ==
    \A x \in files : x.order = "BGR" \/ colorFormat \notin Converted \/ x.frame \in disturbed
=============================================================================
