------------------------------ MODULE MCRecover ------------------------------
(***************************************************************************)
(* Instances of Recover: directories of two segment files.                 *)
(***************************************************************************)
EXTENDS Recover

Chans == <<1, 2>>
Some  == <<DataOf(Message(1, 1, 1)), ChunkOf(<<Message(2, 2, 2), Message(2, 3, 3)>>),
           AnnotationOf(2)>>
More  == <<ChunkOf(<<Message(2, 4, 4)>>), DataOf(Message(1, 5, 5))>>

\* The zeros a file was preallocated with, read as records.
Zeros == Rec("Zeros", NoChannel, 0, <<>>)
Damage(body) == [body EXCEPT ![1].state = "crc"]

FirstFiles == {ClosedFile(Chans, Some), ClosedFile(Chans, Damage(Some)), CutFile(Chans, Some)}
LastFiles  == {CutFile(Chans, Append(More, Zeros)), CutFile(Chans, <<>>), BadFile}
FilePairs  == {<<a, b>> : a \in FirstFiles, b \in LastFiles} \cup {<<a>> : a \in FirstFiles}

ListOf(ids) == [k \in DOMAIN ids |-> Entry(ids[k], 0, 0)]
Manifests ==
  {[state |-> s, chans |-> {}, segs |-> <<>>] : s \in {"missing", "empty", "ok"}}
  \cup {[state |-> "ok", chans |-> {1, 2}, segs |-> ListOf(ids)] : ids \in {<<1>>, <<1, 2>>}}

SomeDirectories == {[files |-> f, manifest |-> m] : f \in FilePairs, m \in Manifests}
==============================================================================
