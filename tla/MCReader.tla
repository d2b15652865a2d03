------------------------------- MODULE MCReader -------------------------------
(***************************************************************************)
(* Instances of Reader: sessions of up to two segments on two channels.    *)
(***************************************************************************)
EXTENDS ReaderProperties

\* Channel 1 is uncompressed, channel 2 compressed.
Plain(n)  == {AnnotationOf(2), DataOf(Message(1, 1, n)), DataOf(Message(1, 3, n)),
              ChunkOf(<<Message(2, 1, n), Message(2, 3, n + 1)>>)}
Late(n)   == {DataOf(Message(1, 3, n)), DataOf(Message(1, 4, n)),
              ChunkOf(<<Message(2, 3, n), Message(2, 4, n + 1)>>)}
Hurt(r) == {[r EXCEPT !.state = "crc"]}
           \cup IF r.op = "Chunk" THEN {[r EXCEPT !.state = "packed"], [r EXCEPT !.cnt = @ + 1]}
                ELSE {}

Bodies(first, second) == {<<>>} \cup {<<r>> : r \in first} \cup (first \X second)
Intact == Bodies(Plain(10), Late(20))
Hurts  == Bodies(UNION {Hurt(r) : r \in Plain(10)},
                 {DataOf(Message(1, 3, 20)), AnnotationOf(2)})

Chans == <<1, 2>>
Entry(k, body) ==
  [file |-> k, start |-> ScanStart(body), end |-> ScanEnd(body)]
Listing(chans, bodies) ==
  [state |-> "ok", chans |-> chans, segs |-> [k \in DOMAIN bodies |-> Entry(k, bodies[k])]]

Session(bodies) ==
  [single |-> FALSE, files |-> [k \in DOMAIN bodies |-> ClosedFile(Chans, bodies[k])],
   manifest |-> Listing({1, 2}, bodies)]

Single(file) ==
  [single |-> TRUE, files |-> <<file>>,
   manifest |-> [state |-> "missing", chans |-> {}, segs |-> <<>>]]

Sound   == {Session(<<a, b>>) : a \in Intact, b \in {<<>>} \cup {<<r>> : r \in Late(40)}}
           \cup {Session(<<a>>) : a \in Intact}
Broken  == {Session(<<a, <<DataOf(Message(1, 3, 40))>> >>) : a \in Hurts}
Singles == {Single(CutFile(Chans, a)) : a \in Intact}
           \cup {Single(ClosedFile(Chans, a)) : a \in Hurts}
\* A manifest that knows one channel only, one that names a missing file, a
\* file without a header, and manifests that are not there or are empty.
Partial == {[Session(<<a>>) EXCEPT !.manifest.chans = {1}] : a \in Bodies(Plain(10), {})}
Odd ==
  LET s == Session(<< <<DataOf(Message(1, 1, 10))>>, <<DataOf(Message(1, 3, 20))>> >>)
  IN  {[s EXCEPT !.files = <<s.files[1]>>], [s EXCEPT !.files = <<s.files[1], BadFile>>],
       [s EXCEPT !.files = <<>>], [s EXCEPT !.manifest.state = "missing"],
       [s EXCEPT !.manifest.state = "empty"], Single(BadFile)}

AllDisks   == Sound \cup Broken \cup Singles \cup Partial \cup Odd
SoundDisks == Sound
Zero       == {0, 2, 3}
NoFilters  == {{}, {2}}
==============================================================================
