---------------------------- MODULE MCRepublish -----------------------------
EXTENDS Republish, TLC

CONSTANTS n1, n2, Junk

Path(name, utf8, padded, rest) ==
  [name |-> name, utf8 |-> utf8, padded |-> padded, rest |-> rest]
Published(run, started_at, image) ==
  [run |-> run, compat |-> 7, pid |-> 3, started_at |-> started_at, image |-> image]

\* A record with all the facts and a path of two lines, and one whose start time is
\* not known and whose path is no text.
MCRecord ==
  {Published(1, 5, Path(n1, TRUE, TRUE, <<Line("other", Nothing)>>)),
   Published(2, Nothing, Path(n2, FALSE, FALSE, <<>>))}

Run == Line("run", 0)
Pid == Line("pid", 2)
Compat == Line("compat", 1)
Whole == <<Run, Compat, Pid>>

\* Nothing; what an older build left out; lines of a newer one; keys said twice; the
\* ranges of u32 and u64; what is no number; another order.
MCLeftover ==
  {<<>>, Whole, <<Run, Pid>>, <<Line("other", Nothing), Pid, Run>>,
   <<Pid, Line("other", Nothing), Compat, Run, Line("other", Nothing)>>,
   Whole \o <<Line("run", 5), Line("image", Path(n1, TRUE, TRUE, <<>>))>>,
   Whole \o <<Line("pid", 4)>>, <<Line("pid", 4)>> \o Whole,
   Whole \o <<Line("started_at", 8)>>, Whole \o <<Line("started_at", 4)>>,
   Whole \o <<Line("started_at", Junk), Line("started_at", 4)>>,
   Whole \o <<Line("image", Path(n1, TRUE, TRUE, <<>>)),
              Line("image", Path(n2, TRUE, FALSE, <<>>))>>}

MCNumber == (0 .. 8) \cup {Junk}
MCImage ==
  {r.image : r \in MCRecord} \cup {Path(n1, TRUE, TRUE, <<>>), Path(n2, TRUE, FALSE, <<>>)}

Symmetric == Permutations(Thread) \cup Permutations(Inode)
=============================================================================
