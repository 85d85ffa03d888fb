\* Two children that die and are forked anew, three tasks; connections and
\* processes are bounded by nothing else.
CONSTANTS
    m = m
    p1 = p1
    p2 = p2
    t1 = t1
    t2 = t2
    t3 = t3
    None = None
    Main = m
    Children = {p1, p2}
    Tasks = {t1, t2, t3}
    Pools = {"prefork", "solo", "threads"}
SPECIFICATION Spec
SYMMETRY Alike
INVARIANT TypeOK
INVARIANT EachProcessItsOwn
INVARIANT OneTaskAtATime
\* The tasks run out.
CHECK_DEADLOCK FALSE
