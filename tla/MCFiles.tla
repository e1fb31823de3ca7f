------------------------------- MODULE MCFiles -------------------------------
(* A small instance of Files, with archives laid out by the newc format.   *)
EXTENDS Files, TLC

pad4(x) == x + ((4 - (x % 4)) % 4)
entry(name, namesize, type, filesize) ==
    [magic |-> TRUE, name |-> name, namesize |-> namesize, type |-> type,
     filesize |-> filesize]
trailer == entry(<<"TRAILER!!!">>, 11, "trailer", 0)

\* Where the k-th entry starts: header and name are padded, then the data.
laid_out(es, cut) ==
    LET body(k, o) == pad4(o + HeaderSize + es[k].namesize)
        start[k \in 1 .. Len(es) + 1] ==
            IF k = 1 THEN 0
            ELSE pad4(body(k - 1, start[k - 1]) + es[k - 1].filesize)
        at == {start[k] : k \in 1 .. Len(es)}
        number(o) == CHOOSE k \in 1 .. Len(es) : start[k] = o
    IN  [size |-> start[Len(es) + 1] - cut, intact |-> cut = 0,
         at |-> [o \in at |-> LET k == number(o) IN
                   [magic |-> es[k].magic, name |-> es[k].name,
                    namesize |-> es[k].namesize, type |-> es[k].type,
                    filesize |-> es[k].filesize, body |-> body(k, o)]]]

\* A complete archive; one with a name twice; one cut inside the data of
\* its file; none at all.
MCArchives ==
    {laid_out(<<entry(<<>>, 2, "dir", 0), entry(<<"tmp">>, 4, "dir", 0),
                entry(<<"f">>, 3, "reg", 3), trailer>>, 0),
     laid_out(<<entry(<<"n">>, 2, "other", 1), entry(<<"f">>, 2, "reg", 2),
                entry(<<"f">>, 3, "reg", 1), trailer>>, 0),
     laid_out(<<entry(<<"f">>, 2, "reg", 3)>>, 2),
     laid_out(<<>>, 0)}
MCPaths == {<<>>, <<"f">>, <<"tmp", "d">>, <<"dev", "fb0">>, <<"x">>}
MCAlike == Permutations(Procs)

\* Each behaviour is about one of two things and keeps to the calls that matter
\* to it: the tree, with one process and any file; or the framebuffer, with
\* processes that fork and have nothing open but fb0, in a tree as booted.
VARIABLE about

AboutTree ==
    /\ Cardinality(live) <= 1
    /\ free_handles = Handles /\ \A p \in Procs : fbmaps[p] = <<>>
AboutFramebuffer ==
    /\ \A p \in Procs, f \in FDs : fd[p][f].used => is_fb0(fd[p][f].node)
    /\ \A n \in Nodes : tree[n].type = "directory" => tree[n].name \notin {"f", "d", "x"}

MCInit ==
    /\ Init
    /\ \/ about = "tree"
       \/ about = "framebuffer" /\ archive.size = 0
MCNext ==
    /\ Next /\ UNCHANGED about
    /\ IF about = "tree" THEN AboutTree' ELSE AboutFramebuffer'
MCSpec == MCInit /\ [][MCNext]_<<vars, about>>
=============================================================================
