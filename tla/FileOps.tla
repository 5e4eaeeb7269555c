------------------------------ MODULE FileOps -------------------------------
(***************************************************************************)
(* The functions of Path that change the file system (path.cpp, on Unix):  *)
(* remove(), make_directory(), make_symlink(), copy_to(), move_to(),       *)
(* create() and save().  Each is a sequence of system calls, and calls the *)
(* others; between any two calls another process may do the same, and any  *)
(* process may stop for good.                                              *)
(*                                                                         *)
(* Each process makes one call.  A frame of its stack is a call that has   *)
(* not returned: its function, its arguments, and pc, the next system call *)
(* to make.  (Two queries that are compared with each other are one step.) *)
(* An exception empties the stack, as no function catches one but          *)
(* make_symlink() around resolve_symlink().                                *)
(*                                                                         *)
(* Reading and writing the data of a file may fail at any block; the other *)
(* system calls fail only if what they find in the tree makes them.        *)
(***************************************************************************)
EXTENDS FileSystem

CONSTANTS Procs,     \* processes
          Calls,     \* the calls they may make, as functions from processes to frames
          Trees,     \* the trees they find
          Contents,  \* the content of each inode they find
          Saved      \* the blocks that save() writes

VARIABLES tree,      \* the file system
          content,   \* what is stored under each inode
          stack,     \* the calls of each process, the innermost first
          result,    \* what became of the call of each process
          call,      \* the call each process makes
          before,    \* the tree before they start
          buffer,    \* the block that fwrite() has taken and not yet stored
          unflushed  \* history: processes whose fclose() failed to store one

stdio == <<buffer, unflushed>>

vars == <<tree, content, stack, result, call, before, stdio>>

Frame(op, pc, p, q, flags) ==
    [op |-> op, pc |-> pc, p |-> p, q |-> q, flags |-> flags, kids |-> {}, in |-> 0, out |-> 0, n |-> 0]

RemoveCall(p, flags) == Frame("remove", IF "recurse" \in flags THEN "isdir" ELSE "remove", p, <<>>, flags)
MakeDirectoryCall(p, flags) == Frame("make_directory", "mkdir", p, <<>>, flags)
MakeSymlinkCall(p, q, flags) == Frame("make_symlink", "islink", p, q, flags)
CopyToCall(p, q, flags) == Frame("copy_to", "exists", p, q, flags)
MoveToCall(p, q, flags) == Frame("move_to", "exists", p, q, flags)
SaveCall(p, flags) == Frame("save", IF flags = {} THEN "check" ELSE "open", p, <<>>, flags)
CreateCall(p) == Frame("create", "exists", p, <<>>, {})
NoCall == Frame("none", "", <<>>, <<>>, {})

Flags == {"recurse", "overwrite", "append", "may_copy"}

IsCall(f) ==
    f = NoCall \/ /\ f.p \in Paths /\ f.q \in Paths /\ f.flags \subseteq Flags
                  /\ f \in {RemoveCall(f.p, f.flags), MakeDirectoryCall(f.p, f.flags), MakeSymlinkCall(f.p, f.q, f.flags),
                            CopyToCall(f.p, f.q, f.flags), MoveToCall(f.p, f.q, f.flags), SaveCall(f.p, f.flags),
                            CreateCall(f.p)}

\* Every file is in a directory, and each inode has one name.
OwnInodes(t) == \A p, q \in DOMAIN t : p # q => t[p].ino # t[q].ino

InDirectories(t) == \A p \in DOMAIN t : \A k \in 1..(Len(p) - 1) : Kind(t, SubSeq(p, 1, k)) = "dir"

ASSUME FileOpsAssumption ==
    /\ IsFiniteSet(Procs)
    /\ \A c \in Calls : DOMAIN c = Procs /\ \A x \in Procs : IsCall(c[x])
    /\ \A t \in Trees : /\ IsFiniteSet(DOMAIN t) /\ OwnInodes(t) /\ InDirectories(t)
                        /\ \A p \in DOMAIN t : p \in Paths /\ PathError(t, p) = "ok" /\ IsNode(t[p])
    /\ DOMAIN Contents = Inodes /\ \A i \in Inodes : Contents[i] \in Seq(STRING)
    /\ Saved \in Seq(STRING)

-----------------------------------------------------------------------------

Top(x) == stack[x][1]

At(x, op, pc) == stack[x] # <<>> /\ Top(x).op = op /\ Top(x).pc = pc

Same == UNCHANGED <<tree, content, call, before, stdio>>

\* The innermost call goes on elsewhere, as frame f.
Becomes(x, f) == stack' = [stack EXCEPT ![x][1] = f] /\ UNCHANGED result

Goto(x, pc) == Becomes(x, [Top(x) EXCEPT !.pc = pc])

\* It makes a call, and goes on at pc when that returns.
Invoke(x, f, pc) ==
    stack' = [stack EXCEPT ![x] = <<f, [Top(x) EXCEPT !.pc = pc]>> \o Tail(@)] /\ UNCHANGED result

Return(x) ==
    /\ stack' = [stack EXCEPT ![x] = Tail(@)]
    /\ result' = IF Len(stack[x]) = 1 THEN [result EXCEPT ![x] = "ok"] ELSE result

Throw(x, error) ==
    /\ stack' = [stack EXCEPT ![x] = <<>>]
    /\ result' = [result EXCEPT ![x] = error]

\* opendir() and readdir_r(): a directory that is not there has no members.
OpenDirectory(x) ==
    /\ Becomes(x, [Top(x) EXCEPT !.pc = "kids", !.kids = Children(tree, Follow(tree, Top(x).p))])
    /\ Same

Running == {x \in Procs : stack[x] # <<>>}

\* An inode number that no file and no open handle has.
Fresh ==
    LET used == {tree[p].ino : p \in DOMAIN tree} \cup {Top(x).in : x \in Running} \cup {Top(x).out : x \in Running}
    IN  CHOOSE i \in Inodes \ used : \A j \in Inodes \ used : i <= j

\* fopen() for writing creates the file or, unless it appends, empties it.
OpenToWrite(x, p, append) ==
    LET f == Follow(tree, p)
        ino == IF f \in DOMAIN tree THEN tree[f].ino ELSE Fresh
        error == CASE Kind(tree, f) = "dir" -> "EISDIR"
                   [] Kind(tree, f) = "link" -> "ELOOP"
                   [] OTHER -> PathError(tree, f)
    IN  /\ \/ error # "ok" /\ Throw(x, "EIO") /\ UNCHANGED <<tree, content>>
           \/ /\ error = "ok"
              /\ tree' = With(tree, f, Node("file", ino, <<>>))
              /\ content' = IF append /\ f \in DOMAIN tree THEN content ELSE [content EXCEPT ![ino] = <<>>]
              /\ Becomes(x, [Top(x) EXCEPT !.pc = "data", !.out = ino])
        /\ UNCHANGED <<call, before, stdio>>

\* What the block in the buffer makes of the content.
Stored(x, append) ==
    LET block == buffer[x][1]
    IN  [content EXCEPT ![Top(x).out] = IF append THEN Append(@, block) ELSE Put(@, Top(x).n - 1, block)]

\* Mutant: an error ends the loop and is not reported.
DataFailsQuietly(x, append) ==
    /\ Return(x)
    /\ content' = content \/ (buffer[x] # <<>> /\ content' = Stored(x, append))
    /\ buffer' = [buffer EXCEPT ![x] = <<>>]
    /\ UNCHANGED <<tree, call, before, unflushed>>

\* fread() or fwrite() fails, and the exception closes the files, which tries
\* once more to store what is in the buffer.
DataFails(x, append) ==
    /\ Throw(x, "EIO")
    /\ content' = content \/ (buffer[x] # <<>> /\ content' = Stored(x, append))
    /\ buffer' = [buffer EXCEPT ![x] = <<>>]
    /\ UNCHANGED <<tree, call, before, unflushed>>

\* fwrite() takes the blocks one by one into a buffer, which is stored before
\* the next one, or by fclose(), and nobody asks if that failed.
WriteBlocks(x, blocks, append) ==
    LET f == Top(x)
        done == f.n >= Len(blocks)
    IN  \/ /\ buffer[x] = <<>> /\ ~done
           /\ buffer' = [buffer EXCEPT ![x] = <<blocks[f.n + 1]>>]
           /\ Becomes(x, [f EXCEPT !.n = f.n + 1])
           /\ UNCHANGED <<tree, content, call, before, unflushed>>
        \/ /\ buffer[x] # <<>>
           /\ content' = Stored(x, append)
           /\ buffer' = [buffer EXCEPT ![x] = <<>>]
           /\ UNCHANGED <<tree, stack, result, call, before, unflushed>>
        \/ (buffer[x] # <<>> \/ ~done) /\ DataFails(x, append)
        \/ /\ buffer[x] # <<>> /\ done /\ Return(x)
           /\ unflushed' = unflushed \cup {x}
           /\ buffer' = [buffer EXCEPT ![x] = <<>>]
           /\ UNCHANGED <<tree, content, call, before>>
        \/ buffer[x] = <<>> /\ done /\ Return(x) /\ Same

-----------------------------------------------------------------------------
(* remove()                                                                *)

RemoveAsks(x) ==
    LET p == Top(x).p
    IN  \/ At(x, "remove", "isdir") /\ Same
           /\ Goto(x, IF Stat(tree, p) = "dir" THEN "islink" ELSE "remove")
        \/ At(x, "remove", "islink") /\ Same
           /\ Goto(x, IF Kind(tree, p) = "link" THEN "remove" ELSE "opendir")
        \/ At(x, "remove", "opendir") /\ OpenDirectory(x)

RemoveChild(x) ==
    /\ At(x, "remove", "kids") /\ Same
    /\ \/ Top(x).kids = {} /\ Goto(x, "remove")
       \/ \E k \in Top(x).kids :
             stack' = [stack EXCEPT ![x] = <<RemoveCall(k, {"recurse"}), [Top(x) EXCEPT !.kids = @ \ {k}]>> \o Tail(@)]
             /\ UNCHANGED result

\* Mutant: a file that is gone already is an error.
RemoveItselfStrict(x) ==
    LET p == Top(x).p
        error == RemoveError(tree, p)
    IN  /\ At(x, "remove", "remove")
        /\ tree' = IF error = "ok" THEN Without(tree, p) ELSE tree
        /\ IF error = "ok" THEN Return(x) ELSE Throw(x, error)
        /\ UNCHANGED <<content, call, before, stdio>>

RemoveItself(x) ==
    LET p == Top(x).p
        error == RemoveError(tree, p)
    IN  /\ At(x, "remove", "remove")
        /\ tree' = IF error = "ok" THEN Without(tree, p) ELSE tree
        /\ IF error \in {"ok", "ENOENT"} THEN Return(x) ELSE Throw(x, error)
        /\ UNCHANGED <<content, call, before, stdio>>

remove(x) == RemoveAsks(x) \/ RemoveChild(x) \/ RemoveItself(x)

-----------------------------------------------------------------------------
(* make_directory() and make_symlink()                                     *)

Mkdir(p) == IF MakeError(tree, p) = "ok" THEN tree' = With(tree, p, Node("dir", Fresh, <<>>)) ELSE UNCHANGED tree

make_directory(x) ==
    LET f == Top(x)
        error == MakeError(tree, f.p)
    IN  /\ \/ /\ At(x, "make_directory", "mkdir") /\ Mkdir(f.p)
              /\ CASE error = "ok" -> Return(x)
                   [] error = "EEXIST" -> Goto(x, "isdir")
                   [] error = "ENOENT" /\ "recurse" \in f.flags /\ f.p # <<>> ->
                          Invoke(x, MakeDirectoryCall(Front(f.p), f.flags), "again")
                   [] OTHER -> Goto(x, "again")
           \/ /\ At(x, "make_directory", "isdir") /\ UNCHANGED tree
              /\ IF Stat(tree, f.p) = "dir" THEN Return(x)
                 ELSE IF "overwrite" \notin f.flags THEN Throw(x, "EEXIST")
                 ELSE Invoke(x, RemoveCall(f.p, {}), "again")
           \/ /\ At(x, "make_directory", "again") /\ Mkdir(f.p)
              /\ IF error = "ok" THEN Return(x) ELSE Throw(x, error)
        /\ UNCHANGED <<content, call, before, stdio>>

\* The link is q, and p what it points to.
make_symlink(x) ==
    LET f == Top(x)
        error == MakeError(tree, f.q)
    IN  /\ \/ At(x, "make_symlink", "islink") /\ UNCHANGED tree
              /\ Goto(x, IF Kind(tree, f.q) = "link" THEN "readlink" ELSE "exists")
           \/ At(x, "make_symlink", "readlink") /\ UNCHANGED tree
              /\ IF ReadLink(tree, f.q) = f.p THEN Return(x) ELSE Goto(x, "exists")
           \/ At(x, "make_symlink", "exists") /\ UNCHANGED tree
              /\ IF "overwrite" \in f.flags /\ Stat(tree, f.q) # "none"
                 THEN Invoke(x, RemoveCall(f.q, f.flags), "symlink")
                 ELSE Goto(x, "symlink")
           \/ /\ At(x, "make_symlink", "symlink")
              /\ tree' = IF error = "ok" THEN With(tree, f.q, Node("link", Fresh, f.p)) ELSE tree
              /\ IF error = "ok" THEN Return(x)
                 ELSE IF "may_copy" \in f.flags THEN Becomes(x, CopyToCall(f.p, f.q, {"recurse"}))
                 ELSE Throw(x, error)
        /\ UNCHANGED <<content, call, before, stdio>>

-----------------------------------------------------------------------------
(* copy_to()                                                               *)

CopyChecks(x) ==
    LET f == Top(x)
    IN  /\ \/ /\ At(x, "copy_to", "exists")
              /\ IF Stat(tree, f.p) = "none" THEN Throw(x, "ENOENT")
                 ELSE IF f.p = f.q THEN Throw(x, "EEXIST") ELSE Goto(x, "id")
           \/ /\ At(x, "copy_to", "id")
              /\ IF Id(tree, f.p) = Id(tree, f.q) THEN Throw(x, "EEXIST") ELSE Goto(x, "flat")
           \/ /\ At(x, "copy_to", "flat")
              /\ IF Stat(tree, f.p) = "dir" /\ "recurse" \notin f.flags THEN Throw(x, "EISDIR") ELSE Goto(x, "dst")
           \/ /\ At(x, "copy_to", "dst")
              /\ IF Stat(tree, f.q) = "none" THEN Goto(x, "islink")
                 ELSE IF "overwrite" \notin f.flags THEN Throw(x, "EEXIST")
                 ELSE Invoke(x, RemoveCall(f.q, {"recurse"}), "islink")
        /\ Same

\* A link is made to where the link points, a directory is made and filled.
CopySpecial(x) ==
    LET f == Top(x)
    IN  /\ \/ At(x, "copy_to", "islink") /\ Goto(x, IF Kind(tree, f.p) = "link" THEN "readlink" ELSE "isdir")
           \/ At(x, "copy_to", "readlink") /\ Becomes(x, MakeSymlinkCall(ReadLink(tree, f.p), f.q, {}))
           \/ /\ At(x, "copy_to", "isdir")
              /\ IF Stat(tree, f.p) = "dir" THEN Invoke(x, MakeDirectoryCall(f.q, {}), "opendir") ELSE Goto(x, "in")
           \/ /\ At(x, "copy_to", "kids")
              /\ \/ f.kids = {} /\ Return(x)
                 \/ \E k \in f.kids :
                       /\ stack' = [stack EXCEPT ![x] = <<CopyToCall(k, Append(f.q, Last(k)), {"recurse"}),
                                                          [f EXCEPT !.kids = @ \ {k}]>> \o Tail(@)]
                       /\ UNCHANGED result
        /\ Same

CopyListing(x) == At(x, "copy_to", "opendir") /\ OpenDirectory(x)

CopyOpens(x) ==
    LET f == Top(x)
    IN  \/ /\ At(x, "copy_to", "in") /\ Same
           /\ IF Stat(tree, f.p) # "file" THEN Throw(x, "ENOENT")
              ELSE Becomes(x, [f EXCEPT !.pc = "out", !.in = Id(tree, f.p)])
        \/ At(x, "copy_to", "out") /\ OpenToWrite(x, f.q, FALSE)

CopyData(x) ==
    /\ At(x, "copy_to", "data")
    /\ WriteBlocks(x, content[Top(x).in], FALSE) \/ DataFails(x, FALSE)

copy_to(x) == CopyChecks(x) \/ CopySpecial(x) \/ CopyListing(x) \/ CopyOpens(x) \/ CopyData(x)

-----------------------------------------------------------------------------
(* move_to()                                                               *)

\* Mutant: replaces a file unasked.
MoveChecksUnasked(x) ==
    LET f == Top(x)
    IN  /\ \/ /\ At(x, "move_to", "exists")
              /\ IF Stat(tree, f.p) = "none" THEN Throw(x, "ENOENT")
                 ELSE IF f.p = f.q THEN Return(x) ELSE Goto(x, "dst")
           \/ /\ At(x, "move_to", "dst")
              /\ IF Stat(tree, f.q) = "none" \/ Id(tree, f.p) = Id(tree, f.q) THEN Goto(x, "rename")
                 ELSE Invoke(x, RemoveCall(f.q, {"recurse"}), "rename")
           \/ At(x, "move_to", "copied") /\ Becomes(x, RemoveCall(f.p, {"recurse"}))
        /\ Same

MoveChecks(x) ==
    LET f == Top(x)
    IN  /\ \/ /\ At(x, "move_to", "exists")
              /\ IF Stat(tree, f.p) = "none" THEN Throw(x, "ENOENT")
                 ELSE IF f.p = f.q THEN Return(x) ELSE Goto(x, "dst")
           \/ /\ At(x, "move_to", "dst")
              /\ IF Stat(tree, f.q) = "none" \/ Id(tree, f.p) = Id(tree, f.q) THEN Goto(x, "rename")
                 ELSE IF "overwrite" \notin f.flags THEN Throw(x, "EEXIST")
                 ELSE Invoke(x, RemoveCall(f.q, {"recurse"}), "rename")
           \/ At(x, "move_to", "copied") /\ Becomes(x, RemoveCall(f.p, {"recurse"}))
        /\ Same

MoveRenames(x) ==
    LET f == Top(x)
        error == RenameError(tree, f.p, f.q)
    IN  /\ At(x, "move_to", "rename")
        /\ tree' = IF error = "ok" THEN Moved(tree, f.p, f.q) ELSE tree
        /\ CASE error = "ok" -> Return(x)
             [] error = "EXDEV" /\ "may_copy" \in f.flags ->
                    Invoke(x, CopyToCall(f.p, f.q, {"recurse"}), "copied")
             [] OTHER -> Throw(x, error)
        /\ UNCHANGED <<content, call, before, stdio>>

move_to(x) == MoveChecks(x) \/ MoveRenames(x)

-----------------------------------------------------------------------------
(* create() and save()                                                     *)

create(x) ==
    /\ At(x, "create", "exists") /\ Same
    /\ IF Stat(tree, Top(x).p) = "none" THEN Becomes(x, SaveCall(Top(x).p, {})) ELSE Return(x)

save(x) ==
    LET f == Top(x)
        blocks == IF call[x].op = "create" THEN <<>> ELSE Saved
    IN  \/ /\ At(x, "save", "check") /\ Same
           /\ IF Stat(tree, f.p) # "none" THEN Throw(x, "EEXIST") ELSE Goto(x, "open")
        \/ At(x, "save", "open") /\ OpenToWrite(x, f.p, "append" \in f.flags)
        \/ At(x, "save", "data") /\ WriteBlocks(x, blocks, "append" \in f.flags)

-----------------------------------------------------------------------------

Init ==
    /\ tree \in Trees
    /\ content = Contents
    /\ call \in Calls
    /\ stack = [x \in Procs |-> IF call[x] = NoCall THEN <<>> ELSE <<call[x]>>]
    /\ result = [x \in Procs |-> IF call[x] = NoCall THEN "none" ELSE "running"]
    /\ before = tree
    /\ buffer = [x \in Procs |-> <<>>]
    /\ unflushed = {}

Step(x) ==
    \/ remove(x) \/ make_directory(x) \/ make_symlink(x) \/ copy_to(x)
    \/ move_to(x) \/ create(x) \/ save(x)

Next == \E x \in Procs : Step(x)

Spec == Init /\ [][Next]_vars

\* A process that is not stopped makes its next system call.
FairSpec == Spec /\ \A x \in Procs : WF_vars(Step(x))

-----------------------------------------------------------------------------

Alone(x) == \A y \in Procs \ {x} : call[y] = NoCall

Ended(x) == result[x] \notin {"none", "running"}

\* What is at a path and below it: what kind of thing, with what in it.
Thing(t, c, r) ==
    [kind |-> t[r].kind, to |-> t[r].to, data |-> IF t[r].kind = "file" THEN c[t[r].ino] ELSE <<>>]

Picture(t, c, p) ==
    LET below == {r \in DOMAIN t : Inside(r, p)}
    IN  {<<SubSeq(r, Len(p) + 1, Len(r)), Thing(t, c, r)>> : r \in below}

Apart(p, q) == ~Inside(p, q) /\ ~Inside(q, p)

\* Only directories have members, and each inode has one name.
TypeOK ==
    /\ \A p \in DOMAIN tree : tree[p].ino \in Inodes
    /\ OwnInodes(tree)
    /\ InDirectories(tree)

\* Wherever move_to() is interrupted, by an error or for good, and even if it
\* has to copy to another device, everything below the source is, whole, at
\* its old place or at its new one; and if it throws, at its old one: it may
\* throw because reading or writing fails.  (That fclose() fails it does not
\* know, and nothing is promised.)
MoveNeverLoses ==
    \A x \in Procs : LET p == call[x].p q == call[x].q IN
        call[x].op = "move_to" /\ Alone(x) /\ Apart(p, q) /\ x \notin unflushed =>
            LET old == Picture(before, Contents, p)
            IN  /\ \A thing \in old : thing[2].kind = "dir"
                                      \/ thing \in Picture(tree, content, p) \cup Picture(tree, content, q)
                /\ result[x] = "ok" => Picture(tree, content, q) = old /\ p \notin DOMAIN tree
                /\ result[x] \notin {"ok", "running"} => Picture(tree, content, p) = old

\* docs/path.md: move_to() deletes the original after it has copied it, and
\* leaves two copies if it fails in between.  The copy may be short, as what
\* is in the buffer is stored by an fclose() of which the result is dropped.
MoveKeepsData ==
    \A x \in Procs : LET p == call[x].p q == call[x].q IN
        call[x].op = "move_to" /\ Alone(x) /\ Apart(p, q) /\ result[x] = "ok" =>
            Picture(tree, content, q) = Picture(before, Contents, p)

\* copy_to() never changes the source, and if it returns, though reading or
\* writing might have failed, the destination is the same down to the last
\* file, unless an fclose() failed that it does not ask.  (A file is copied to
\* where a link at the destination leads if nothing is there.)
CopyIsExact ==
    \A x \in Procs : LET p == call[x].p q == call[x].q IN
        call[x].op = "copy_to" /\ Alone(x) /\ Apart(p, q) =>
            /\ Picture(tree, content, p) = Picture(before, Contents, p)
            /\ result[x] = "ok" /\ x \notin unflushed =>
                  Picture(tree, content, IF Id(before, q) = 0 THEN Follow(before, q) ELSE q) = Picture(before, Contents, p)

\* No function replaces, empties or removes an existing file unless it was
\* told to: not in a call that it makes itself either.  (Except that move_to()
\* takes for no file a destination with the id() of the source, as when one is
\* a link to the other, and a link that leads nowhere.)
NoClobber ==
    \A x \in Procs : LET f == call[x] IN
        Alone(x) /\ f.flags \cap {"overwrite", "append"} = {} /\ f.op \notin {"none", "remove"} =>
            \A r \in DOMAIN before :
                (f.op = "move_to" => ~Inside(r, f.p) /\ (r = f.q => Id(before, r) \notin {0, Id(before, f.p)})) =>
                    r \in DOMAIN tree /\ Thing(tree, content, r) = Thing(before, Contents, r)

\* Processes that remove the same or nested trees at the same time do not
\* make each other fail, leave nothing, and remove nothing else: not what a
\* link in the tree points to.
RemoversAgree ==
    (/\ \E x \in Procs : call[x] # NoCall
     /\ \A x \in Procs : \/ call[x] = NoCall
                         \/ /\ call[x].op = "remove" /\ "recurse" \in call[x].flags
                            /\ PathError(before, call[x].p) \in {"ok", "ENOENT"}) =>
        /\ \A x \in Procs : result[x] \in {"none", "running", "ok"}
        /\ \A x \in Procs : result[x] = "ok" => call[x].p \notin DOMAIN tree
        /\ \A r \in DOMAIN before : (\A x \in Procs : call[x] = NoCall \/ ~Inside(r, call[x].p)) => r \in DOMAIN tree

\* When a process has made a directory there is one, and it fails only where
\* a file is in the way, or another process made the directory or a parent.
MakersAgree ==
    (\A x \in Procs : call[x] = NoCall \/ (call[x].op = "make_directory" /\ "overwrite" \notin call[x].flags)) =>
        \A x \in Procs : Ended(x) /\ "recurse" \in call[x].flags =>
            LET p == call[x].p
                parents == {SubSeq(p, 1, k) : k \in 1..Len(p)}
            IN  IF result[x] = "ok" THEN Stat(tree, p) = "dir"
                ELSE \/ Len(p) \notin 1..MaxDepth
                     \/ \E r \in parents : Kind(before, r) \in {"file", "link"}
                     \/ ~Alone(x) /\ \E r \in parents : Kind(before, r) = "none" /\ Kind(tree, r) = "dir"

\* Processes that append to a file at the same time, by its name or through
\* a link, keep what was in it, also if they fail, and the file has all the
\* data of those that return, unless an fclose() failed that they do not ask.
AppendersKeep ==
    \A p \in {call[x].p : x \in Procs} :
        (\A x \in Procs : call[x] = NoCall \/ (call[x].op = "save" /\ call[x].flags = {"append"} /\ call[x].p = p)) =>
            LET f == Follow(before, p)
                old == IF Kind(before, f) = "file" THEN Contents[before[f].ino] ELSE <<>>
                now == IF Kind(tree, f) = "file" THEN content[tree[f].ino] ELSE <<>>
                added == SubSeq(now, Len(old) + 1, Len(now))
            IN  /\ IsPrefix(old, now)
                /\ \A b \in Range(Saved) : Cardinality({i \in 1..Len(added) : added[i] = b}) >=
                                               Cardinality({x \in Procs \ unflushed : result[x] = "ok"})

\* Every call ends, whatever other processes do to its files.
CallsEnd == \A x \in Procs : <>(stack[x] = <<>>)

\* Copies are exact, and nothing is overwritten without being asked for.
CopyFaithful == CopyIsExact /\ NoClobber

\* Processes that do the same thing at the same time do not harm each other,
\* and leave a tree of files.
PeersAgree == TypeOK /\ RemoversAgree /\ MakersAgree /\ AppendersKeep
=============================================================================
