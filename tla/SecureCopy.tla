------------------------------ MODULE SecureCopy ------------------------------
(***************************************************************************)
(* secure_client and secure_server of Assignment2: a client writes one     *)
(* frame - a header, a name, a ciphertext - to a pipe or a connection, and *)
(* a server reads it, checks it, and saves the plaintext under the name.   *)
(* Several copies run at a time and save into one directory.               *)
(*                                                                         *)
(* Cryptography is symbolic: a ciphertext is its key, its IV and its       *)
(* plaintext; an HMAC is what it was made of.  Both keys derive from the   *)
(* key file, which stands for them.                                        *)
(***************************************************************************)
EXTENDS SaveFile, FiniteSets

CONSTANTS
  Keys,          \* key files of 16 bytes and more
  ShortKey,      \* one that is shorter, or is not there
  Names,         \* what REMOTE_OUTPUT_NAME may be
  NameLen,       \* its length
  Slashed,       \* the names with '/'
  Dotted,        \* the names with ".."
  Noise,         \* what comes out of a wrong decryption
  SC_MAX_NAME, SC_MAX_CIPHERTEXT, INT_MAX,
  Block,         \* the cipher's block, 16 in the code
  EVP_MAX_BLOCK_LENGTH,  \* 32 there
  MaxRuns,       \* bound on the clients started
  MaxFaults      \* bound on failures, kills and parts altered on the way

ASSUME SecureCopyAssumption ==
  /\ ShortKey \notin Keys
  /\ NameLen \in [Names -> Nat]
  /\ Paths = Names
  /\ Slashed \subseteq Names /\ Dotted \subseteq Names
  /\ Noise \in Data
  /\ {SC_MAX_NAME, SC_MAX_CIPHERTEXT, INT_MAX, MaxRuns, MaxFaults} \subseteq Nat
  /\ Block \in Nat \ {0} /\ EVP_MAX_BLOCK_LENGTH \in Nat
  /\ SC_MAX_CIPHERTEXT <= INT_MAX

VARIABLES
  client,  \* a client of each copy
  pipe,    \* the frame it made, and whether all of it is written
  server,  \* a server of each copy
  runs,    \* how many clients were started
  faults,  \* how much went wrong
  made     \* history: the frames that clients made

vars == <<named, tmp, inodes, save, client, pipe, server, runs, faults, made>>

Inputs == Data \ {Noise}

\* The padding is never empty.
CipherLen(d) == (Size[d] \div Block + 1) * Block

SC_MAGIC == "NSC1"

NoFrame == [magic |-> "none", nameLen |-> 0, cipherLen |-> 0, iv |-> 0,
            mac |-> NoData, name |-> NoData, cipher |-> NoData]

\* what the HMAC covers: the header but for the HMAC itself, name, ciphertext
Covered(f) == [magic |-> f.magic, nameLen |-> f.nameLen, cipherLen |-> f.cipherLen,
               iv |-> f.iv, name |-> f.name, cipher |-> f.cipher]

\* A faulty frame: the HMAC leaves the IV out.
LeavesIVOut(key, f) == [key |-> key, of |-> [Covered(f) EXCEPT !.iv = 0]]

build_hmac(key, f) == [key |-> key, of |-> Covered(f)]

Cipher(key, iv, d) == [key |-> key, iv |-> iv, data |-> d, state |-> "intact"]

Frame(key, name, d) ==
  LET bare == [magic |-> SC_MAGIC, nameLen |-> NameLen[name], cipherLen |-> CipherLen(d),
               iv |-> 0, mac |-> NoData, name |-> name, cipher |-> Cipher(key, 0, d)]
  IN  [bare EXCEPT !.mac = build_hmac(key, bare)]

Init ==
  /\ SaveInit
  /\ client = [c \in Savers |-> "down"]
  /\ pipe = [c \in Savers |-> [frame |-> NoFrame, rest |-> "to come"]]
  /\ server = [c \in Savers |-> [pc |-> "down", key |-> ShortKey, pid |-> NoData]]
  /\ runs = 0
  /\ faults = 0
  /\ made = {}

Fault == faults < MaxFaults /\ faults' = faults + 1
-----------------------------------------------------------------------------
(* The client.  What it does before it writes is seen by nobody.           *)

Accepts(name) == NameLen[name] \in 1 .. SC_MAX_NAME /\ name \notin Slashed

load_key_material(key) == key \in Keys

Prepares(key, d) == load_key_material(key) /\ Size[d] <= INT_MAX - EVP_MAX_BLOCK_LENGTH

\* -corrupt_data: the ciphertext is changed after the HMAC is made
Corrupted(f) == [f EXCEPT !.cipher.state = "altered"]

\* A copy begins when both ends of the one before are gone.
Ended(c) == client[c] \in {"down", "done", "failed"} /\ server[c].pc \in {"down", "ended"}

secure_client(c, key, name, d, corrupt) ==
  /\ Ended(c) /\ runs < MaxRuns
  /\ runs' = runs + 1
  /\ \/ /\ Accepts(name) /\ Prepares(key, d)
        /\ LET f == Frame(key, name, d)
           IN  pipe' = [pipe EXCEPT ![c] = [frame |-> IF corrupt THEN Corrupted(f) ELSE f,
                                            rest |-> "to come"]]
        /\ made' = made \cup {[key |-> key, name |-> name, data |-> d]}
        /\ client' = [client EXCEPT ![c] = "writing"]
     \/ /\ ~(Accepts(name) /\ Prepares(key, d))
        /\ pipe' = [pipe EXCEPT ![c] = [frame |-> NoFrame, rest |-> "to come"]]
        /\ client' = [client EXCEPT ![c] = "failed"]
        /\ UNCHANGED made
  /\ server' = [server EXCEPT ![c].pc = "down"]
  /\ save' = [save EXCEPT ![c] = NotSaving]
  /\ UNCHANGED <<named, tmp, inodes, faults>>

\* Header, name and ciphertext, one write_all_fd each.  The pipe has one reader,
\* who waits: how far it is meanwhile makes no difference.
write_frame(c) ==
  /\ client[c] = "writing"
  /\ pipe' = [pipe EXCEPT ![c].rest = "written"]
  /\ client' = [client EXCEPT ![c] = "done"]
  /\ UNCHANGED <<savevars, server, runs, faults, made>>

\* A write fails, the program is killed, the network breaks: some part is not
\* complete.  So it is, with no fault, when the server has gone (SIGPIPE).
client_fails(c) ==
  /\ client[c] = "writing"
  /\ Fault \/ (server[c].pc = "ended" /\ UNCHANGED faults)
  /\ client' = [client EXCEPT ![c] = "failed"]
  /\ UNCHANGED <<savevars, pipe, server, runs, made>>

\* A part changes on its way: before it is read, so that it may as well be
\* before the server starts.  A frame that is not whole is refused anyway.
Altered(f) ==
  {[f EXCEPT !.magic = "none"], [f EXCEPT !.iv = 1], [f EXCEPT !.mac.key = ShortKey],
   [f EXCEPT !.cipher.state = "altered"]}
  \cup {[f EXCEPT !.name = n] : n \in {m \in Names : NameLen[m] = f.nameLen}}
  \cup {[f EXCEPT !.nameLen = n] : n \in {0, SC_MAX_NAME, SC_MAX_NAME + 1}}
  \cup {[f EXCEPT !.cipherLen = n] :
           n \in {0, f.cipherLen - 1, SC_MAX_CIPHERTEXT, SC_MAX_CIPHERTEXT + 1} \cap Nat}

alter(c) ==
  /\ pipe[c].rest = "written" /\ server[c].pc = "down" /\ Fault
  /\ \E f \in Altered(pipe[c].frame) \ {pipe[c].frame} : pipe' = [pipe EXCEPT ![c].frame = f]
  /\ UNCHANGED <<savevars, client, server, runs, made>>
-----------------------------------------------------------------------------
(* The server.                                                             *)

Running(c) == server[c].pc \notin {"down", "ended"}

\* its start, with a process number nobody else has now
secure_server(c, key, pid) ==
  /\ client[c] # "down" /\ server[c].pc = "down"
  /\ \A other \in Savers : Running(other) => server[other].pid # pid
  /\ server' = [server EXCEPT ![c] =
       [pc |-> IF load_key_material(key) THEN "reading" ELSE "ended", key |-> key, pid |-> pid]]
  /\ UNCHANGED <<savevars, client, pipe, runs, faults, made>>

\* A faulty server: it refuses a ciphertext of just the greatest length.
OneTooFew(f) ==
  /\ f.magic = SC_MAGIC
  /\ f.nameLen \in 1 .. SC_MAX_NAME
  /\ f.cipherLen > 0 /\ f.cipherLen < SC_MAX_CIPHERTEXT /\ f.cipherLen <= INT_MAX

LawfulHeader(f) ==
  /\ f.magic = SC_MAGIC
  /\ f.nameLen \in 1 .. SC_MAX_NAME
  /\ f.cipherLen > 0 /\ f.cipherLen <= SC_MAX_CIPHERTEXT /\ f.cipherLen <= INT_MAX

\* The lengths of the header say where the bytes behind it are cut: cut
\* elsewhere the name is some other and the ciphertext is none, or the bytes do
\* not suffice.
FrameLen(f) == NameLen[f.name] + CipherLen(f.cipher.data)
CutRight(f) == f.nameLen = NameLen[f.name] /\ f.cipherLen = CipherLen(f.cipher.data)

Received(p) ==
  IF p.rest = "to come" \/ ~LawfulHeader(p.frame) THEN {}
  ELSE IF CutRight(p.frame) THEN {p.frame}
  ELSE IF p.frame.nameLen + p.frame.cipherLen <= FrameLen(p.frame)
       THEN {[p.frame EXCEPT !.name = n, !.cipher.state = "altered"] : n \in Names}
       ELSE {}

Authentic(key, f) == f.mac = build_hmac(key, f)

\* aes_256_cbc_decrypt: with another key or IV, or of an altered ciphertext, it
\* fails by the padding or gives some noise
Decrypted(key, iv, cipher) ==
  IF cipher.state = "intact" /\ cipher.key = key /\ cipher.iv = iv THEN {cipher.data}
  ELSE {Noise, NoData}

safe_output_path(name) == name \notin Slashed /\ name \notin Dotted

\* main up to its call of save_file_atomic: nobody sees its steps.  It reads on
\* until it has all or the writer has gone.
serve(c) ==
  /\ server[c].pc = "reading"
  /\ \E f \in Received(pipe[c]) :
       /\ Authentic(server[c].key, f) /\ safe_output_path(f.name)
       /\ \E d \in Decrypted(server[c].key, f.iv, f.cipher) \ {NoData} :
            save_file_atomic(c, server[c].pid, f.name, d)
  /\ server' = [server EXCEPT ![c].pc = "saving"]
  /\ UNCHANGED <<named, tmp, inodes, client, pipe, runs, faults, made>>

\* An unlawful header it refuses at once.
refuse(c) ==
  /\ server[c].pc = "reading"
  /\ client[c] = "writing" => ~LawfulHeader(pipe[c].frame)
  /\ Received(pipe[c]) # {} =>
       \E f \in Received(pipe[c]) :
         Authentic(server[c].key, f) /\ safe_output_path(f.name) =>
           NoData \in Decrypted(server[c].key, f.iv, f.cipher)
  /\ server' = [server EXCEPT ![c].pc = "ended"]
  /\ UNCHANGED <<savevars, client, pipe, runs, faults, made>>

\* main ends where save_file_atomic returns
returns(c) == server' = IF save'[c].stage \in {"saved", "failed"}
                        THEN [server EXCEPT ![c].pc = "ended"] ELSE server

save_step(c) ==
  /\ SaveStep(c) /\ returns(c)
  /\ UNCHANGED <<client, pipe, runs, faults, made>>

save_fails(c) ==
  /\ SaveFault(c) /\ Fault /\ returns(c)
  /\ UNCHANGED <<client, pipe, runs, made>>

\* A signal ends it; its temporary stays.
kill_server(c) ==
  /\ Running(c) /\ Fault
  /\ server' = [server EXCEPT ![c].pc = "ended"]
  /\ save' = IF Saving(c) THEN [save EXCEPT ![c].stage = "failed"] ELSE save
  /\ UNCHANGED <<named, tmp, inodes, client, pipe, runs, made>>

Next == \E c \in Savers :
  \/ \E key \in Keys \cup {ShortKey}, name \in Names, d \in Inputs, corrupt \in BOOLEAN :
       secure_client(c, key, name, d, corrupt)
  \/ write_frame(c) \/ client_fails(c) \/ alter(c)
  \/ \E key \in Keys \cup {ShortKey}, pid \in Pids : secure_server(c, key, pid)
  \/ serve(c) \/ refuse(c) \/ save_step(c) \/ save_fails(c) \/ kill_server(c)

Spec == Init /\ [][Next]_vars
-----------------------------------------------------------------------------
Made    == [key : Keys, name : Names, data : Data]
Ciphers == [key : Keys, iv : {0}, data : Data, state : {"intact", "altered"}]
Covers  == [magic : {SC_MAGIC, "none"}, nameLen : Nat, cipherLen : Nat, iv : {0, 1},
            name : Names, cipher : Ciphers]
Macs    == [key : Keys \cup {ShortKey}, of : Covers]
Frames  == [magic : {SC_MAGIC, "none"}, nameLen : Nat, cipherLen : Nat, iv : {0, 1},
            mac : Macs, name : Names, cipher : Ciphers]
Servers == [pc : {"down", "reading", "saving", "ended"}, key : Keys \cup {ShortKey},
            pid : Pids \cup {NoData}]

TypeOK ==
  /\ SaveTypeOK
  /\ client \in [Savers -> {"down", "writing", "done", "failed"}]
  /\ pipe \in [Savers -> [frame : Frames \cup {NoFrame}, rest : {"to come", "written"}]]
  /\ server \in [Savers -> Servers]
  /\ runs \in 0 .. MaxRuns
  /\ faults \in 0 .. MaxFaults
  /\ made \subseteq Made
  /\ \A c \in Savers :
       /\ client[c] = "writing" \/ pipe[c].rest = "written" => pipe[c].frame \in Frames
       /\ Running(c) => server[c].pid \in Pids /\ server[c].key \in Keys
       /\ Saving(c) => server[c].pc = "saving" /\ save[c].pid = server[c].pid

\* Whatever is in the directory is all of what a client put into a frame under
\* that name, and what a server is about to save was put there with its own
\* key: after cuts, corruption, altered lengths and lost halves ("atomically
\* writes the output file only after authentication succeeds", README.md:53).
OutputAuthentic ==
  /\ \A path \in Paths : named[path] # NoInode =>
       \E m \in made : m.name = path /\ inodes[named[path]] = Whole(m.data)
  /\ \A c \in Savers : server[c].pc = "saving" =>
       [key |-> server[c].key, name |-> save[c].path, data |-> save[c].data] \in made

\* Servers that are killed, share a path, or get the process number of one that
\* was killed and left its temporary behind: a path changes from one whole file
\* to the next in one step, that of the one server that then says so.
AtomicSpec == Atomic!ASpec

\* A client and a server with one key understand each other up to the last
\* byte: a frame that was written whole is saved unless something failed, its
\* name has ".." in it, or it is longer than the server takes.  The client knows
\* neither of these two limits.
FrameTaken ==
  \A c \in Savers :
    /\ server[c].pc = "ended" /\ client[c] = "done" /\ faults = 0
    /\ pipe[c].frame.mac = build_hmac(server[c].key, pipe[c].frame)
    /\ pipe[c].frame.name \notin Dotted
    /\ CipherLen(pipe[c].frame.cipher.data) <= SC_MAX_CIPHERTEXT
    => InStage(c, "saved")
=============================================================================
