--------------------------- MODULE CgroupHeadroom ---------------------------
(***************************************************************************)
(* _cgroup_memory of mlx_spark/runtime/doctor.py: from /proc/self/cgroup   *)
(* and /proc/self/mountinfo it chooses a hierarchy, a mount and the levels *)
(* between the mount and the process's group, and reads limit and usage of *)
(* each, one file after the other, while other processes use memory.       *)
(*                                                                         *)
(* A group is the sequence of names on its path from the root of the real  *)
(* hierarchy.  What the two files show is relative to the root of the      *)
(* cgroup namespace, as the kernel prints it: a group outside it starts    *)
(* with "..".  Limits stay as they are during a probe, usage does not.     *)
(***************************************************************************)
EXTENDS Integers, Sequences, FiniteSetsExt, SequencesExt

CONSTANTS Group,      \* groups, closed under parents
          Hosts,      \* how the process may find itself placed
          Limit,      \* finite limits
          Unlimited,  \* "max", or the v1 sentinel
          MaxUsage,   \* bound on usage
          Missing, Garbled,  \* a file that cannot be read, or holds no number
          None        \* no membership line

Version == {1, 2}

\* The names of directories; ".." is none.
Name == UNION {Range(g) : g \in Group}
ASSUME GroupAssumption ==
  /\ <<>> \in Group /\ Group \subseteq Seq(Name) /\ ".." \notin Name
  /\ \A g \in Group : \A n \in 0..Len(g) : SubSeq(g, 1, n) \in Group

\* attached: the version the memory controller is attached to; home and root:
\* the process's group and the namespace root in each hierarchy; mounts: the
\* mounts of cgroup2 and of the v1 memory hierarchy, with the directory mounted.
ASSUME HostAssumption ==
  \A h \in Hosts :
    /\ h.attached \in Version /\ h.home[h.attached] # None
    /\ \A v \in Version : h.home[v] \in Group \cup {None} /\ h.root[v] \in Group
    /\ h.mounts \in Seq([version : Version, dir : Group])
    \* a v1 membership is only a candidate when the controller is attached there
    /\ h.attached = 2 => h.home[1] = None
ASSUME ValueAssumption == /\ Limit \subseteq Nat /\ MaxUsage \in Nat
                          /\ None \notin Group
                          /\ {Unlimited, Missing, Garbled, None} \cap Nat = {}
                          /\ Unlimited \notin {Missing, Garbled, None}
                          /\ Missing \notin {Garbled, None} /\ Garbled # None

VARIABLES host,     \* the placement of the process
          limit,    \* memory.max or memory.limit_in_bytes of a group
          usage,    \* memory.current or memory.usage_in_bytes
          most, least,  \* extremes of a group's headroom since the probe began (history)
          phase,    \* next step: "resolve", "limit", "usage" or "done"
          version,  \* of the context, None when not resolved
          levels,   \* the groups behind the paths that are read
          at,       \* reading levels[at]
          text,     \* limit_text
          finite,   \* headrooms of the finite levels
          skipped,  \* levels without either file (history)
          status    \* "ok", "unknown" or "unavailable" when done

groups == <<host, limit, usage, most, least>>
vars == <<groups, phase, version, levels, at, text, finite, skipped, status>>

UnclampedHeadroom(l, u) == l - u
Headroom(l, u) == IF l > u THEN l - u ELSE 0
\* What a group has left, stated of the group and not of what was read.
Left(g, u) == IF limit[g] > u THEN limit[g] - u ELSE 0
Finite == {g \in Group : limit[g] # Unlimited}
Ancestors(g) == {SubSeq(g, 1, n) : n \in 0..Len(g)}

Init == /\ host \in Hosts
        /\ limit \in [Group -> Limit \cup {Unlimited}] /\ limit[<<>>] = Unlimited
        /\ usage \in [Group -> 0..MaxUsage] /\ \A g \in Group \ Finite : usage[g] = 0
        /\ most = [g \in Group |-> IF limit[g] = Unlimited THEN 0 ELSE Left(g, usage[g])]
        /\ least = most
        /\ phase = "resolve" /\ version = None /\ levels = <<>> /\ at = 1
        /\ text = None /\ finite = {} /\ skipped = {} /\ status = "unknown"

(***************************************************************************)
(* _resolve_cgroup_context                                                 *)
(***************************************************************************)
Shown(root, g) == IF IsPrefix(root, g) THEN SubSeq(g, Len(root) + 1, Len(g)) ELSE <<"..">> \o g
Resolvable(path) == ".." \notin Range(path)      \* _path_parts is not None
Member(v) == Shown(host.root[v], host.home[v])
MountRoot(i) == Shown(host.root[host.mounts[i].version], host.mounts[i].dir)

Matches(v, i) == /\ host.mounts[i].version = v /\ host.home[v] # None
                 /\ Resolvable(Member(v)) /\ Resolvable(MountRoot(i))
                 /\ Member(v) = <<>> \/ IsPrefix(MountRoot(i), Member(v))
WholeMember(v, i) == Member(v)
Relative(v, i) == IF Member(v) = <<>> THEN <<>>
                  ELSE SubSeq(Member(v), Len(MountRoot(i)) + 1, Len(Member(v)))

V2First == <<2, 1>>
Preference == <<1, 2>>
Candidates == {c \in (1..2) \X DOMAIN host.mounts : Matches(Preference[c[1]], c[2])}
Chosen == CHOOSE c \in Candidates : \A d \in Candidates : c[1] < d[1] \/ (c[1] = d[1] /\ c[2] <= d[2])

\* mount_point / relative_parts[0] / ...: each level is a directory of the mount.
Levels(v, i) == LET parts == Relative(v, i) IN
  [n \in 1..Len(parts) + 1 |-> host.mounts[i].dir \o SubSeq(parts, 1, n - 1)]

Finish(s) == phase' = "done" /\ status' = s

Unreadable == /\ phase = "resolve" /\ Finish("unavailable")
              /\ UNCHANGED <<groups, version, levels, at, text, finite, skipped>>
Resolve == /\ phase = "resolve"
           /\ IF Candidates = {} THEN Finish("unknown") /\ UNCHANGED <<version, levels>>
              ELSE /\ version' = Preference[Chosen[1]]
                   /\ levels' = Levels(Preference[Chosen[1]], Chosen[2])
                   /\ phase' = "limit" /\ UNCHANGED status
           /\ UNCHANGED <<groups, at, text, finite, skipped>>

(***************************************************************************)
(* _cgroup_memory_from_hierarchy.  A file may be missing or hold something *)
(* that is not a number; a hierarchy without the controller has no files.  *)
(***************************************************************************)
Texts(value) == IF version = host.attached THEN {Missing, Garbled, value} ELSE {Missing}

ReadLimit == /\ phase = "limit"
             /\ \E t \in Texts(limit[levels[at]]) : text' = t
             /\ phase' = "usage"
             /\ UNCHANGED <<groups, version, levels, at, finite, skipped, status>>

NextLevelPastEnd == IF at > Len(levels) THEN Finish("ok") /\ UNCHANGED at
                    ELSE at' = at + 1 /\ phase' = "limit" /\ UNCHANGED status
NextLevel == IF at = Len(levels) THEN Finish("ok") /\ UNCHANGED at
             ELSE at' = at + 1 /\ phase' = "limit" /\ UNCHANGED status

ReadUsage ==
  /\ phase = "usage"
  /\ \E u \in Texts(usage[levels[at]]) :
       \/ /\ text = Missing /\ u = Missing
          /\ skipped' = skipped \cup {levels[at]}
          /\ NextLevel /\ UNCHANGED finite
       \/ /\ text = Unlimited
          /\ NextLevel /\ UNCHANGED <<finite, skipped>>
       \/ /\ text \notin {Missing, Garbled, Unlimited} /\ u \notin {Missing, Garbled}
          /\ finite' = finite \cup {Headroom(text, u)}
          /\ NextLevel /\ UNCHANGED skipped
       \/ /\ \/ text = Missing /\ u # Missing
             \/ text = Garbled
             \/ text # Unlimited /\ text # Missing /\ u \in {Missing, Garbled}
          /\ Finish("unknown") /\ UNCHANGED <<at, finite, skipped>>
  /\ text' = None
  /\ UNCHANGED <<groups, version, levels>>

\* available_bytes: min(finite, key=headroom)
Loosest == Max(finite)
Available == Min(finite)

(***************************************************************************)
(* Other processes of a group, and this one, take and free memory.         *)
(***************************************************************************)
Use == /\ \E g \in Finite, u \in 0..MaxUsage :
            /\ usage' = [usage EXCEPT ![g] = u]
            /\ most' = [most EXCEPT ![g] = Max({@, Left(g, u)})]
            /\ least' = [least EXCEPT ![g] = Min({@, Left(g, u)})]
       /\ UNCHANGED <<host, limit, phase, version, levels, at, text, finite, skipped, status>>

Next == phase # "done" /\ (Unreadable \/ Resolve \/ ReadLimit \/ ReadUsage \/ Use)

Spec == Init /\ [][Next]_vars

-----------------------------------------------------------------------------
\* Where the probe is in its walk over the levels.
TypeOK ==
  /\ host \in Hosts /\ limit \in [Group -> Limit \cup {Unlimited}]
  /\ usage \in [Group -> 0..MaxUsage]
  /\ version \in Version \cup {None}
  /\ phase \in {"limit", "usage"} => version # None /\ at \in DOMAIN levels
  /\ phase = "usage" <=> text # None
  /\ finite \subseteq Nat /\ skipped \subseteq Range(levels)
  /\ status \in {"ok", "unknown", "unavailable"}

Home == host.home[host.attached]
\* A mount of the controller's hierarchy that shows the process's group.
Visible == \E i \in DOMAIN host.mounts :
  LET m == host.mounts[i] r == host.root[host.attached] IN
  m.version = host.attached /\ IsPrefix(r, Home) /\ IsPrefix(r, m.dir) /\ IsPrefix(m.dir, Home)

\* The membership reads "/" and a mount shows a group below: line 184 of doctor.py
\* takes any mount for one of the process's own group, and may read the limits of
\* a group that does not hold the process.  The three properties below claim
\* nothing of such a placement.
MountedBelow ==
  \E i \in DOMAIN host.mounts : LET m == host.mounts[i] IN
    /\ m.version = host.attached /\ Home = host.root[m.version]
    /\ IsStrictPrefix(Home, m.dir)

\* The paths that are read in the controller's hierarchy are the process's own
\* group and every group above it up to the directory that is mounted, and no
\* other, unless a mount of a group below is taken for its own (MountedBelow):
\* constraint_scope is "current_cgroup_or_ancestor".
LevelsGovern ==
  levels # <<>> /\ version = host.attached /\ ~MountedBelow =>
    Range(levels) = {g \in Ancestors(Home) : IsPrefix(levels[1], g)} /\ levels[1] \in Ancestors(Home)

\* On a hybrid host the hierarchy that the memory controller is attached to is
\* the one that is read, whenever a mount shows the process's group in it.
ControllerIsChosen ==
  phase # "resolve" /\ status # "unavailable" /\ Visible => version = host.attached

\* The answer overstates no level: for every limit on the way to the mounted
\* directory there was an instant during the probe when at least the reported
\* headroom was left below it, although usage moves between the reads.  Of a
\* level that showed neither file it claims nothing: the loop goes on without it.
NoLevelOverstated ==
  phase = "done" /\ status = "ok" /\ version = host.attached /\ ~MountedBelow =>
    \A g \in Finite \cap Ancestors(Home) :
      IsPrefix(levels[1], g) /\ g \notin skipped => finite # {} /\ Available <= most[g]

\* The answer is not made up: a finite headroom lies between the extremes of a
\* group that does constrain the process (unless MountedBelow).
AvailableIsReal ==
  phase = "done" /\ status = "ok" /\ finite # {} /\ ~MountedBelow =>
    \E g \in Finite \cap Ancestors(Home) : least[g] <= Available /\ Available <= most[g]

\* The comment of doctor.py, lines 169 to 172: a finite v1 limit is not mistaken
\* for an unbounded v2 hierarchy with no memory controller files.
FiniteV1LimitNotMistaken ==
  ~ /\ phase = "done" /\ status = "ok" /\ finite = {}
    /\ host.attached = 1 /\ version = 2
    /\ Finite \cap Ancestors(Home) # {}
=============================================================================
