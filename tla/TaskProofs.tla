----------------------------- MODULE TaskProofs -----------------------------
(***************************************************************************)
(* Proofs about scheduled tasks on Linux and who reads them meanwhile      *)
(* (TaskLookup over SystemdTasks), for any number of registrations and     *)
(* reboots, whichever steps may fail, with and without torn writes.        *)
(***************************************************************************)
EXTENDS TaskLookup, SequenceTheorems, TLAPS

-----------------------------------------------------------------------------
(* Joining short sequences.                                                *)

\* Two sequences joined are the one that has their elements.
LEMMA Join ==
    ASSUME NEW S, NEW s \in Seq(S), NEW t \in Seq(S), NEW u \in Seq(S),
           Len(u) = Len(s) + Len(t),
           \A i \in 1..Len(u) : u[i] = IF i <= Len(s) THEN s[i] ELSE t[i - Len(s)]
    PROVE  s \o t = u
<1> DEFINE v == s \o t
<1>1. /\ v \in Seq(S) /\ Len(v) = Len(s) + Len(t)
      /\ \A i \in 1..Len(s) + Len(t) : v[i] = IF i <= Len(s) THEN s[i] ELSE t[i - Len(s)]
  BY ConcatProperties
<1> HIDE DEF v
<1>2. v = u
  BY <1>1, SeqEqual
<1> QED BY <1>2 DEF v

LEMMA Cat11 ==
    ASSUME NEW a, NEW b
    PROVE  <<a>> \o <<b>> = <<a, b>>
<1> DEFINE S == {a, b}
<1> DEFINE s == <<a>>
<1> DEFINE t == <<b>>
<1> DEFINE u == <<a, b>>
<1>1. s \in Seq(S) /\ t \in Seq(S) /\ u \in Seq(S)
  OBVIOUS
<1>2. Len(u) = Len(s) + Len(t)
  OBVIOUS
<1>3. \A i \in 1..Len(u) : u[i] = IF i <= Len(s) THEN s[i] ELSE t[i - Len(s)]
  OBVIOUS
<1> HIDE DEF S, s, t, u
<1>4. s \o t = u
  BY <1>1, <1>2, <1>3, Join
<1> QED BY <1>4 DEF s, t, u

LEMMA Cat12 ==
    ASSUME NEW a, NEW b, NEW c
    PROVE  <<a>> \o <<b, c>> = <<a, b, c>>
<1> DEFINE S == {a, b, c}
<1> DEFINE s == <<a>>
<1> DEFINE t == <<b, c>>
<1> DEFINE u == <<a, b, c>>
<1>1. s \in Seq(S) /\ t \in Seq(S) /\ u \in Seq(S)
  OBVIOUS
<1>2. Len(u) = Len(s) + Len(t)
  OBVIOUS
<1>3. \A i \in 1..Len(u) : u[i] = IF i <= Len(s) THEN s[i] ELSE t[i - Len(s)]
  OBVIOUS
<1> HIDE DEF S, s, t, u
<1>4. s \o t = u
  BY <1>1, <1>2, <1>3, Join
<1> QED BY <1>4 DEF s, t, u

LEMMA Cat21 ==
    ASSUME NEW a, NEW b, NEW c
    PROVE  <<a, b>> \o <<c>> = <<a, b, c>>
<1> DEFINE S == {a, b, c}
<1> DEFINE s == <<a, b>>
<1> DEFINE t == <<c>>
<1> DEFINE u == <<a, b, c>>
<1>1. s \in Seq(S) /\ t \in Seq(S) /\ u \in Seq(S)
  OBVIOUS
<1>2. Len(u) = Len(s) + Len(t)
  OBVIOUS
<1>3. \A i \in 1..Len(u) : u[i] = IF i <= Len(s) THEN s[i] ELSE t[i - Len(s)]
  OBVIOUS
<1> HIDE DEF S, s, t, u
<1>4. s \o t = u
  BY <1>1, <1>2, <1>3, Join
<1> QED BY <1>4 DEF s, t, u

LEMMA Cat31 ==
    ASSUME NEW a, NEW b, NEW c, NEW d
    PROVE  <<a, b, c>> \o <<d>> = <<a, b, c, d>>
<1> DEFINE S == {a, b, c, d}
<1> DEFINE s == <<a, b, c>>
<1> DEFINE t == <<d>>
<1> DEFINE u == <<a, b, c, d>>
<1>1. s \in Seq(S) /\ t \in Seq(S) /\ u \in Seq(S)
  OBVIOUS
<1>2. Len(u) = Len(s) + Len(t)
  OBVIOUS
<1>3. \A i \in 1..Len(u) : u[i] = IF i <= Len(s) THEN s[i] ELSE t[i - Len(s)]
  OBVIOUS
<1> HIDE DEF S, s, t, u
<1>4. s \o t = u
  BY <1>1, <1>2, <1>3, Join
<1> QED BY <1>4 DEF s, t, u

LEMMA Cat32 ==
    ASSUME NEW a, NEW b, NEW c, NEW d, NEW e
    PROVE  <<a, b, c>> \o <<d, e>> = <<a, b, c, d, e>>
<1> DEFINE S == {a, b, c, d, e}
<1> DEFINE s == <<a, b, c>>
<1> DEFINE t == <<d, e>>
<1> DEFINE u == <<a, b, c, d, e>>
<1>1. s \in Seq(S) /\ t \in Seq(S) /\ u \in Seq(S)
  OBVIOUS
<1>2. Len(u) = Len(s) + Len(t)
  OBVIOUS
<1>3. \A i \in 1..Len(u) : u[i] = IF i <= Len(s) THEN s[i] ELSE t[i - Len(s)]
  OBVIOUS
<1> HIDE DEF S, s, t, u
<1>4. s \o t = u
  BY <1>1, <1>2, <1>3, Join
<1> QED BY <1>4 DEF s, t, u

LEMMA Cat41 ==
    ASSUME NEW a, NEW b, NEW c, NEW d, NEW e
    PROVE  <<a, b, c, d>> \o <<e>> = <<a, b, c, d, e>>
<1> DEFINE S == {a, b, c, d, e}
<1> DEFINE s == <<a, b, c, d>>
<1> DEFINE t == <<e>>
<1> DEFINE u == <<a, b, c, d, e>>
<1>1. s \in Seq(S) /\ t \in Seq(S) /\ u \in Seq(S)
  OBVIOUS
<1>2. Len(u) = Len(s) + Len(t)
  OBVIOUS
<1>3. \A i \in 1..Len(u) : u[i] = IF i <= Len(s) THEN s[i] ELSE t[i - Len(s)]
  OBVIOUS
<1> HIDE DEF S, s, t, u
<1>4. s \o t = u
  BY <1>1, <1>2, <1>3, Join
<1> QED BY <1>4 DEF s, t, u

LEMMA Cat42 ==
    ASSUME NEW a, NEW b, NEW c, NEW d, NEW e, NEW f
    PROVE  <<a, b, c, d>> \o <<e, f>> = <<a, b, c, d, e, f>>
<1> DEFINE S == {a, b, c, d, e, f}
<1> DEFINE s == <<a, b, c, d>>
<1> DEFINE t == <<e, f>>
<1> DEFINE u == <<a, b, c, d, e, f>>
<1>1. s \in Seq(S) /\ t \in Seq(S) /\ u \in Seq(S)
  OBVIOUS
<1>2. Len(u) = Len(s) + Len(t)
  OBVIOUS
<1>3. \A i \in 1..Len(u) : u[i] = IF i <= Len(s) THEN s[i] ELSE t[i - Len(s)]
  OBVIOUS
<1> HIDE DEF S, s, t, u
<1>4. s \o t = u
  BY <1>1, <1>2, <1>3, Join
<1> QED BY <1>4 DEF s, t, u

LEMMA Cat51 ==
    ASSUME NEW a, NEW b, NEW c, NEW d, NEW e, NEW f
    PROVE  <<a, b, c, d, e>> \o <<f>> = <<a, b, c, d, e, f>>
<1> DEFINE S == {a, b, c, d, e, f}
<1> DEFINE s == <<a, b, c, d, e>>
<1> DEFINE t == <<f>>
<1> DEFINE u == <<a, b, c, d, e, f>>
<1>1. s \in Seq(S) /\ t \in Seq(S) /\ u \in Seq(S)
  OBVIOUS
<1>2. Len(u) = Len(s) + Len(t)
  OBVIOUS
<1>3. \A i \in 1..Len(u) : u[i] = IF i <= Len(s) THEN s[i] ELSE t[i - Len(s)]
  OBVIOUS
<1> HIDE DEF S, s, t, u
<1>4. s \o t = u
  BY <1>1, <1>2, <1>3, Join
<1> QED BY <1>4 DEF s, t, u

LEMMA Cat61 ==
    ASSUME NEW a, NEW b, NEW c, NEW d, NEW e, NEW f, NEW g
    PROVE  <<a, b, c, d, e, f>> \o <<g>> = <<a, b, c, d, e, f, g>>
<1> DEFINE S == {a, b, c, d, e, f, g}
<1> DEFINE s == <<a, b, c, d, e, f>>
<1> DEFINE t == <<g>>
<1> DEFINE u == <<a, b, c, d, e, f, g>>
<1>1. s \in Seq(S) /\ t \in Seq(S) /\ u \in Seq(S)
  OBVIOUS
<1>2. Len(u) = Len(s) + Len(t)
  OBVIOUS
<1>3. \A i \in 1..Len(u) : u[i] = IF i <= Len(s) THEN s[i] ELSE t[i - Len(s)]
  OBVIOUS
<1> HIDE DEF S, s, t, u
<1>4. s \o t = u
  BY <1>1, <1>2, <1>3, Join
<1> QED BY <1>4 DEF s, t, u

-----------------------------------------------------------------------------
(* The plans of the operations.                                            *)

\* What register is to do, by its triggers and by whether it finds a timer.
LEMMA RegisterPlans ==
    /\ Owned(disk.tim) =>
         RegisterSteps("demand") =
           <<"stoptimer", "disable", "rmtimer", "writesvc", "reload">>
    /\ Owned(disk.tim) =>
         RegisterSteps("boot") =
           <<"stoptimer", "writesvc", "writetimer", "reload", "enable", "reload">>
    /\ Owned(disk.tim) =>
         RegisterSteps("calendar") =
           <<"stoptimer", "writesvc", "writetimer", "reload", "enable", "reload", "starttimer">>
    /\ ~Owned(disk.tim) =>
         RegisterSteps("demand") =
           <<"writesvc", "reload">>
    /\ ~Owned(disk.tim) =>
         RegisterSteps("boot") =
           <<"writesvc", "writetimer", "reload", "enable", "reload">>
    /\ ~Owned(disk.tim) =>
         RegisterSteps("calendar") =
           <<"writesvc", "writetimer", "reload", "enable", "reload", "starttimer">>
<1>1. ASSUME Owned(disk.tim)
      PROVE  RegisterSteps("demand") =
               <<"stoptimer", "disable", "rmtimer", "writesvc", "reload">>
  <2>1. RegisterSteps("demand") =
          (((((<<"stoptimer">> \o <<"disable", "rmtimer">>) \o <<"writesvc">>) \o <<>>) \o <<"reload">>) \o <<>>) \o <<>>
    BY <1>1 DEF RegisterSteps, RetireTimer, When
  <2>2. <<"stoptimer">> \o <<"disable", "rmtimer">> =
          <<"stoptimer", "disable", "rmtimer">>
    BY Cat12
  <2>3. <<"stoptimer", "disable", "rmtimer">> \o <<"writesvc">> =
          <<"stoptimer", "disable", "rmtimer", "writesvc">>
    BY Cat31
  <2>4. <<"stoptimer", "disable", "rmtimer", "writesvc">> \o <<>> =
          <<"stoptimer", "disable", "rmtimer", "writesvc">>
    OBVIOUS
  <2>5. <<"stoptimer", "disable", "rmtimer", "writesvc">> \o <<"reload">> =
          <<"stoptimer", "disable", "rmtimer", "writesvc", "reload">>
    BY Cat41
  <2>6. <<"stoptimer", "disable", "rmtimer", "writesvc", "reload">> \o <<>> =
          <<"stoptimer", "disable", "rmtimer", "writesvc", "reload">>
    OBVIOUS
  <2> QED BY <2>1, <2>2, <2>3, <2>4, <2>5, <2>6, Zenon
<1>2. ASSUME Owned(disk.tim)
      PROVE  RegisterSteps("boot") =
               <<"stoptimer", "writesvc", "writetimer", "reload", "enable", "reload">>
  <2>1. RegisterSteps("boot") =
          (((((<<"stoptimer">> \o <<>>) \o <<"writesvc">>) \o <<"writetimer">>) \o <<"reload">>) \o <<"enable", "reload">>) \o <<>>
    BY <1>2 DEF RegisterSteps, RetireTimer, When
  <2>2. <<"stoptimer">> \o <<>> =
          <<"stoptimer">>
    OBVIOUS
  <2>3. <<"stoptimer">> \o <<"writesvc">> =
          <<"stoptimer", "writesvc">>
    BY Cat11
  <2>4. <<"stoptimer", "writesvc">> \o <<"writetimer">> =
          <<"stoptimer", "writesvc", "writetimer">>
    BY Cat21
  <2>5. <<"stoptimer", "writesvc", "writetimer">> \o <<"reload">> =
          <<"stoptimer", "writesvc", "writetimer", "reload">>
    BY Cat31
  <2>6. <<"stoptimer", "writesvc", "writetimer", "reload">> \o <<"enable", "reload">> =
          <<"stoptimer", "writesvc", "writetimer", "reload", "enable", "reload">>
    BY Cat42
  <2>7. <<"stoptimer", "writesvc", "writetimer", "reload", "enable", "reload">> \o <<>> =
          <<"stoptimer", "writesvc", "writetimer", "reload", "enable", "reload">>
    OBVIOUS
  <2> QED BY <2>1, <2>2, <2>3, <2>4, <2>5, <2>6, <2>7, Zenon
<1>3. ASSUME Owned(disk.tim)
      PROVE  RegisterSteps("calendar") =
               <<"stoptimer", "writesvc", "writetimer", "reload", "enable", "reload", "starttimer">>
  <2>1. RegisterSteps("calendar") =
          (((((<<"stoptimer">> \o <<>>) \o <<"writesvc">>) \o <<"writetimer">>) \o <<"reload">>) \o <<"enable", "reload">>) \o <<"starttimer">>
    BY <1>3 DEF RegisterSteps, RetireTimer, When
  <2>2. <<"stoptimer">> \o <<>> =
          <<"stoptimer">>
    OBVIOUS
  <2>3. <<"stoptimer">> \o <<"writesvc">> =
          <<"stoptimer", "writesvc">>
    BY Cat11
  <2>4. <<"stoptimer", "writesvc">> \o <<"writetimer">> =
          <<"stoptimer", "writesvc", "writetimer">>
    BY Cat21
  <2>5. <<"stoptimer", "writesvc", "writetimer">> \o <<"reload">> =
          <<"stoptimer", "writesvc", "writetimer", "reload">>
    BY Cat31
  <2>6. <<"stoptimer", "writesvc", "writetimer", "reload">> \o <<"enable", "reload">> =
          <<"stoptimer", "writesvc", "writetimer", "reload", "enable", "reload">>
    BY Cat42
  <2>7. <<"stoptimer", "writesvc", "writetimer", "reload", "enable", "reload">> \o <<"starttimer">> =
          <<"stoptimer", "writesvc", "writetimer", "reload", "enable", "reload", "starttimer">>
    BY Cat61
  <2> QED BY <2>1, <2>2, <2>3, <2>4, <2>5, <2>6, <2>7, Zenon
<1>4. ASSUME ~Owned(disk.tim)
      PROVE  RegisterSteps("demand") =
               <<"writesvc", "reload">>
  <2>1. RegisterSteps("demand") =
          ((((<<>> \o <<"writesvc">>) \o <<>>) \o <<"reload">>) \o <<>>) \o <<>>
    BY <1>4 DEF RegisterSteps, RetireTimer, When
  <2>2. <<>> \o <<"writesvc">> =
          <<"writesvc">>
    OBVIOUS
  <2>3. <<"writesvc">> \o <<>> =
          <<"writesvc">>
    OBVIOUS
  <2>4. <<"writesvc">> \o <<"reload">> =
          <<"writesvc", "reload">>
    BY Cat11
  <2>5. <<"writesvc", "reload">> \o <<>> =
          <<"writesvc", "reload">>
    OBVIOUS
  <2> QED BY <2>1, <2>2, <2>3, <2>4, <2>5, Zenon
<1>5. ASSUME ~Owned(disk.tim)
      PROVE  RegisterSteps("boot") =
               <<"writesvc", "writetimer", "reload", "enable", "reload">>
  <2>1. RegisterSteps("boot") =
          ((((<<>> \o <<"writesvc">>) \o <<"writetimer">>) \o <<"reload">>) \o <<"enable", "reload">>) \o <<>>
    BY <1>5 DEF RegisterSteps, RetireTimer, When
  <2>2. <<>> \o <<"writesvc">> =
          <<"writesvc">>
    OBVIOUS
  <2>3. <<"writesvc">> \o <<"writetimer">> =
          <<"writesvc", "writetimer">>
    BY Cat11
  <2>4. <<"writesvc", "writetimer">> \o <<"reload">> =
          <<"writesvc", "writetimer", "reload">>
    BY Cat21
  <2>5. <<"writesvc", "writetimer", "reload">> \o <<"enable", "reload">> =
          <<"writesvc", "writetimer", "reload", "enable", "reload">>
    BY Cat32
  <2>6. <<"writesvc", "writetimer", "reload", "enable", "reload">> \o <<>> =
          <<"writesvc", "writetimer", "reload", "enable", "reload">>
    OBVIOUS
  <2> QED BY <2>1, <2>2, <2>3, <2>4, <2>5, <2>6, Zenon
<1>6. ASSUME ~Owned(disk.tim)
      PROVE  RegisterSteps("calendar") =
               <<"writesvc", "writetimer", "reload", "enable", "reload", "starttimer">>
  <2>1. RegisterSteps("calendar") =
          ((((<<>> \o <<"writesvc">>) \o <<"writetimer">>) \o <<"reload">>) \o <<"enable", "reload">>) \o <<"starttimer">>
    BY <1>6 DEF RegisterSteps, RetireTimer, When
  <2>2. <<>> \o <<"writesvc">> =
          <<"writesvc">>
    OBVIOUS
  <2>3. <<"writesvc">> \o <<"writetimer">> =
          <<"writesvc", "writetimer">>
    BY Cat11
  <2>4. <<"writesvc", "writetimer">> \o <<"reload">> =
          <<"writesvc", "writetimer", "reload">>
    BY Cat21
  <2>5. <<"writesvc", "writetimer", "reload">> \o <<"enable", "reload">> =
          <<"writesvc", "writetimer", "reload", "enable", "reload">>
    BY Cat32
  <2>6. <<"writesvc", "writetimer", "reload", "enable", "reload">> \o <<"starttimer">> =
          <<"writesvc", "writetimer", "reload", "enable", "reload", "starttimer">>
    BY Cat51
  <2> QED BY <2>1, <2>2, <2>3, <2>4, <2>5, <2>6, Zenon
<1> QED BY <1>1, <1>2, <1>3, <1>4, <1>5, <1>6

\* What unregister is to do, by what it finds.
LEMMA UnregisterPlans ==
    /\ Owned(disk.tim) /\ Owned(disk.svc) =>
         UnregisterSteps =
           <<"stoptimer", "disable", "rmtimer", "stopsvc", "rmsvc", "reload">>
    /\ Owned(disk.tim) /\ ~Owned(disk.svc) =>
         UnregisterSteps =
           <<"stoptimer", "disable", "rmtimer", "reload">>
    /\ ~Owned(disk.tim) /\ Owned(disk.svc) =>
         UnregisterSteps =
           <<"stopsvc", "rmsvc", "reload">>
<1>1. ASSUME Owned(disk.tim), Owned(disk.svc)
      PROVE  UnregisterSteps =
               <<"stoptimer", "disable", "rmtimer", "stopsvc", "rmsvc", "reload">>
  <2>1. UnregisterSteps =
          ((<<"stoptimer">> \o <<"disable", "rmtimer">>) \o <<"stopsvc", "rmsvc">>) \o <<"reload">>
    BY <1>1 DEF UnregisterSteps, RetireTimer, When
  <2>2. <<"stoptimer">> \o <<"disable", "rmtimer">> =
          <<"stoptimer", "disable", "rmtimer">>
    BY Cat12
  <2>3. <<"stoptimer", "disable", "rmtimer">> \o <<"stopsvc", "rmsvc">> =
          <<"stoptimer", "disable", "rmtimer", "stopsvc", "rmsvc">>
    BY Cat32
  <2>4. <<"stoptimer", "disable", "rmtimer", "stopsvc", "rmsvc">> \o <<"reload">> =
          <<"stoptimer", "disable", "rmtimer", "stopsvc", "rmsvc", "reload">>
    BY Cat51
  <2> QED BY <2>1, <2>2, <2>3, <2>4, Zenon
<1>2. ASSUME Owned(disk.tim), ~Owned(disk.svc)
      PROVE  UnregisterSteps =
               <<"stoptimer", "disable", "rmtimer", "reload">>
  <2>1. UnregisterSteps =
          ((<<"stoptimer">> \o <<"disable", "rmtimer">>) \o <<>>) \o <<"reload">>
    BY <1>2 DEF UnregisterSteps, RetireTimer, When
  <2>2. <<"stoptimer">> \o <<"disable", "rmtimer">> =
          <<"stoptimer", "disable", "rmtimer">>
    BY Cat12
  <2>3. <<"stoptimer", "disable", "rmtimer">> \o <<>> =
          <<"stoptimer", "disable", "rmtimer">>
    OBVIOUS
  <2>4. <<"stoptimer", "disable", "rmtimer">> \o <<"reload">> =
          <<"stoptimer", "disable", "rmtimer", "reload">>
    BY Cat31
  <2> QED BY <2>1, <2>2, <2>3, <2>4, Zenon
<1>3. ASSUME ~Owned(disk.tim), Owned(disk.svc)
      PROVE  UnregisterSteps =
               <<"stopsvc", "rmsvc", "reload">>
  <2>1. UnregisterSteps =
          (<<>> \o <<"stopsvc", "rmsvc">>) \o <<"reload">>
    BY <1>3 DEF UnregisterSteps, RetireTimer, When
  <2>2. <<>> \o <<"stopsvc", "rmsvc">> =
          <<"stopsvc", "rmsvc">>
    OBVIOUS
  <2>3. <<"stopsvc", "rmsvc">> \o <<"reload">> =
          <<"stopsvc", "rmsvc", "reload">>
    BY Cat21
  <2> QED BY <2>1, <2>2, <2>3, Zenon
<1> QED BY <1>1, <1>2, <1>3

\* A plan of an operation with these steps, at least one.
IsPlan(p, name, trig, steps) ==
    p \in Seq(Steps) /\ p # <<>> /\ PlanOf(p, name, trig) /\ StepsIn(p) = steps

\* Register's plans are in order and end with systemd having read the files.
LEMMA RegisterPlan ==
    /\ Owned(disk.tim) =>
         IsPlan(RegisterSteps("demand"), "register", "demand",
                {"stoptimer", "disable", "rmtimer", "writesvc", "reload"})
    /\ Owned(disk.tim) =>
         IsPlan(RegisterSteps("boot"), "register", "boot",
                {"stoptimer", "writesvc", "writetimer", "reload", "enable"})
    /\ Owned(disk.tim) =>
         IsPlan(RegisterSteps("calendar"), "register", "calendar",
                {"stoptimer", "writesvc", "writetimer", "reload", "enable", "starttimer"})
    /\ ~Owned(disk.tim) =>
         IsPlan(RegisterSteps("demand"), "register", "demand",
                {"writesvc", "reload"})
    /\ ~Owned(disk.tim) =>
         IsPlan(RegisterSteps("boot"), "register", "boot",
                {"writesvc", "writetimer", "reload", "enable"})
    /\ ~Owned(disk.tim) =>
         IsPlan(RegisterSteps("calendar"), "register", "calendar",
                {"writesvc", "writetimer", "reload", "enable", "starttimer"})
<1>1. ASSUME NEW p, p = <<"stoptimer", "disable", "rmtimer", "writesvc", "reload">>
      PROVE  IsPlan(p, "register", "demand", {"stoptimer", "disable", "rmtimer", "writesvc", "reload"})
  BY <1>1 DEF IsPlan, PlanOf, StepsIn, InOrder, EndsRight, StepsOf, Rank, Steps
<1>2. ASSUME NEW p, p = <<"stoptimer", "writesvc", "writetimer", "reload", "enable", "reload">>
      PROVE  IsPlan(p, "register", "boot", {"stoptimer", "writesvc", "writetimer", "reload", "enable"})
  BY <1>2 DEF IsPlan, PlanOf, StepsIn, InOrder, EndsRight, StepsOf, Rank, Steps
<1>3. ASSUME NEW p, p = <<"stoptimer", "writesvc", "writetimer", "reload", "enable", "reload", "starttimer">>
      PROVE  IsPlan(p, "register", "calendar", {"stoptimer", "writesvc", "writetimer", "reload", "enable", "starttimer"})
  BY <1>3 DEF IsPlan, PlanOf, StepsIn, InOrder, EndsRight, StepsOf, Rank, Steps
<1>4. ASSUME NEW p, p = <<"writesvc", "reload">>
      PROVE  IsPlan(p, "register", "demand", {"writesvc", "reload"})
  BY <1>4 DEF IsPlan, PlanOf, StepsIn, InOrder, EndsRight, StepsOf, Rank, Steps
<1>5. ASSUME NEW p, p = <<"writesvc", "writetimer", "reload", "enable", "reload">>
      PROVE  IsPlan(p, "register", "boot", {"writesvc", "writetimer", "reload", "enable"})
  BY <1>5 DEF IsPlan, PlanOf, StepsIn, InOrder, EndsRight, StepsOf, Rank, Steps
<1>6. ASSUME NEW p, p = <<"writesvc", "writetimer", "reload", "enable", "reload", "starttimer">>
      PROVE  IsPlan(p, "register", "calendar", {"writesvc", "writetimer", "reload", "enable", "starttimer"})
  BY <1>6 DEF IsPlan, PlanOf, StepsIn, InOrder, EndsRight, StepsOf, Rank, Steps
<1> QED BY <1>1, <1>2, <1>3, <1>4, <1>5, <1>6, RegisterPlans

\* So are unregister's.
LEMMA UnregisterPlan ==
    /\ Owned(disk.tim) /\ Owned(disk.svc) =>
         IsPlan(UnregisterSteps, "unregister", "demand",
                {"stoptimer", "disable", "rmtimer", "stopsvc", "rmsvc", "reload"})
    /\ Owned(disk.tim) /\ ~Owned(disk.svc) =>
         IsPlan(UnregisterSteps, "unregister", "demand",
                {"stoptimer", "disable", "rmtimer", "reload"})
    /\ ~Owned(disk.tim) /\ Owned(disk.svc) =>
         IsPlan(UnregisterSteps, "unregister", "demand",
                {"stopsvc", "rmsvc", "reload"})
<1>1. ASSUME NEW p, p = <<"stoptimer", "disable", "rmtimer", "stopsvc", "rmsvc", "reload">>
      PROVE  IsPlan(p, "unregister", "demand", {"stoptimer", "disable", "rmtimer", "stopsvc", "rmsvc", "reload"})
  BY <1>1 DEF IsPlan, PlanOf, StepsIn, InOrder, EndsRight, StepsOf, Rank, Steps
<1>2. ASSUME NEW p, p = <<"stoptimer", "disable", "rmtimer", "reload">>
      PROVE  IsPlan(p, "unregister", "demand", {"stoptimer", "disable", "rmtimer", "reload"})
  BY <1>2 DEF IsPlan, PlanOf, StepsIn, InOrder, EndsRight, StepsOf, Rank, Steps
<1>3. ASSUME NEW p, p = <<"stopsvc", "rmsvc", "reload">>
      PROVE  IsPlan(p, "unregister", "demand", {"stopsvc", "rmsvc", "reload"})
  BY <1>3 DEF IsPlan, PlanOf, StepsIn, InOrder, EndsRight, StepsOf, Rank, Steps
<1> QED BY <1>1, <1>2, <1>3, UnregisterPlans

\* So are those of the others; enable starts the timer only of a calendar.
LEMMA OtherPlans ==
    /\ \A c \in BOOLEAN :
         LET p == <<"enable", "reload">> \o When(c, <<"starttimer">>)
         IN  IsPlan(p, "enable", "demand", StepsIn(p))
    /\ IsPlan(<<"stoptimer", "disable", "reload">>, "disable", "demand",
              {"stoptimer", "disable", "reload"})
    /\ IsPlan(<<"startsvc">>, "run", "demand", {"startsvc"})
    /\ IsPlan(<<"stopsvc">>, "stop", "demand", {"stopsvc"})
<1> USE DEF IsPlan, PlanOf, StepsIn, InOrder, EndsRight, StepsOf, Rank, Steps
<1>1. ASSUME NEW p, p = <<"enable", "reload">> PROVE IsPlan(p, "enable", "demand", StepsIn(p))
  BY <1>1
<1>2. ASSUME NEW p, p = <<"enable", "reload", "starttimer">>
      PROVE  IsPlan(p, "enable", "demand", StepsIn(p))
  BY <1>2
<1>3. ASSUME NEW p, p = <<"stoptimer", "disable", "reload">>
      PROVE  IsPlan(p, "disable", "demand", {"stoptimer", "disable", "reload"})
  BY <1>3
<1>4. ASSUME NEW p, p = <<"startsvc">> PROVE IsPlan(p, "run", "demand", {"startsvc"})
  BY <1>4
<1>5. ASSUME NEW p, p = <<"stopsvc">> PROVE IsPlan(p, "stop", "demand", {"stopsvc"})
  BY <1>5
<1> HIDE DEF IsPlan
<1>6. ASSUME NEW c \in BOOLEAN, NEW p, p = <<"enable", "reload">> \o When(c, <<"starttimer">>)
      PROVE  IsPlan(p, "enable", "demand", StepsIn(p))
  <2>1. CASE c
    <3>1. <<"enable", "reload">> \o <<"starttimer">> = <<"enable", "reload", "starttimer">>
      BY Cat21
    <3>2. When(c, <<"starttimer">>) = <<"starttimer">>
      BY <2>1 DEF When
    <3>3. p = <<"enable", "reload", "starttimer">>
      BY <1>6, <3>1, <3>2, Zenon
    <3> QED BY <3>3, <1>2, Zenon
  <2>2. CASE ~c
    <3>1. p = <<"enable", "reload">>
      BY <1>6, <2>2 DEF When
    <3> QED BY <3>1, <1>1, Zenon
  <2> QED BY <2>1, <2>2
<1> QED BY <1>3, <1>4, <1>5, <1>6, Zenon

\* What is left after the first step of a plan.
LEMMA TailPlan ==
    ASSUME NEW p \in Seq(Steps), p # <<>>, NEW name, NEW trig, PlanOf(p, name, trig)
    PROVE  LET h == Head(p)
               q == Tail(p)
           IN  /\ h \in Steps /\ q \in Seq(Steps) /\ h \in StepsOf(name, trig)
               /\ StepsIn(p) = {h} \cup StepsIn(q)
               /\ h # "reload" =>
                    \A s \in StepsIn(q) : s # "reload" => Rank(h) < Rank(s)
               /\ q # <<>> => PlanOf(q, name, trig)
               /\ q = <<>> => StepsIn(q) = {}
               /\ name = "unregister" \/ (name = "register" /\ trig # "calendar") =>
                    (q = <<>> => h = "reload")
               /\ name = "register" /\ trig = "calendar" =>
                    /\ q = <<>> <=> h = "starttimer"
                    /\ StepsIn(q) = {"starttimer"} => h = "reload"
<1> DEFINE h == Head(p)
<1> DEFINE q == Tail(p)
<1>1. /\ q \in Seq(Steps) /\ Len(p) \in Nat /\ Len(p) > 0 /\ Len(q) = Len(p) - 1
      /\ h = p[1] /\ \A i \in 1..Len(q) : q[i] = p[i + 1]
      /\ \A i \in 1..Len(p) : p[i] \in Steps
  OBVIOUS
<1> HIDE DEF h, q
<1>0. /\ Len(p) \in Nat /\ Len(q) \in Nat /\ Len(q) = Len(p) - 1 /\ Len(p) = Len(q) + 1
      /\ Len(p) > 0
      /\ q = <<>> <=> Len(q) = 0
  BY <1>1, EmptySeq
<1>2. StepsIn(p) = {h} \cup StepsIn(q)
  <2>1. ASSUME NEW s \in StepsIn(p) PROVE s \in {h} \cup StepsIn(q)
    <3>1. PICK i \in 1..Len(p) : s = p[i]
      BY DEF StepsIn
    <3>2. i = 1 \/ (i - 1 \in 1..Len(q) /\ p[i] = q[i - 1])
      BY <1>1
    <3> QED BY <1>1, <3>1, <3>2 DEF StepsIn
  <2>2. ASSUME NEW s \in {h} \cup StepsIn(q) PROVE s \in StepsIn(p)
    BY <1>1, <2>2 DEF StepsIn
  <2> QED BY <2>1, <2>2
<1>3. h # "reload" => \A s \in StepsIn(q) : s # "reload" => Rank(h) < Rank(s)
  BY <1>1 DEF StepsIn, PlanOf, InOrder
<1>4. InOrder(q)
  <2> SUFFICES ASSUME NEW i \in 1..Len(q), NEW j \in 1..Len(q), i < j,
                      q[i] # "reload", q[j] # "reload"
               PROVE  Rank(q[i]) < Rank(q[j])
    BY DEF InOrder
  <2>1. i + 1 \in 1..Len(p) /\ j + 1 \in 1..Len(p) /\ i + 1 < j + 1
    BY <1>1
  <2> QED BY <1>1, <2>1 DEF PlanOf, InOrder
<1>5. q # <<>> => Len(q) > 0 /\ q[Len(q)] = p[Len(p)]
  BY <1>1
<1>6. Len(q) > 1 => q[Len(q) - 1] = p[Len(p) - 1]
  BY <1>1
<1>7. q = <<>> => StepsIn(q) = {} /\ Len(p) = 1 /\ h = p[Len(p)]
  <2>1. q = <<>> => Len(p) = 1
    BY <1>0
  <2>2. h = p[1]
    BY <1>1
  <2>3. Len(q) = 0 => StepsIn(q) = {}
    BY DEF StepsIn
  <2> QED BY <1>0, <2>1, <2>2, <2>3
<1>8. q # <<>> => EndsRight(q, name, trig)
  BY <1>1, <1>5, <1>6 DEF PlanOf, EndsRight
<1>9. ASSUME name = "register", trig = "calendar" PROVE
        /\ q = <<>> <=> h = "starttimer"
        /\ StepsIn(q) = {"starttimer"} => h = "reload"
  <2>1. q = <<>> => h = "starttimer"
    BY <1>7, <1>9 DEF PlanOf, EndsRight
  <2>2. q # <<>> => Len(q) > 0 /\ q[Len(q)] = "starttimer" /\ "starttimer" \in StepsIn(q)
    BY <1>1, <1>5, <1>9 DEF PlanOf, EndsRight, StepsIn
  <2>3. h = "starttimer" => q = <<>>
    <3> SUFFICES ASSUME h = "starttimer", q # <<>> PROVE FALSE
      OBVIOUS
    <3>1. Rank("starttimer") < Rank("starttimer")
      BY <1>3, <2>2
    <3> QED BY <3>1 DEF Rank
  <2>4. ASSUME StepsIn(q) = {"starttimer"} PROVE h = "reload"
    <3>1. Len(q) = 1
      <4> SUFFICES ASSUME Len(q) # 1 PROVE FALSE
        OBVIOUS
      <4>1. Len(q) > 1
        BY <1>0, <1>7, <2>4
      <4>2. 1 \in 1..Len(q) /\ 2 \in 1..Len(q)
        BY <1>1, <4>1
      <4>3. q[1] \in StepsIn(q) /\ q[2] \in StepsIn(q)
        BY <4>2 DEF StepsIn
      <4>4. Rank("starttimer") < Rank("starttimer")
        BY <1>4, <2>4, <4>2, <4>3 DEF InOrder
      <4> QED BY <4>4 DEF Rank
    <3>2. \A n, m \in Nat : m = n - 1 /\ m = 1 => n > 1 /\ n - 1 = 1
      OBVIOUS
    <3>3. Len(p) > 1 /\ Len(p) - 1 = 1
      BY <1>0, <3>1, <3>2, Zenon
    <3> QED BY <1>1, <1>9, <3>3 DEF PlanOf, EndsRight
  <2> QED BY <2>1, <2>3, <2>4
<1>10. q = <<>> /\ (name = "unregister" \/ (name = "register" /\ trig # "calendar")) => h = "reload"
  BY <1>7 DEF PlanOf, EndsRight
<1>11. StepsIn(p) \subseteq StepsOf(name, trig)
  BY DEF PlanOf
<1>12. h \in Steps /\ q \in Seq(Steps)
  BY <1>1
<1>13. q # <<>> => PlanOf(q, name, trig)
  BY <1>2, <1>4, <1>8, <1>11 DEF PlanOf
<1>14. h \in StepsOf(name, trig)
  BY <1>2, <1>11
<1> QED BY <1>2, <1>3, <1>7, <1>9, <1>10, <1>12, <1>13, <1>14 DEF h, q

-----------------------------------------------------------------------------
(* The inductive invariant of the tasks.                                   *)

\* It holds on every machine the controller may find.
LEMMA TasksInit == Init => TasksInv
<1> SUFFICES ASSUME Init PROVE TasksInv
  OBVIOUS
<1>1. TypeOK
  <2>1. 0 \in 0..MaxRegistrations /\ 0 \in 0..MaxReboots
    BY TasksAssumption
  <2>2. \A b \in {"none", "pwshpy", "foreign", "vendor"}, t \in Triggers : Unit(b, t, 0) \in Units
    BY <2>1 DEF Unit, Units
  <2>3. disk.svc \in Units /\ disk.tim \in Units /\ disk.link \in BOOLEAN /\ disk.static \in BOOLEAN
    BY <2>2 DEF Init, None, Triggers
  <2>4. disk \in [svc : Units, tim : Units, link : BOOLEAN, static : BOOLEAN]
    BY <2>3 DEF Init
  <2>5. /\ armed \in {"no", "boot", "started"} /\ running = "no" /\ plan \in Seq(Steps)
        /\ op \in [name : {"idle", "register", "unregister", "enable", "disable", "run", "stop"},
                   trig : Triggers, end : {"none", "done", "raised", "refused"}]
    BY DEF Init, Triggers
  <2>6. /\ mem = disk /\ regs = 0 /\ reboots = 0 /\ quiet = FALSE
        /\ disk.link => IsThere(disk.tim)
    BY DEF Init
  <2> QED BY <2>1, <2>4, <2>5, <2>6 DEF TypeOK
<1>2. WorldInv
  BY DEF Init, WorldInv, Unit, None, IsThere
<1>3. plan = <<>>
  BY DEF Init
<1> QED BY <1>1, <1>2, <1>3
        DEF TasksInv, PlanInv, RegisterInv, UnregisterInv, EnablingInv, Under

\* A step that leaves no plan has only the machine to keep.
LEMMA NoPlan ==
    ASSUME TypeOK', WorldInv', plan' = <<>>
    PROVE  TasksInv'
BY DEF TasksInv, PlanInv, RegisterInv, UnregisterInv, EnablingInv, Under

\* A refused operation changes nothing but how the last one ended.
LEMMA RefuseKeeps ==
    ASSUME TasksInv, NEW name \in {"register", "unregister", "enable", "disable", "run", "stop"},
           Refuse(name)
    PROVE  TasksInv'
<1>1. TypeOK'
  BY DEF TasksInv, Refuse, TypeOK, world, Triggers
<1>2. WorldInv'
  BY DEF TasksInv, Refuse, WorldInv, world, Under
<1>3. plan' = <<>>
  BY DEF Refuse
<1> QED BY <1>1, <1>2, <1>3, NoPlan

\* An operation begins with its plan, on a machine it has not touched.
LEMMA BeginKeeps ==
    ASSUME TasksInv,
           NEW name \in {"register", "unregister", "enable", "disable", "run", "stop"},
           NEW trig \in Triggers, NEW p, NEW steps, IsPlan(p, name, trig, steps),
           Begin(name, trig, p), regs' \in 0..MaxRegistrations
    PROVE  /\ TypeOK' /\ PlanInv' /\ WorldInv' /\ ToDo' = steps
           /\ UNCHANGED world /\ plan' = p /\ op'.name = name /\ op'.trig = trig
<1>1. TypeOK'
  <2>1. op' \in [name : {"idle", "register", "unregister", "enable", "disable", "run", "stop"},
                 trig : Triggers, end : {"none", "done", "raised", "refused"}]
    BY DEF Begin
  <2>2. plan' \in Seq(Steps)
    BY DEF Begin, IsPlan
  <2>3. quiet' \in BOOLEAN
    BY DEF Begin
  <2> QED BY <2>1, <2>2, <2>3 DEF TasksInv, TypeOK, Begin, world, IsThere
<1>2. PlanInv'
  BY DEF PlanInv, Begin, IsPlan
<1>3. WorldInv'
  BY DEF TasksInv, WorldInv, Begin, world, Under
<1> QED BY <1>1, <1>2, <1>3 DEF Begin, ToDo, IsPlan, world

\* Register finds the units its own or none, and its plan leaves out what is so already.
LEMMA RegisterKeeps ==
    ASSUME TasksInv, NEW trig \in Triggers, Register(trig)
    PROVE  TasksInv'
<1>1. Begin("register", trig, RegisterSteps(trig)) /\ regs' = regs + 1
  BY DEF Register
<1>2. regs' \in 0..MaxRegistrations
  BY TasksAssumption DEF Register, TasksInv, TypeOK
<1>3. PICK steps : IsPlan(RegisterSteps(trig), "register", trig, steps)
  BY RegisterPlan DEF Triggers
<1>4. /\ TypeOK' /\ PlanInv' /\ WorldInv' /\ ToDo' = steps
      /\ UNCHANGED world /\ op'.name = "register" /\ op'.trig = trig
  BY <1>1, <1>2, <1>3, BeginKeeps
<1>5. /\ "writesvc" \in steps
      /\ Owned(disk.tim) =>
           "stoptimer" \in steps /\ (trig = "demand" => {"disable", "rmtimer"} \subseteq steps)
      /\ trig # "demand" => {"writetimer", "enable"} \subseteq steps
  BY <1>3, RegisterPlan DEF Triggers, IsPlan
<1>6. RegisterInv'
  <2>1. /\ disk.svc.by \in {"none", "pwshpy"} /\ disk.tim.by \in {"none", "pwshpy"}
    BY DEF Register, FreeOrOwned, Owned, IsThere, Loaded
  <2>2. ~Owned(disk.tim) => armed = "no" /\ ~disk.link /\ disk.tim = None
    BY <2>1 DEF TasksInv, TypeOK, WorldInv, Owned, IsThere
  <2> QED BY <1>4, <1>5, <2>1, <2>2 DEF RegisterInv, Under, world
<1>7. UnregisterInv' /\ EnablingInv'
  BY <1>4 DEF UnregisterInv, EnablingInv, Under
<1> QED BY <1>4, <1>6, <1>7 DEF TasksInv

\* Unregister finds no unit of somebody else below /etc.
LEMMA UnregisterKeeps ==
    ASSUME TasksInv, Unregister
    PROVE  TasksInv'
<1>1. Begin("unregister", "demand", UnregisterSteps) /\ regs' = regs
  BY DEF Unregister
<1>2. regs' \in 0..MaxRegistrations
  BY <1>1 DEF TasksInv, TypeOK
<1>3. PICK steps : IsPlan(UnregisterSteps, "unregister", "demand", steps)
  BY UnregisterPlan DEF Unregister
<1>4. /\ TypeOK' /\ PlanInv' /\ WorldInv' /\ ToDo' = steps
      /\ UNCHANGED world /\ op'.name = "unregister"
  BY <1>1, <1>2, <1>3, BeginKeeps DEF Triggers
<1>5. steps = (IF Owned(disk.tim) THEN {"stoptimer", "disable", "rmtimer"} ELSE {})
                \cup (IF Owned(disk.svc) THEN {"stopsvc", "rmsvc"} ELSE {}) \cup {"reload"}
  BY <1>3, UnregisterPlan DEF Unregister, IsPlan
<1>6. UnregisterInv'
  <2>1. /\ disk.svc.by \in {"none", "pwshpy", "vendor"}
        /\ disk.tim.by \in {"none", "pwshpy", "vendor"}
    BY DEF Unregister, Strange, TasksInv, TypeOK, Units
  <2>2. ~Owned(disk.tim) /\ disk.tim.by # "vendor" => armed = "no" /\ ~disk.link
    BY <2>1 DEF TasksInv, TypeOK, WorldInv, Owned, IsThere
  <2>3. ~Owned(disk.svc) => disk.tim.by # "pwshpy" \/ disk.svc.by = "vendor"
    BY <2>1 DEF TasksInv, WorldInv, Owned, IsThere
  <2>4. Owned(disk.svc) \/ Owned(disk.tim)
    BY DEF Unregister
  <2>5. disk.svc.by = "vendor" \/ Owned(disk.svc)
    BY <2>1, <2>3, <2>4 DEF Owned
  <2> QED BY <1>4, <1>5, <2>1, <2>2, <2>5 DEF UnregisterInv, Under, world, Owned
<1>7. RegisterInv' /\ EnablingInv'
  BY <1>4 DEF RegisterInv, EnablingInv, Under
<1> QED BY <1>4, <1>6, <1>7 DEF TasksInv

\* The other operations are under way on a machine that has the unit they ask for.
LEMMA OthersKeep ==
    ASSUME TasksInv, Enable \/ Disable \/ Run \/ Stop
    PROVE  TasksInv'
<1>1. regs' \in 0..MaxRegistrations
  BY DEF Enable, Disable, Run, Stop, TasksInv, TypeOK
<1>2. CASE Enable
  <2>1. PICK p : Begin("enable", "demand", p) /\ IsPlan(p, "enable", "demand", StepsIn(p))
    BY <1>2, OtherPlans DEF Enable
  <2>2. /\ TypeOK' /\ PlanInv' /\ WorldInv' /\ UNCHANGED world /\ op'.name = "enable"
    BY <1>1, <2>1, BeginKeeps DEF Triggers
  <2> QED BY <1>2, <2>2
          DEF TasksInv, RegisterInv, UnregisterInv, EnablingInv, Under, Enable, world
<1>3. CASE Disable
  <2>1. /\ TypeOK' /\ PlanInv' /\ WorldInv' /\ UNCHANGED world /\ op'.name = "disable"
        /\ ToDo' = {"stoptimer", "disable", "reload"}
    BY <1>1, <1>3, OtherPlans, BeginKeeps DEF Triggers, Disable
  <2>2. ~disk'.static
    BY <1>3, <2>1 DEF Disable, world
  <2> QED BY <2>1, <2>2 DEF TasksInv, RegisterInv, UnregisterInv, EnablingInv, Under
<1>4. CASE Run
  <2>1. /\ TypeOK' /\ PlanInv' /\ WorldInv' /\ op'.name = "run"
    BY <1>1, <1>4, OtherPlans, BeginKeeps DEF Triggers, Run
  <2> QED BY <2>1 DEF TasksInv, RegisterInv, UnregisterInv, EnablingInv, Under
<1>5. CASE Stop
  <2>1. /\ TypeOK' /\ PlanInv' /\ WorldInv' /\ op'.name = "stop"
    BY <1>1, <1>5, OtherPlans, BeginKeeps DEF Triggers, Stop
  <2> QED BY <2>1 DEF TasksInv, RegisterInv, UnregisterInv, EnablingInv, Under
<1> QED BY <1>2, <1>3, <1>4, <1>5

\* What systemd does by itself, between the steps of an operation.
LEMMA SystemdKeeps ==
    ASSUME TasksInv, Fire \/ ServiceEnds \/ Unload
    PROVE  TasksInv'
<1> USE DEF Fire, ServiceEnds, Unload
<1>1. UNCHANGED <<disk, armed, op, plan, regs, reboots, quiet>> /\ ToDo' = ToDo
  BY DEF ToDo
<1>2. TypeOK'
  <2>1. mem' \in [svc : Units, tim : Units, link : BOOLEAN, static : BOOLEAN]
    BY DEF TasksInv, TypeOK
  <2>2. running' \in {"no", "yes", "stopping"}
    BY DEF TasksInv, TypeOK
  <2> HIDE DEF Fire, ServiceEnds, Unload
  <2> QED BY <1>1, <2>1, <2>2 DEF TasksInv, TypeOK
<1>3. PlanInv' /\ WorldInv' /\ EnablingInv'
  BY <1>1 DEF TasksInv, PlanInv, WorldInv, EnablingInv, Under
<1>4. RegisterInv'
  <2>1. Under("register") /\ ToDo = {"starttimer"} => mem' = disk
    BY DEF TasksInv, RegisterInv, TypeOK
  <2> HIDE DEF Fire, ServiceEnds, Unload
  <2> QED BY <1>1, <2>1 DEF TasksInv, RegisterInv, Under
<1>5. UnregisterInv'
  <2>1. running' = "yes" /\ running # "yes" => armed # "no"
    BY DEF TasksInv, TypeOK
  <2> HIDE DEF Fire, ServiceEnds, Unload
  <2> QED BY <1>1, <2>1 DEF TasksInv, UnregisterInv, Under
<1> QED BY <1>2, <1>3, <1>4, <1>5 DEF TasksInv

\* A static timer is nobody's that an operation of pwshpy's arms or disarms.
LEMMA PullInKeeps ==
    ASSUME TasksInv, PullIn
    PROVE  TasksInv'
<1>1. /\ UNCHANGED <<disk, mem, running, op, plan, regs, reboots, quiet>> /\ ToDo' = ToDo
      /\ armed' = "boot" /\ disk.static
  BY DEF PullIn, ToDo
<1>2. disk.tim.by \in {"foreign", "vendor"}
  BY <1>1 DEF TasksInv, WorldInv
<1>3. TypeOK' /\ PlanInv'
  BY <1>1 DEF TasksInv, TypeOK, PlanInv
<1>4. WorldInv'
  BY <1>1, <1>2 DEF TasksInv, WorldInv, IsThere, Under
<1>5. ~Under("register")' /\ ~Under("disable")'
  BY <1>1, <1>2 DEF TasksInv, RegisterInv, EnablingInv, Under
<1>6. UnregisterInv'
  BY <1>1, <1>2 DEF TasksInv, UnregisterInv, Under
<1>7. EnablingInv' /\ RegisterInv'
  BY <1>1, <1>5 DEF TasksInv, EnablingInv, RegisterInv, Under
<1> QED BY <1>3, <1>4, <1>6, <1>7 DEF TasksInv

\* A reboot ends the operation; only an enabled timer is armed by it.
LEMMA RebootKeeps ==
    ASSUME TasksInv, Reboot
    PROVE  TasksInv'
<1>1. TypeOK'
  <2>1. op' \in [name : {"idle", "register", "unregister", "enable", "disable", "run", "stop"},
                 trig : Triggers, end : {"none", "done", "raised", "refused"}]
    BY DEF Reboot, TasksInv, TypeOK
  <2>2. reboots' \in 0..MaxReboots
    BY TasksAssumption DEF Reboot, TasksInv, TypeOK
  <2>3. plan' \in Seq(Steps) /\ armed' \in {"no", "boot", "started"}
    BY DEF Reboot
  <2> QED BY <2>1, <2>2, <2>3 DEF Reboot, TasksInv, TypeOK
<1>2. WorldInv'
  BY DEF Reboot, TasksInv, TypeOK, WorldInv, Under
<1>3. plan' = <<>>
  BY DEF Reboot
<1> QED BY <1>1, <1>2, <1>3, NoPlan

\* A step that fails ends the operation; a file it tore is there and has its
\* service, as register writes it first.
LEMMA FailKeeps ==
    ASSUME TasksInv, FailStep
    PROVE  TasksInv'
<1> DEFINE h == Head(plan)
<1> DEFINE q == Tail(plan)
<1>1. /\ plan \in Seq(Steps) /\ plan # <<>> /\ PlanOf(plan, op.name, op.trig)
  BY DEF FailStep, TasksInv, TypeOK, PlanInv
<1>2. /\ h \in StepsOf(op.name, op.trig) /\ StepsIn(plan) = {h} \cup StepsIn(q)
      /\ h # "reload" => \A s \in StepsIn(q) : s # "reload" => Rank(h) < Rank(s)
  BY <1>1, TailPlan
<1>3. h \in {"writesvc", "writetimer"} => Under("register")
  BY <1>1, <1>2 DEF StepsOf, Under
<1>4. h = "writetimer" => disk.svc = Unit("pwshpy", "demand", regs)
  <2> SUFFICES ASSUME h = "writetimer" PROVE "writesvc" \notin ToDo
    BY <1>3 DEF TasksInv, RegisterInv
  <2>1. "writesvc" \notin StepsIn(q)
    BY <1>2 DEF Rank
  <2> QED BY <1>2, <2>1 DEF ToDo
<1>5. \/ disk' = disk
      \/ h = "writesvc" /\ disk' = [disk EXCEPT !.svc.by = "torn"]
      \/ h = "writetimer" /\ disk' = [disk EXCEPT !.tim.by = "torn"]
  BY DEF FailStep
<1>6. TypeOK'
  <2>1. op' \in [name : {"idle", "register", "unregister", "enable", "disable", "run", "stop"},
                 trig : Triggers, end : {"none", "done", "raised", "refused"}]
    BY DEF FailStep, TasksInv, TypeOK
  <2>2. disk' \in [svc : Units, tim : Units, link : BOOLEAN, static : BOOLEAN]
    <3>1. disk \in [svc : Units, tim : Units, link : BOOLEAN, static : BOOLEAN]
      BY DEF TasksInv, TypeOK
    <3>2. \A u \in Units : [u EXCEPT !.by = "torn"] \in Units
      BY DEF Units
    <3> QED BY ONLY <1>5, <3>1, <3>2
  <2>3. disk'.link => IsThere(disk'.tim)
    BY <1>5 DEF TasksInv, TypeOK, Units, IsThere
  <2>4. plan' \in Seq(Steps)
    BY DEF FailStep
  <2> QED BY <2>1, <2>2, <2>3, <2>4 DEF FailStep, TasksInv, TypeOK
<1>7. WorldInv'
  <2>1. /\ UNCHANGED <<armed, quiet>> /\ plan' = <<>>
        /\ disk'.link = disk.link /\ disk'.static = disk.static
    BY <1>5 DEF FailStep, TasksInv, TypeOK
  <2>2. /\ IsThere(disk.svc) => IsThere(disk'.svc)
        /\ IsThere(disk.tim) => IsThere(disk'.tim)
        /\ disk'.svc = disk.svc \/ IsThere(disk'.svc)
        /\ disk'.tim = disk.tim \/ IsThere(disk'.tim)
    BY <1>5 DEF TasksInv, TypeOK, Units, IsThere
  <2>3. disk'.tim.by \in {"pwshpy", "torn"} => IsThere(disk'.svc)
    BY <1>4, <1>5, <2>2 DEF TasksInv, TypeOK, Units, WorldInv, IsThere, Unit
  <2>4. disk.static => disk'.tim.by \in {"foreign", "vendor"}
    <3>1. Under("register") => disk.tim.by \in {"none", "pwshpy"}
      BY DEF TasksInv, RegisterInv
    <3> QED BY <1>3, <1>5, <3>1 DEF TasksInv, TypeOK, WorldInv
  <2> QED BY <2>1, <2>2, <2>3, <2>4 DEF TasksInv, WorldInv, Under
<1>8. plan' = <<>>
  BY DEF FailStep
<1> QED BY <1>6, <1>7, <1>8, NoPlan

\* A step that is done keeps it: what an operation's earlier steps have done is
\* what the later ones need.
LEMMA DoKeeps ==
    ASSUME TasksInv, DoStep
    PROVE  TasksInv'
<1> DEFINE h == Head(plan)
<1> DEFINE q == Tail(plan)
<1>1. /\ plan \in Seq(Steps) /\ plan # <<>> /\ PlanOf(plan, op.name, op.trig) /\ op.end = "none"
  BY DEF DoStep, TasksInv, TypeOK, PlanInv
<1>2. /\ h \in Steps /\ h \in StepsOf(op.name, op.trig) /\ q \in Seq(Steps)
      /\ StepsIn(plan) = {h} \cup StepsIn(q)
      /\ h # "reload" => \A s \in StepsIn(q) : s # "reload" => Rank(h) < Rank(s)
      /\ q # <<>> => PlanOf(q, op.name, op.trig)
      /\ q = <<>> => StepsIn(q) = {}
      /\ op.name = "unregister" \/ (op.name = "register" /\ op.trig # "calendar") =>
           (q = <<>> => h = "reload")
      /\ op.name = "register" /\ op.trig = "calendar" =>
           /\ q = <<>> <=> h = "starttimer"
           /\ StepsIn(q) = {"starttimer"} => h = "reload"
  BY <1>1, TailPlan
<1>3. /\ Effect(h) /\ plan' = q /\ UNCHANGED <<regs, reboots>>
      /\ op' = [op EXCEPT !.end = IF q = <<>> THEN "done" ELSE @]
      /\ quiet' = (quiet \/ (q = <<>> /\ Quiets))
  BY DEF DoStep
<1>4. ToDo = {h} \cup ToDo' /\ ToDo' = StepsIn(q)
  BY <1>2, <1>3 DEF ToDo
<1> HIDE DEF h, q
<1>5. /\ op' \in [name : {"idle", "register", "unregister", "enable", "disable", "run", "stop"},
                  trig : Triggers, end : {"none", "done", "raised", "refused"}]
      /\ op'.name = op.name /\ op'.trig = op.trig /\ (q # <<>> => op'.end = "none")
  BY <1>1, <1>3 DEF TasksInv, TypeOK
<1>6. h # "reload" => h \notin ToDo'
  <2>1. h # "reload" /\ h \in ToDo' => Rank(h) < Rank(h)
    BY <1>2, <1>4
  <2>2. ~(Rank(h) < Rank(h))
    BY <1>2 DEF Rank, Steps
  <2> QED BY <2>1, <2>2
<1>7. /\ h \in {"disable", "rmtimer", "writesvc", "writetimer", "stopsvc", "rmsvc", "enable",
                "starttimer"} => "stoptimer" \notin ToDo
      /\ h \in {"rmtimer", "writesvc", "writetimer", "stopsvc", "rmsvc", "enable",
                "starttimer"} => "disable" \notin ToDo
      /\ h \in {"writesvc", "writetimer", "stopsvc", "rmsvc", "enable", "starttimer"} =>
           "rmtimer" \notin ToDo
      /\ h \in {"writetimer", "enable", "starttimer"} => "writesvc" \notin ToDo
      /\ h \in {"enable", "starttimer"} => "writetimer" \notin ToDo
      /\ h = "rmsvc" => "stopsvc" \notin ToDo
      /\ h = "starttimer" => "enable" \notin ToDo
  BY <1>2, <1>4 DEF Rank
<1>8. PlanInv'
  BY <1>2, <1>3, <1>5 DEF PlanInv
<1>9. Under(op.name)
  BY <1>1 DEF Under

<1>10. h = "rmtimer" => armed = "no" /\ ~disk.link
  <2>1. h = "rmtimer" =>
          "stoptimer" \notin ToDo /\ "disable" \notin ToDo /\ "rmtimer" \in ToDo
    BY <1>4, <1>7
  <2>2. h = "rmtimer" => op.name = "unregister" \/ (op.name = "register" /\ op.trig = "demand")
    BY <1>2, <1>5 DEF StepsOf, TasksInv, TypeOK, Triggers
  <2> QED BY <1>9, <2>1, <2>2 DEF TasksInv, RegisterInv, UnregisterInv, Owned
<1>11. h \in {"enable", "starttimer"} => IsThere(disk.tim)
  <2>1. h \in {"enable", "starttimer"} =>
          op.name = "enable" \/ (op.name = "register" /\ op.trig # "demand")
    BY <1>2, <1>5 DEF StepsOf, TasksInv, TypeOK, Triggers
  <2> QED BY <1>7, <1>9, <2>1 DEF TasksInv, RegisterInv, EnablingInv, IsThere, Unit
<1>12. h \in {"writesvc", "writetimer"} => op.name = "register"
  BY <1>2, <1>5 DEF StepsOf, TasksInv, TypeOK, Triggers
<1>13. h \in {"rmsvc", "stopsvc"} => op.name \in {"unregister", "stop"}
  BY <1>2, <1>5 DEF StepsOf, TasksInv, TypeOK, Triggers
<1>14. h = "rmsvc" => op.name = "unregister" /\ "rmsvc" \in ToDo
  BY <1>2, <1>4, <1>5 DEF StepsOf, TasksInv, TypeOK, Triggers
<1>static. /\ disk'.static = disk.static
           /\ h \in {"writetimer", "rmtimer"} => ~disk.static
  <2>1. disk'.static = disk.static
    BY <1>3 DEF Effect, TasksInv, TypeOK
  <2>2. h = "rmtimer" => op.name \in {"register", "unregister"} /\ "rmtimer" \in ToDo
    BY <1>2, <1>4, <1>5 DEF StepsOf, TasksInv, TypeOK, Triggers
  <2>3. h \in {"writetimer", "rmtimer"} => disk.tim.by \in {"none", "pwshpy"}
    BY <1>9, <1>12, <2>2 DEF TasksInv, RegisterInv, UnregisterInv, Owned
  <2> QED BY <2>1, <2>3 DEF TasksInv, WorldInv
<1>15. TypeOK'
  <2>1. Unit("pwshpy", "demand", regs) \in Units /\ Unit("pwshpy", op.trig, regs) \in Units
        /\ None \in Units
    BY TasksAssumption DEF TasksInv, TypeOK, Units, Unit, None, Triggers
  <2>2. disk' \in [svc : Units, tim : Units, link : BOOLEAN, static : BOOLEAN]
    BY <1>3, <2>1 DEF Effect, TasksInv, TypeOK
  <2>3. disk'.link => IsThere(disk'.tim)
    BY <1>3, <1>10, <1>11 DEF Effect, TasksInv, TypeOK, IsThere, Unit
  <2>4. /\ mem' \in [svc : Units, tim : Units, link : BOOLEAN, static : BOOLEAN]
        /\ armed' \in {"no", "boot", "started"} /\ running' \in {"no", "yes", "stopping"}
    BY <1>3 DEF Effect, TasksInv, TypeOK
  <2>5. plan' \in Seq(Steps) /\ UNCHANGED <<regs, reboots>>
    BY <1>2, <1>3
  <2>6. quiet' \in BOOLEAN
    BY <1>3
  <2> QED BY <1>5, <2>2, <2>3, <2>4, <2>5, <2>6 DEF TasksInv, TypeOK
<1>16. WorldInv'
  <2>1. \A part \in {"svc", "tim"} : ~IsThere(disk'[part]) => disk'[part] = None
    BY <1>3 DEF Effect, TasksInv, TypeOK, WorldInv, IsThere, Unit
  <2>2. armed' # "no" => IsThere(disk'.tim)
    BY <1>3, <1>10, <1>11 DEF Effect, TasksInv, TypeOK, WorldInv, IsThere, Unit
  <2>3. disk'.tim.by \in {"pwshpy", "torn"} => IsThere(disk'.svc)
    <3>1. h = "rmsvc" => disk.tim.by \notin {"pwshpy", "torn"}
      BY <1>7, <1>9, <1>14 DEF TasksInv, UnregisterInv, Owned
    <3>2. h = "writetimer" => IsThere(disk.svc)
      BY <1>7, <1>9, <1>12 DEF TasksInv, RegisterInv, IsThere, Unit
    <3> QED BY <1>3, <3>1, <3>2 DEF Effect, TasksInv, TypeOK, WorldInv, IsThere, Unit, None
  <2>4. ASSUME quiet'
        PROVE  armed' = "no" /\ ~disk'.link /\ ~disk.static /\ op.name \notin {"register", "enable"}
    <3>1. CASE quiet
      <4>1. armed = "no" /\ ~disk.link /\ ~disk.static /\ op.name \notin {"register", "enable"}
        BY <1>9, <3>1 DEF TasksInv, WorldInv
      <4>2. h \notin {"enable", "starttimer"}
        BY <1>2, <1>5, <4>1 DEF StepsOf, TasksInv, TypeOK
      <4> QED BY <1>3, <4>1, <4>2 DEF Effect, TasksInv, TypeOK
    <3>2. CASE q = <<>> /\ Quiets
      <4>1. ToDo = {h}
        BY <1>2, <1>4, <3>2
      <4>2. CASE op.name = "disable"
        <5>1. h \in {"stoptimer", "disable", "reload"}
          BY <1>2, <4>2 DEF StepsOf
        <5> QED BY <1>3, <1>9, <4>1, <4>2, <5>1 DEF Effect, TasksInv, TypeOK, EnablingInv
      <4>3. CASE op.name = "unregister" /\ disk.tim.by \in {"none", "pwshpy"}
        <5>1. h = "reload"
          BY <1>2, <3>2, <4>3
        <5>2. ~disk.static
          BY <4>3 DEF TasksInv, WorldInv
        <5> QED BY <1>3, <1>9, <4>1, <4>3, <5>1, <5>2 DEF Effect, TasksInv, TypeOK, UnregisterInv
      <4> QED BY <3>2, <4>2, <4>3 DEF Quiets
    <3> QED BY <1>3, <2>4, <3>1, <3>2
  <2>5. disk'.static => disk'.tim.by \in {"foreign", "vendor"}
    BY <1>3, <1>static DEF Effect, TasksInv, TypeOK, WorldInv
  <2> QED BY <1>5, <1>static, <2>1, <2>2, <2>3, <2>4, <2>5 DEF WorldInv, Under
<1>17. RegisterInv'
  <2> SUFFICES ASSUME op.name = "register", q # <<>> PROVE RegisterInv'
    BY <1>3, <1>5 DEF RegisterInv, Under
  <2>1. h \in {"stoptimer", "disable", "rmtimer", "writesvc", "writetimer", "reload", "enable"}
    BY <1>2, <1>5 DEF StepsOf, TasksInv, TypeOK, Triggers
  <2>2. Under("register")
    BY <1>9
  <2>3. /\ disk'.svc.by \in {"none", "pwshpy"} /\ disk'.tim.by \in {"none", "pwshpy"}
    BY <1>3, <2>1, <2>2 DEF Effect, TasksInv, TypeOK, RegisterInv, Unit, None
  <2>4. "stoptimer" \notin ToDo' => armed' = "no"
    BY <1>3, <1>4, <2>1, <2>2 DEF Effect, TasksInv, RegisterInv
  <2>5. "writesvc" \notin ToDo' => disk'.svc = Unit("pwshpy", "demand", regs)
    BY <1>3, <1>4, <2>1, <2>2 DEF Effect, TasksInv, TypeOK, RegisterInv
  <2>6. ASSUME op.trig = "demand"
        PROVE  /\ "disable" \notin ToDo' => ~disk'.link
               /\ "rmtimer" \notin ToDo' => disk'.tim = None
    <3>1. h \in {"stoptimer", "disable", "rmtimer", "writesvc", "reload"}
      BY <1>2, <2>6 DEF StepsOf
    <3> QED BY <1>3, <1>4, <2>2, <2>6, <3>1 DEF Effect, TasksInv, TypeOK, RegisterInv
  <2>7. ASSUME op.trig # "demand"
        PROVE  /\ "writetimer" \notin ToDo' => disk'.tim = Unit("pwshpy", op.trig, regs)
               /\ "enable" \notin ToDo' => disk'.link
    <3>1. h \in {"stoptimer", "writesvc", "writetimer", "reload", "enable"}
      BY <1>2, <1>5, <2>1, <2>7 DEF StepsOf, TasksInv, TypeOK, Triggers
    <3>2. ~disk.static
      BY <2>2 DEF TasksInv, RegisterInv, WorldInv
    <3>3. h = "enable" => disk.tim.by = "pwshpy"
      BY <1>7, <2>2, <2>7 DEF TasksInv, RegisterInv, Unit
    <3> QED BY <1>3, <1>4, <2>2, <2>7, <3>1, <3>2, <3>3
            DEF Effect, Installs, TasksInv, TypeOK, RegisterInv
  <2>8. ToDo' = {"starttimer"} => mem' = disk'
    <3>1. ToDo' = {"starttimer"} => op.trig = "calendar"
      BY <1>1, <1>2, <1>4, <1>5 DEF PlanOf, StepsOf, TasksInv, TypeOK, Triggers
    <3>2. ToDo' = {"starttimer"} => h = "reload"
      BY <1>2, <1>4, <3>1
    <3> QED BY <1>3, <3>2 DEF Effect
  <2> QED BY <1>3, <1>5, <2>3, <2>4, <2>5, <2>6, <2>7, <2>8 DEF RegisterInv
<1>18. UnregisterInv'
  <2> SUFFICES ASSUME op.name = "unregister", q # <<>> PROVE UnregisterInv'
    BY <1>3, <1>5 DEF UnregisterInv, Under
  <2>1. h \in {"stoptimer", "disable", "rmtimer", "stopsvc", "rmsvc", "reload"}
    BY <1>2 DEF StepsOf
  <2>2. Under("unregister")
    BY <1>9
  <2> USE DEF Effect, TasksInv, TypeOK, UnregisterInv, Owned, None, Unit
  <2>3. /\ disk'.svc.by \in {"none", "pwshpy", "vendor"}
        /\ disk'.tim.by \in {"none", "pwshpy", "vendor"}
    BY <1>3, <2>1, <2>2
  <2>4. /\ {"stoptimer", "disable", "rmtimer"} \cap ToDo' # {} => Owned(disk'.tim)
        /\ Owned(disk'.tim) => "rmtimer" \in ToDo'
    BY <1>3, <1>4, <1>6, <1>7, <2>1, <2>2
  <2>5. /\ "rmsvc" \in ToDo' => Owned(disk'.svc)
        /\ Owned(disk'.svc) => "rmsvc" \in ToDo'
    BY <1>3, <1>4, <1>6, <2>1, <2>2
  <2>6. /\ "stoptimer" \notin ToDo' /\ disk'.tim.by # "vendor" => armed' = "no"
        /\ "disable" \notin ToDo' /\ disk'.tim.by # "vendor" => ~disk'.link
    BY <1>3, <1>4, <1>7, <2>1, <2>2
  <2>7. "stopsvc" \notin ToDo' /\ "vendor" \notin {disk'.svc.by, disk'.tim.by} =>
          running' # "yes" /\ armed' = "no"
    BY <1>3, <1>4, <1>7, <2>1, <2>2
  <2> QED BY <2>3, <2>4, <2>5, <2>6, <2>7
<1>19. EnablingInv'
  <2>1. Under("enable")' => IsThere(disk'.tim)
    <3>1. op.name = "enable" => h \in {"enable", "reload", "starttimer"}
      BY <1>2 DEF StepsOf
    <3> QED BY <1>3, <1>5, <1>9, <3>1 DEF Effect, TasksInv, TypeOK, EnablingInv, Under
  <2>2. ASSUME op.name = "disable"
        PROVE  /\ ~disk'.static
               /\ "stoptimer" \notin ToDo' => armed' = "no"
               /\ "disable" \notin ToDo' => ~disk'.link
    <3>1. h \in {"stoptimer", "disable", "reload"}
      BY <1>2, <2>2 DEF StepsOf
    <3> QED BY <1>3, <1>4, <1>9, <1>static, <2>2, <3>1 DEF Effect, TasksInv, TypeOK, EnablingInv
  <2> QED BY <1>5, <2>1, <2>2 DEF EnablingInv, Under
<1> QED BY <1>8, <1>15, <1>16, <1>17, <1>18, <1>19 DEF TasksInv

\* Every step keeps the invariant.
LEMMA TasksNext == TasksInv /\ [Next]_vars => TasksInv'
<1> SUFFICES ASSUME TasksInv, [Next]_vars PROVE TasksInv'
  OBVIOUS
<1>1. CASE UNCHANGED vars
  <2>1. ToDo' = ToDo
    BY <1>1 DEF vars, ToDo
  <2> QED BY <1>1, <2>1
          DEF vars, TasksInv, TypeOK, PlanInv, WorldInv, RegisterInv, UnregisterInv,
              EnablingInv, Under, IsThere
<1>2. CASE RegisterRefused \/ UnregisterRefused \/ ScheduleRefused \/ RunRefused
  BY <1>2, RefuseKeeps DEF RegisterRefused, UnregisterRefused, ScheduleRefused, RunRefused
<1> QED BY <1>1, <1>2, RegisterKeeps, UnregisterKeeps, OthersKeep, SystemdKeeps, PullInKeeps, RebootKeeps,
           FailKeeps, DoKeeps DEF Next, Operation

-----------------------------------------------------------------------------
(* What a step of the tasks may never do.                                  *)

\* Only an operation's last step completes it.
LEMMA OnlyTheLastStep ==
    ASSUME TasksInv, [Next]_vars, NEW name, Completes(name)
    PROVE  DoStep /\ Tail(plan) = <<>> /\ op.name = name
<1>1. op'.end = "done" /\ op.end = "none" /\ op'.name = name
  BY DEF Completes
<1>2. DoStep
  BY <1>1 DEF Next, vars, Operation, Register, RegisterRefused, Unregister, UnregisterRefused,
              Enable, Disable, ScheduleRefused, Run, Stop, RunRefused, Begin, Refuse,
              FailStep, Fire, ServiceEnds, PullIn, Unload, Reboot, TasksInv, TypeOK
<1> QED BY <1>1, <1>2 DEF DoStep, TasksInv, TypeOK

\* What is so when the last step of a plan is to be done.
LEMMA LastStep ==
    ASSUME TasksInv, DoStep, Tail(plan) = <<>>
    PROVE  /\ ToDo = {Head(plan)} /\ Under(op.name) /\ Effect(Head(plan))
           /\ op.name = "unregister" \/ (op.name = "register" /\ op.trig # "calendar") =>
                Head(plan) = "reload"
           /\ op.name = "register" /\ op.trig = "calendar" => Head(plan) = "starttimer"
<1>1. plan \in Seq(Steps) /\ plan # <<>> /\ PlanOf(plan, op.name, op.trig)
  BY DEF DoStep, TasksInv, TypeOK, PlanInv
<1>2. /\ StepsIn(plan) = {Head(plan)} \cup StepsIn(Tail(plan))
      /\ StepsIn(Tail(plan)) = {}
      /\ op.name = "unregister" \/ (op.name = "register" /\ op.trig # "calendar") =>
           Head(plan) = "reload"
      /\ op.name = "register" /\ op.trig = "calendar" => Head(plan) = "starttimer"
  BY <1>1, TailPlan
<1>3. ToDo = {Head(plan)}
  BY <1>2 DEF ToDo
<1> QED BY <1>1, <1>2, <1>3 DEF DoStep, Under

\* A register that returns has made the task what it was told.
LEMMA RegisterMakes ==
    ASSUME TasksInv, [Next]_vars, Completes("register")
    PROVE  /\ disk'.svc = Unit("pwshpy", "demand", regs)
           /\ disk'.tim = IF op.trig = "demand" THEN None ELSE Unit("pwshpy", op.trig, regs)
           /\ disk'.link = (op.trig # "demand")
           /\ mem' = disk'
           /\ (armed' # "no") = (op.trig = "calendar")
<1>1. /\ DoStep /\ Tail(plan) = <<>> /\ op.name = "register"
  BY OnlyTheLastStep
<1>2. /\ ToDo = {Head(plan)} /\ Under("register") /\ Effect(Head(plan))
      /\ op.trig # "calendar" => Head(plan) = "reload"
      /\ op.trig = "calendar" => Head(plan) = "starttimer"
  BY <1>1, LastStep
<1>3. /\ armed = "no" /\ disk.svc = Unit("pwshpy", "demand", regs)
      /\ op.trig = "demand" => ~disk.link /\ disk.tim = None
      /\ op.trig # "demand" => disk.link /\ disk.tim = Unit("pwshpy", op.trig, regs)
      /\ op.trig = "calendar" => mem = disk
  BY <1>2 DEF TasksInv, RegisterInv
<1>4. disk' = disk /\ mem' = disk
  BY <1>2, <1>3 DEF Effect
<1>5. (armed' # "no") = (op.trig = "calendar")
  BY <1>2, <1>3 DEF Effect
<1>6. disk'.link = (op.trig # "demand")
  BY <1>3, <1>4 DEF TasksInv, TypeOK
<1> QED BY <1>3, <1>4, <1>5, <1>6

\* An unregister that returns leaves nothing of pwshpy's.
LEMMA UnregisterLeaves ==
    ASSUME TasksInv, [Next]_vars, Completes("unregister")
    PROVE  /\ ~Owned(disk'.svc) /\ ~Owned(disk'.tim)
           /\ mem' = disk'
           /\ running' = "yes" => "vendor" \in {disk.svc.by, disk.tim.by}
<1>1. /\ DoStep /\ Tail(plan) = <<>> /\ op.name = "unregister"
  BY OnlyTheLastStep
<1>2. /\ ToDo = {"reload"} /\ Under("unregister") /\ Effect("reload")
  BY <1>1, LastStep
<1>3. UNCHANGED <<disk, running>> /\ mem' = disk
  BY <1>2 DEF Effect
<1> QED BY <1>2, <1>3 DEF TasksInv, UnregisterInv

\* What somebody else wrote stays.
LEMMA ForeignStay ==
    ASSUME TasksInv, [Next]_vars
    PROVE  /\ \A part \in {"svc", "tim"} :
                disk[part].by \in {"foreign", "vendor"} => disk'[part] = disk[part]
           /\ disk.tim.by \in {"foreign", "vendor"} /\ op.name \in {"register", "unregister"}
                /\ plan' # plan /\ reboots' = reboots
                => armed' = armed /\ disk'.link = disk.link
<1>1. ASSUME DoStep \/ FailStep
      PROVE  /\ Head(plan) \in ToDo /\ Under(op.name)
             /\ Head(plan) \in StepsOf(op.name, op.trig)
             /\ Head(plan) = "starttimer" => Head(plan) \notin StepsOf("unregister", op.trig)
    <2>1. plan \in Seq(Steps) /\ plan # <<>> /\ PlanOf(plan, op.name, op.trig)
      BY <1>1 DEF DoStep, FailStep, TasksInv, TypeOK, PlanInv
    <2>2. /\ StepsIn(plan) = {Head(plan)} \cup StepsIn(Tail(plan))
          /\ Head(plan) \in StepsOf(op.name, op.trig)
      BY <2>1, TailPlan
    <2> QED BY <2>1, <2>2 DEF ToDo, Under, StepsOf
<1>2. ASSUME DoStep \/ FailStep
      PROVE  /\ Head(plan) \in {"writesvc", "writetimer"} => Under("register")
             /\ Head(plan) = "rmsvc" => Under("unregister")
             /\ Head(plan) = "rmtimer" => Under("register") \/ Under("unregister")
             /\ op.name = "unregister" => Head(plan) \notin {"enable", "starttimer"}
  BY <1>1, <1>2 DEF StepsOf, TasksInv, TypeOK, Triggers
<1>3. ASSUME DoStep \/ FailStep
      PROVE  /\ disk.svc.by \in {"foreign", "vendor"} =>
                  Head(plan) \notin {"writesvc", "rmsvc"}
             /\ disk.tim.by \in {"foreign", "vendor"} =>
                  Head(plan) \notin {"writetimer", "rmtimer"}
             /\ disk.tim.by \in {"foreign", "vendor"} /\ op.name \in {"register", "unregister"} =>
                  Head(plan) \notin {"stoptimer", "disable", "enable", "starttimer"}
  <2>1. /\ Under("register") => disk.svc.by \in {"none", "pwshpy"} /\ disk.tim.by \in {"none", "pwshpy"}
        /\ Under("unregister") =>
             /\ {"stoptimer", "disable", "rmtimer"} \cap ToDo # {} => Owned(disk.tim)
             /\ "rmsvc" \in ToDo => Owned(disk.svc)
    BY DEF TasksInv, RegisterInv, UnregisterInv
  <2> QED BY <1>1, <1>2, <1>3, <2>1 DEF Owned
<1>4. CASE DoStep
  BY <1>3, <1>4 DEF DoStep, Effect, TasksInv, TypeOK
<1>5. CASE FailStep
  BY <1>3, <1>5 DEF FailStep, TasksInv, TypeOK
<1>6. CASE Operation
  <2>1. UNCHANGED world /\ plan = <<>>
    BY <1>6 DEF Operation, Register, RegisterRefused, Unregister, UnregisterRefused,
                Enable, Disable, ScheduleRefused, Run, Stop, RunRefused, Begin, Refuse, world
  <2> QED BY <2>1 DEF world
<1>7. CASE Fire \/ ServiceEnds \/ PullIn \/ Unload \/ Reboot \/ UNCHANGED vars
  BY <1>7 DEF Fire, ServiceEnds, PullIn, Unload, Reboot, vars, TasksInv, TypeOK
<1> QED BY <1>4, <1>5, <1>6, <1>7 DEF Next

-----------------------------------------------------------------------------
(* The reader.                                                             *)

\* Before a call nothing is claimed.
LEMMA LookInitially ==
    ASSUME look = Idle, steady = FALSE
    PROVE  LookInv
<1>1. /\ look \in [pc : {"idle", "timer", "service", "owner", "units", "files", "load", "done"},
                   answer : {"none", "timer", "service", "absent", "raised", "skipped", "listed",
                             "ended"}]
      /\ look.pc = "idle"
  BY DEF Idle
<1>2. steady \in BOOLEAN
  OBVIOUS
<1> QED BY <1>1, <1>2 DEF LookInv, ReadsTellTheTruth

\* A timer comes after its service and goes before it.
LEMMA ServiceFirst ==
    ASSUME TasksInv, Next, IsThere(disk'.tim),
           IsThere(disk.tim) => disk.tim.by \in {"pwshpy", "torn"} /\ disk.svc.by \in {"pwshpy", "torn"}
    PROVE  /\ disk'.tim.by \in {"pwshpy", "torn"} /\ disk'.svc.by \in {"pwshpy", "torn"}
           /\ ~IsThere(disk.tim) => Owned(disk.svc)
<1>1. CASE DoStep \/ FailStep
  <2> DEFINE h == Head(plan)
  <2> DEFINE q == Tail(plan)
  <2>1. plan \in Seq(Steps) /\ plan # <<>> /\ PlanOf(plan, op.name, op.trig)
    BY <1>1 DEF DoStep, FailStep, TasksInv, TypeOK, PlanInv
  <2>2. /\ StepsIn(plan) = {h} \cup StepsIn(q) /\ h \in StepsOf(op.name, op.trig)
        /\ h # "reload" => \A s \in StepsIn(q) : s # "reload" => Rank(h) < Rank(s)
    BY <2>1, TailPlan
  <2>3. ToDo = {h} \cup StepsIn(q) /\ Under(op.name)
    BY <2>1, <2>2 DEF ToDo, Under
  <2>4. /\ DoStep => Effect(h)
        /\ FailStep => \/ disk' = disk
                       \/ h = "writesvc" /\ disk' = [disk EXCEPT !.svc.by = "torn"]
                       \/ h = "writetimer" /\ disk' = [disk EXCEPT !.tim.by = "torn"]
    BY DEF DoStep, FailStep
  <2> HIDE DEF h, q
  <2>5. h = "writetimer" => disk.svc = Unit("pwshpy", "demand", regs)
    <3>1. h = "writetimer" => "writesvc" \notin ToDo
      BY <2>2, <2>3 DEF Rank
    <3>2. h = "writetimer" => Under("register")
      BY <2>2, <2>3 DEF StepsOf
    <3> QED BY <3>1, <3>2 DEF TasksInv, RegisterInv
  <2>6. h = "rmsvc" => disk.tim.by \notin {"pwshpy", "torn"}
    <3>1. h = "rmsvc" => "rmtimer" \notin ToDo
      BY <2>2, <2>3 DEF Rank
    <3>2. h = "rmsvc" => Under("unregister")
      BY <2>2, <2>3 DEF StepsOf
    <3> QED BY <3>1, <3>2 DEF TasksInv, UnregisterInv, Owned
  <2> USE DEF TasksInv, TypeOK, Units, IsThere, Owned, Unit, None
  <2>7. CASE DoStep
    BY <2>4, <2>5, <2>6, <2>7 DEF Effect
  <2>8. CASE FailStep
    BY <2>4, <2>5, <2>8
  <2> QED BY <1>1, <2>7, <2>8
<1>2. CASE ~(DoStep \/ FailStep)
  <2>1. disk' = disk
    BY <1>2 DEF Next, Operation, Register, RegisterRefused, Unregister, UnregisterRefused,
                Enable, Disable, ScheduleRefused, Run, Stop, RunRefused, Begin, Refuse, world,
                Fire, ServiceEnds, PullIn, Unload, Reboot
  <2> QED BY <2>1
<1> QED BY <1>1, <1>2

\* A step of the controller or of systemd, under the reader's eyes.
LEMMA TaskStepKeeps ==
    ASSUME TasksInv, LookInv, TaskStep
    PROVE  LookInv'
<1>1. CASE look.pc = "idle" \/ reboots' # reboots
  <2>1. look' = Idle /\ steady' = FALSE
    BY <1>1 DEF TaskStep
  <2>2. /\ look' \in [pc : {"idle", "timer", "service", "owner", "units", "files", "load", "done"},
                      answer : {"none", "timer", "service", "absent", "raised", "skipped",
                                "listed", "ended"}]
        /\ look'.pc = "idle"
    BY <2>1 DEF Idle
  <2>3. steady' \in BOOLEAN
    BY <2>1
  <2> QED BY <2>2, <2>3 DEF LookInv, ReadsTellTheTruth
<1>2. CASE look.pc # "idle" /\ reboots' = reboots
  <2>1. /\ Next /\ look.pc \notin {"idle", "done"} /\ UNCHANGED look
        /\ saw' = saw \cup TaskIs' /\ steady' = (steady /\ IsThere(disk'.tim))
    BY <1>2 DEF TaskStep
  <2>2. TaskIs' \subseteq saw' /\ TaskIs \subseteq saw /\ saw \subseteq saw'
    BY <2>1 DEF LookInv
  <2>3. ASSUME look.pc \in {"service", "owner"}, IsThere(disk'.tim)
        PROVE  /\ disk'.tim.by \in {"pwshpy", "torn"} /\ disk'.svc.by \in {"pwshpy", "torn"}
               /\ "service" \in saw'
    <3>1. IsThere(disk.tim) =>
            /\ disk.tim.by \in {"pwshpy", "torn"} /\ disk.svc.by \in {"pwshpy", "torn"}
            /\ "service" \in saw
      BY <2>3 DEF LookInv
    <3>2. /\ disk'.tim.by \in {"pwshpy", "torn"} /\ disk'.svc.by \in {"pwshpy", "torn"}
          /\ ~IsThere(disk.tim) => Owned(disk.svc)
      BY <2>1, <2>3, <3>1, ServiceFirst
    <3>3. ~IsThere(disk.tim) => "service" \in TaskIs
      BY <3>2 DEF TaskIs, Kind
    <3> QED BY <2>2, <3>1, <3>2, <3>3
  <2>4. look'.pc # "done" /\ UNCHANGED look /\ steady' \in BOOLEAN
    BY <2>1
  <2> QED BY <2>1, <2>2, <2>3, <2>4 DEF LookInv, ReadsTellTheTruth
<1> QED BY <1>1, <1>2

\* A step of the reader.
LEMMA LookStepKeeps ==
    ASSUME TasksInv, LookInv, LookStep
    PROVE  LookInv'
<1>1. UNCHANGED <<disk, mem, armed>> /\ TaskIs' = TaskIs
  BY DEF LookStep, vars, TaskIs, Loaded
<1>2. /\ ~IsThere(Loaded("tim")) => ~IsThere(disk.tim)
      /\ ~IsThere(Loaded("svc")) => ~IsThere(disk.svc)
  BY DEF Loaded
<1>3. /\ IsThere(Loaded("tim")) => "timer" \in TaskIs
      /\ ~IsThere(disk.tim) => (IF Owned(disk.svc) THEN "service" ELSE "absent") \in TaskIs
      /\ disk.svc.by = "torn" => "absent" \in TaskIs
  BY DEF TaskIs, Kind
<1>4. \A pc \in {"idle", "timer", "service", "owner", "units", "files", "load", "done"} :
        To(pc) => /\ look' \in [pc : {"idle", "timer", "service", "owner", "units", "files",
                                      "load", "done"},
                                answer : {"none", "timer", "service", "absent", "raised",
                                          "skipped", "listed", "ended"}]
                  /\ look'.pc = pc
  BY DEF To, LookInv
<1>5. \A a \in {"none", "timer", "service", "absent", "raised", "skipped", "listed", "ended"} :
        Answer(a) => /\ look' \in [pc : {"idle", "timer", "service", "owner", "units", "files",
                                         "load", "done"},
                                   answer : {"none", "timer", "service", "absent", "raised",
                                             "skipped", "listed", "ended"}]
                     /\ look'.pc = "done" /\ look'.answer = a
  BY DEF Answer, LookInv
<1>6. SkipOrRaise => Answer("raised") \/ Answer("skipped")
  BY DEF SkipOrRaise
<1> USE DEF LookInv, ReadsTellTheTruth
<1>7. CASE Ask
  <2>1. steady' \in BOOLEAN /\ steady' = IsThere(disk.tim) /\ saw' = TaskIs
    BY <1>7 DEF Ask, IsThere
  <2>2. To("timer") \/ To("units")
    BY <1>7 DEF Ask
  <2> QED BY <1>1, <1>4, <2>1, <2>2
<1>8. CASE LookupTimer
  BY <1>1, <1>2, <1>3, <1>4, <1>5, <1>8 DEF LookupTimer
<1>9. CASE LookupService
  BY <1>1, <1>2, <1>3, <1>4, <1>5, <1>9 DEF LookupService, Owned, IsThere
<1>10. CASE LookupOwner
  BY <1>1, <1>3, <1>5, <1>6, <1>10 DEF LookupOwner, Owned, IsThere
<1>11. CASE ListLoaded
  BY <1>1, <1>4, <1>5, <1>11 DEF ListLoaded
<1>12. CASE ListFiles
  BY <1>1, <1>4, <1>5, <1>12 DEF ListFiles
<1>13. CASE ListLoads
  BY <1>1, <1>2, <1>5, <1>13 DEF ListLoads
<1>14. CASE LookFails
  BY <1>1, <1>5, <1>6, <1>14 DEF LookFails
<1>15. CASE LookEnds
  BY <1>15 DEF LookEnds, Idle
<1> QED BY <1>7, <1>8, <1>9, <1>10, <1>11, <1>12, <1>13, <1>14, <1>15 DEF LookStep

\* Whoever acts, both invariants stay.
LEMMA LookNext ==
    TasksInv /\ LookInv /\ [TaskStep \/ LookStep]_allVars => TasksInv' /\ LookInv' /\ [Next]_vars
<1> SUFFICES ASSUME TasksInv, LookInv, [TaskStep \/ LookStep]_allVars
             PROVE  TasksInv' /\ LookInv' /\ [Next]_vars
  OBVIOUS
<1>1. [Next]_vars
  BY DEF TaskStep, LookStep, allVars
<1>2. TasksInv'
  BY <1>1, TasksNext
<1>3. CASE UNCHANGED allVars
  <2>1. UNCHANGED <<vars, look, saw, steady>> /\ TaskIs' = TaskIs
    BY <1>3 DEF allVars, vars, lookVars, TaskIs, Loaded
  <2> QED BY <1>1, <1>2, <2>1 DEF LookInv, ReadsTellTheTruth, vars
<1> QED BY <1>1, <1>2, <1>3, TaskStepKeeps, LookStepKeeps

=============================================================================
