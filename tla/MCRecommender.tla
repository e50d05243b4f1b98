--------------------------- MODULE MCRecommender ---------------------------
(* Instances of Recommender.  A mebibyte is 2 bytes, so that bumped limits   *)
(* and halved requests fall between the values that can be written.          *)
EXTENDS Recommender, TLC

\* Requests and limits for cpu (m) and memory (bytes).
Res(cpuReq, cpuLim, memReq, memLim) ==
  (CpuReq :> cpuReq) @@ (CpuLim :> cpuLim) @@ (MemReq :> memReq) @@ (MemLim :> memLim)

MCTemplate == Res(10, 20, 4, 8)

-----------------------------------------------------------------------------
(* Literals, as they are written.                                            *)
Number(n) == [Absent EXCEPT !.type = "number", !.number = {100 * n}]
Text(n)   == [Number(n) EXCEPT !.type = "text"]
Word(w)   == [Absent EXCEPT !.type = "text", !.word = w]
Bool(w)   == [Word(w) EXCEPT !.type = "bool", !.number = {IF w = "true" THEN 100 ELSE 0}]
Yes       == Word("true")
No        == Word("false")
Typo      == Word("other")
Null      == [Absent EXCEPT !.type = "null"]
Weeks(n)  == [Days(168 * n) EXCEPT !.unit = "week"]

Unwritten == [k \in {} |-> Absent]

\* A chart that leaves the arithmetic small, and its two git sections.
Direct ==
  [mode |-> "direct", present |-> {"prometheusUrl"}, tokens |-> {}, app |-> {},
   provider |-> "", branch |-> Main, workBranch |-> SyncWork, username |-> "empty",
   author |-> "blank", email |-> "ok"]
GitOps ==
  [Direct EXCEPT !.mode = "", !.present = {"prometheusUrl", "repoUrl", "path"},
                 !.tokens = {"GIT_TOKEN"}, !.author = "ok"]

Chart ==
  ("marginFraction" :> Number(0)) @@ ("cpuLimitMultiplier" :> Text(2)) @@
  ("memoryLimitMultiplier" :> Number(2))

Plain ==
  [source |-> [kind |-> "file", keys |-> Chart, git |-> Direct],
   ns |-> "enabled" :> Yes, wl |-> Unwritten, chartSkips |-> FALSE, alone |-> TRUE,
   upgraded |-> FALSE]

\* The setup with keys written in the chart, the namespace and the workload.
Written(s, chart, ns, wl) ==
  [s EXCEPT !.source.keys = chart @@ @, !.ns = ns @@ @, !.wl = wl @@ @]

Shared  == [Plain EXCEPT !.alone = FALSE]
Commits == [Shared EXCEPT !.source.git = GitOps]

\* The settings one at a time, and the combinations whose passes disagree, each
\* written in some layer, some of them mistyped or out of place.
Working ==
  [plain |-> Plain,
   gitops |-> Written(Commits, "createMr" :> Null, "skip" :> Yes, "enabled" :> No),
   noFloor |-> Written(Shared, Unwritten, "oomFloorEnabled" :> No, "oomFloorEnabled" :> Typo),
   frozen |-> Written(Plain, "growOnly" :> Bool("true"), "shrinkOnly" :> Yes,
                      ("growOnly" :> Typo) @@ ("cpuPercentile" :> Text(95))),
   shrinking |-> Written(Plain, "shrinkOnly" :> Yes, "minMemoryRequestMi" :> Text(5),
                         ("growOnly" :> Typo) @@ ("minMemoryRequestMi" :> Typo)),
   capped |-> Written(Plain, Unwritten, ("minCpuRequestM" :> Text(35)) @@ ("maxChangePercent" :> Text(10)),
                      "maxChangePercent" :> Text(50)),
   cooling |-> Written(Plain, ("cooldownHours" :> Number(1)) @@ ("roundValues" :> Yes),
                       ("growOnly" :> Yes) @@ ("emitCpuLimits" :> Yes), "emitCpuLimits" :> No),
   coolingGit |-> Written([Commits EXCEPT !.source.kind = "env"], "cooldownHours" :> Text(1), Unwritten,
                          Unwritten),
   ceilings |-> Written(Plain, ("maxMemoryLimitMi" :> Number(9)) @@ ("maxCpuLimitM" :> Number(30)),
                        "maxChangePercent" :> Text(50), "maxMemoryLimitMi" :> Typo),
   weekly |-> Written(Plain, ("memRequestWindow" :> Weeks(2)) @@ ("memRequestMargin" :> Number(0)),
                      "marginFraction" :> Text(1), "healthGateEnabled" :> Typo)]

\* Setups under which nothing is recommended, or no kill is heard of.
Idle ==
  [conflict |-> Written(Plain, "minCpuRequestM" :> Number(40), Unwritten, "maxCpuRequestM" :> Text(30)),
   badBounds |-> Written(Plain, ("minCpuLimitM" :> Number(40)) @@ ("maxCpuLimitM" :> Number(30)),
                         Unwritten, Unwritten),
   badRatio |-> Written(Plain, "cpuPercentile" :> Number(95), Unwritten, Unwritten),
   badWindow |-> Written(Plain, "cpuLimitWindow" :> Number(5), Unwritten, Unwritten),
   illegible |-> Written(Plain, "maxRestartsInWindow" :> Typo, Unwritten, Unwritten),
   noToken |-> [Commits EXCEPT !.source.git.tokens = {}],
   halfApp |-> [Commits EXCEPT !.source.git.app = {"appId", "appKey"}, !.source.git.tokens = {}],
   foreignBranch |-> [Commits EXCEPT !.source.git.workBranch = Main],
   nameless |-> [Commits EXCEPT !.source.git.author = "newline"],
   optedOut |-> Written(Plain, Unwritten, "enabled" :> Typo, Unwritten),
   skipped |-> Written(Plain, Unwritten, Unwritten, "skip" :> Yes),
   noContainer |-> Written([Shared EXCEPT !.chartSkips = TRUE], Unwritten, "skipContainers" :> Typo,
                           Unwritten),
   deaf |-> Written([Plain EXCEPT !.chartSkips = TRUE], ("oomDetectionEnabled" :> No) @@ ("maxRestartsInWindow" :> Bool("true")),
                    "skipContainers" :> Typo,
                    ("skipContainers" :> Word("empty")) @@ ("oomDetectionEnabled" :> Yes) @@
                    ("oomFloorReset" :> Yes))]

\* Taken over from an older release.
Upgraded ==
  [upgraded |-> [Written(Plain, Unwritten, "healthGateEnabled" :> No, Unwritten) EXCEPT !.upgraded = TRUE],
   upgradedGit |-> [Written(Commits, Unwritten, "oomDetectionEnabled" :> No, Unwritten) EXCEPT !.upgraded = TRUE]]

MCSetups == Working @@ Idle @@ Upgraded
GitopsOnly == [gitops |-> [Plain EXCEPT !.source.git = GitOps]]

\* Light and heavy use; only the query for CPU requests answered; and no request
\* at all, memory because its queries fail, CPU because it is scraped once a minute.
Pod(of, cpu, memory, peakCpu, peakMemory) ==
  [of |-> of, cpu |-> cpu, memory |-> memory, peak |-> [cpu |-> peakCpu, memory |-> peakMemory]]
Light  == {Pod("target", <<6>>, <<3>>, 11, 7)}
Heavy  == {Pod("target", <<6, 40>>, <<3, 3>>, 90, 5), Pod("namesake", <<40, 8>>, <<9, 9>>, 12, 13),
           Pod("other", <<99, 99>>, <<99, 99>>, 99, 99)}
Steady == {Pod("target", <<20>>, <<5>>, 20, 5)}
Scraped(pods, interval, failing) ==
  [pods |-> pods, interval |-> interval, targets |-> {interval, 600}, global |-> {30},
   failing |-> failing]
LightUse == Scraped(Light, 15, {})
HeavyUse == Scraped(Heavy, 30, {})
CpuOnly  == [Scraped(Steady, 15, {"memRequest", "memLimit", "cpuLimit"}) EXCEPT !.targets = {}]
Sparse   == [Scraped(Steady, 60, {"memRequest", "memLimit"}) EXCEPT !.global = {2}]

\* A quiet and a crash-looping container, by the count over either window, and
\* enough or few points for the percentiles.
Counted(cpu, mem, failures, cpuPoints, memPoints) ==
  [restarts |-> [cpuRequestWindow |-> cpu, memRequestWindow |-> mem],
   restartFailures |-> failures, points |-> [cpu |-> cpuPoints, memory |-> memPoints]]
Quiet   == Counted({0}, {3}, 1, {1080}, {})
Looping == Counted({0}, {4}, 0, {4000}, {576})
Patchy  == Counted({0}, {1}, 0, {4000}, {575})

Monitored(source, health) ==
  [pods |-> {[of |-> pod.of, cpu |-> pod.cpu, peak |-> pod.peak, memory |-> pod.memory,
              restarts |-> health.restarts] : pod \in source.pods},
   interval |-> source.interval, targets |-> source.targets, global |-> source.global,
   failing |-> source.failing,
   restartFailures |-> health.restartFailures, points |-> health.points]
MCMonitorings ==
  {Monitored(source, Quiet) : source \in {LightUse, HeavyUse, CpuOnly, Sparse}} \cup
  {Monitored(source, Looping) : source \in {LightUse, HeavyUse}} \cup
  {Monitored(HeavyUse, Patchy)}

MCNeeds == {17}
=============================================================================
