SPECIFICATION FairSpec
CONSTANTS
  r1 = r1
  r2 = r2
  Replicas <- MCReplicas
  NoSecret = NoSecret
  Deployments <- MCDeployments
  MaxTrouble = 0
PROPERTY ReplicasAgree
