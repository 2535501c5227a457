SPECIFICATION FairSpec
PROPERTY GpsReceives
