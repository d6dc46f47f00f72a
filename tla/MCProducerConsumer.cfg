CONSTANTS
  numProducers = 2
  numConsumers = 2
  numItems = 3
  QueueCapacity = 2
  NoItem = NoItem
SPECIFICATION Spec
INVARIANTS TypeOK NoLostWakeup ItemsConserved ProducerOrder CleanShutdown
PROPERTIES Terminates
